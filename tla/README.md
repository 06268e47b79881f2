# A verification of the xv6 kernel of the page-table lab

This directory specifies the kernel in `src/xv6-labs-2023/kernel` in TLA+: xv6 for
RISC-V as the page-table lab leaves it, with the page `USYSCALL` that lets user
code read its pid without a system call. TLC checks the models on small machines,
and TLAPS proves theorems about them for machines of any size.

`src/Submission/.../xv6-labs-2023` holds the same sources with other line ends.
`src/xv6-labs-2024` is the next year's skeleton, in which the lab is not solved. All
references below are to `src/xv6-labs-2023/kernel` unless a path says otherwise.

## 1. Inventory

### The parts, their state and their operations

| part | state | operations | what makes it correct |
|---|---|---|---|
| page allocator (`kalloc.c`) | `kmem.freelist` | `kinit`, `kalloc`, `kfree` | each page is free once or owned once |
| user page tables (`vm.c`) | trees of table pages | `uvmcreate`, `uvmfirst`, `uvmalloc`, `uvmdealloc`, `uvmcopy`, `uvmunmap`, `uvmfree`, `freewalk`, `walk`, `mappages`; readers `copyin`, `copyout`, `copyinstr` | a process can access its bytes and no others; a call that runs out of memory undoes what it did |
| process table (`proc.c`) | `proc[]`, `wait_lock`, `nextpid`, `cpus[]` | `userinit`, `fork`, `exit`, `wait`, `kill`, `sleep`, `wakeup`, `yield`, `scheduler` | a process is on one hart at a time, no wakeup is lost, no orphans, a kill hits its pid |
| `exec.c` | a second table beside the old one | `exec` | the new image or the old one, never a mixture |
| spinlocks, sleep locks | holder, sleepers | `acquire`, `release`, `acquiresleep`, `releasesleep` | exclusion, no deadlock |
| log (`log.c`) | `log`, the header and data blocks on disk | `initlog`, `begin_op`, `log_write`, `end_op`, `commit` | calls are on the disk with all of their writes or none |
| buffer cache (`bio.c`) | `bcache.buf`, the list | `bget`, `bread`, `bwrite`, `brelse`, `bpin`, `bunpin` | one copy of a block, one user at a time |
| disk driver (`virtio_disk.c`) | descriptors, two rings, shared with the device | `virtio_disk_rw`, `virtio_disk_intr` | each request is carried out once, no completion is lost |
| pipes (`pipe.c`) | the ring and its counters | `pipewrite`, `piperead`, `pipeclose` | one queue of bytes; freed once, at the last close |
| files (`file.c`) | `ftable`, `p->ofile` | `filealloc`, `filedup`, `fileclose`, `fileread`, `filewrite` | reference counts are exact |
| inodes, directories (`fs.c`) | `itable`, bitmap, dinodes | `iget`, `iput`, `ilock`, `ialloc`, `bmap`, `itrunc`, `dirlink`, `namex` | link and reference counts are exact, no inode is lost, nobody waits in a circle |
| file system calls (`sysfile.c`) | - | `link`, `unlink`, `create`, `open`, `pipe`, ... | partial failures undone within their transaction |
| clock and traps (`trap.c`, `sysproc.c`) | `ticks`, pending interrupts | `usertrap`, `clockintr`, `sys_sleep`, `sys_sbrk`, `sys_pgaccess` | a pause ends |
| console, uart | two rings | `consoleread`, `consoleintr`, `uartputc`, `uartintr` | lines in order, readers and writers woken, output never stalls |
| user `malloc` (`user/umalloc.c`) | a circular free list | `malloc`, `free` | blocks do not overlap, neighbours merge |
| copies (`copyin`, `copyout`, `copyinstr`) and `sys_pgaccess` | the accessed bits | - | the bytes the process may access and no others; each use of a page is reported |

Boot (`main.c`, `start.c`), the assembly files, printing, string functions, the host
tools, the user programs and the tests keep no state that these properties depend
on. `PROJECT.json` lists every part with its status and the reason.

### How they interact

- A system call enters through `usertrap()`; `fork`, `exec`, `sbrk`, `exit` and
  `wait` change both the process table and the page tables. The page allocator is
  all that the memory paths of two processes share: their steps interleave at
  `kalloc()` and `kfree()`.
- `sleep()` and `wakeup()` connect the pipes, the sleep locks, the log, the disk, the
  clock and `wait()` with the scheduler. A sleeper gives up the lock it names only
  after it has its own `p->lock`.
- `fs.c` reaches the disk through the log (`log_write` pins a buffer instead of
  writing it), the cache (sleep locks) and the driver (interrupts).
- `sysfile.c` runs each call as one transaction of the log over locked inodes; a directory
  stays locked while an inode in it is looked up, made or locked, so the order of the
  locks follows the paths.
- The interrupt of the UART calls both `consoleintr()` and `uartstart()`; the echo goes to the
  device past the transmit ring and its lock.
- `kill()` takes only `p->lock` and can come between any two steps of its victim.

### What is hard

Interleavings of processes, harts and interrupts that take several locks in turn;
memory that runs out at any `kalloc()`; a machine that stops between any two block
writes, during recovery too; a device that works on shared memory at its own pace;
counters that overflow (`ticks`, the ring indices, `nread` and `nwrite`); slots,
pages and buffers that are reused while somebody still knows them by their old
name. `PROJECT.json` lists each hazard at its line, with the properties that watch it.

## 2. The modules

| module | models | level |
|---|---|---|
| `PageTables` | `kalloc.c`, the user half of `vm.c`, the memory side of `proc.c`, `exec.c`, `sbrk` | a step is one `kalloc()` or `kfree()` with the private work around it |
| `ProcessImages` | what these calls promise | abstract: each call at once, or not at all |
| `PageTablesProofs` | theorems about `PageTables` | proofs |
| `Processes` | `proc.c`, `sys_sleep`, the clock interrupt, over spinlocks | a step takes at most one spinlock |
| `ProcessesProofs` | theorems about `Processes` | proofs |
| `DiskLog` | `log.c`, crashes, recovery | a step is one critical section or one block write |
| `AtomicDisk` | what the log promises | abstract |
| `DiskLogProofs` | theorems about `DiskLog` | proofs |
| `VirtioDisk` | `virtio_disk.c` and the device | a step is one critical section, or one access of the device to shared memory |
| `BufferCache` | `bio.c`, `sleeplock.c`, on `VirtioDisk` | a step is one critical section |
| `SyncDisk`, `CachedDisk` | what the driver and the cache promise | abstract |
| `BufferCacheProofs` | theorems about `BufferCache` and `VirtioDisk` | proofs |
| `FileCalls` | `sysfile.c`, the inodes and directories of `fs.c`, `file.c` for inodes | a step is one critical section of `itable.lock` or `ftable.lock`, or what happens from one inode lock to the next |
| `FileCallsProofs` | theorems about `FileCalls` | proofs |
| `FileBlocks` | the blocks of files in `fs.c`, `fileread`, `filewrite`, `O_TRUNC` | one turn of a loop; the bitmap changes once at most |
| `FileBlocksProofs` | theorems about `FileBlocks` | proofs |
| `Pipes` | `pipe.c`, `sys_pipe`, two files of `file.c`, kill | `pi->lock` is held over several steps of one byte each |
| `PipeFifo` | what a pipe and the transmit ring promise | abstract: a bounded queue |
| `PipesProofs` | theorems about `Pipes` | proofs |
| `Console` | `consoleread`, `consoleintr` | an interrupt, or one byte of a read |
| `LineInput` | what the console promises | abstract: a line being edited and a queue of lines |
| `Uart` | `uart.c`, `consolewrite`, the device | one access to a device register |
| `Umalloc` | `user/umalloc.c` | one turn of a loop |
| `UserMemory` | `copyin`, `copyout`, `copyinstr`, `sys_pgaccess`, the hart's accessed bits | one turn of a loop, for one page |
| `UserCallsProofs` | theorems about `Console`, `Uart`, `Umalloc` and `UserMemory` | proofs |
| `MC...` | instances for TLC | |

The `map` of `PROJECT.json` gives the lines that each definition stands for.

### PageTables

A *slot* is a pointer variable that can hold a page: `p->trapframe`, `p->usyscall`, a
local `mem`, the root of a table, or an entry of a table page. `ptr[s]` is the page
it holds, `free[pg]` how often the page is on the list. `op[p]` is where a process is
in the kernel, with its locals: `a` and `lim` are the loop variable and its end,
`base` is where `uvmdealloc()` would go back to, `sz` and `nsz` the size so far and
the size wanted, `then` is where a shared loop returns to. Each loop of `vm.c` is thus
written once and used by `fork`, `exec`, `sbrk`, `userinit` and `freeproc`, as the code
does it. A failed `kalloc()` is the branch `OutOfMemory` of the action; the undo is
the code's own. A panic is a state that nothing leaves.

Left out: the contents of user pages, permission bits, the parse of the ELF file
(it succeeds or fails at any point: `ExecFails`). `RUNNABLE` stands for `RUNNING` and
`SLEEPING` too; `Processes` has those.

### Processes

The step from one `acquire()` to the next is one action. Locks that stay held from
step to step are `plocked` (the `p->lock`s handed over to and by `scheduler()`, and
the one from `allocproc()` to the end of the copy in `fork()`), `waitLocked` and
`ticksLocked`. `cpu[h]` is the process whose kernel stack a hart is on. A process
with interrupts on can be taken off its hart by `Yield` at any step; a hart that
spins has them off (`Spin`), for another's `p->lock` too. The clock of `ClockHart` is a thread of its own that
interrupts whatever runs there. When `initproc` calls `exit()` it panics: it stays at `exit` for
ever, and the other harts go on.

### DiskLog

`disk`, `logdisk` and `hdr` survive `Crash`; everything else is lost, and the first
process boots and recovers. A block's value is the number of the call that wrote it
last. The cache is `buf` (what `bread()` would return) with `Recycle`, which throws
away any buffer without a pin, as `bget()` may.

### VirtioDisk and BufferCache

The device is three actions: take a head from the avail ring, carry out the request
(in any order), and post it in the used ring, with the interrupt. The
driver is split where it gives `vdisk_lock` away, where it writes `avail.idx`, and, in
the handler, at every entry that it looks at. `BufferCache` extends it: the processes
stand for `fs.c` and `log.c` and hold one buffer at a time.

### FileCalls

`inode` is what `bread()` returns of the inodes and the directories; `itable` and `ftable`
are the kernel's tables. `call[p]` is where a process is, with the pointers the code has
in local variables: `at` is the inode that `namex()` has reached, `ip` and `dp` are the
call's own, `put` is what `iput()` drops. The steps of `namex()`, `iput()`, `ialloc()` and
`dirlink()` are written once and used by all calls, which say in `ret` or by their `op`
where they go on.

`iput()` is three steps, as the code releases `itable.lock` in it: find the last
reference (`LastPut`), free the inode, and give the reference back. Below, the log is what
`AtomicDisk` says: the disk is committed when no call is in progress (`Committed`); `Crash`
comes then, and takes memory away. A crash at another moment has the same outcome as a crash
right after the last commit.

`orphans` and `missed` remember which inodes a crash, or an `iput()` that did not see the
last reference, has left behind. No action reads them.

### FileBlocks

`inode` is the copy in memory that `ilock()` has read, `dinode` the one on the disk, which
`iupdate()` writes. A *place* is where a block number may be: an entry of `ip->addrs`, or of
the block that the last of them names. The unit is four bytes, so a block holds as
many numbers as units of data. Data has no values, but the units of a block that is
given back become `Old`, so that a file that shows another's bytes is seen. `logged` is
what a call has told `log_write()`.

### Pipes

The pipe begins in `pipe()`, which may fail before it is made or after; then it closes both
ends again (`undoing`). `pi->lock` is held over a whole pass of the loop, one byte per step, while `Kill`
comes in between. The counters are modulo `UINT`. `wakeup()` is one step:
it reaches everybody that was asleep when it started, since nobody can go to sleep
on the pipe without `pi->lock`.

### Console and Uart

`Console` has the ring with its three indices modulo `UINT`: `consoleintr()` is one step
under `cons.lock`, a read gives the lock up in `sleep()`, and `kill()` comes between
any two bytes. `Uart` has the transmit ring, and a device that sends and receives whenever it
likes: a look at the line status and the write that follows are two steps. The handler
of the interrupt gets the received character, sends its echo past the ring
(`SyncIdle`, `SyncSend`), then starts the ring again (`StartIntr`).

### Umalloc

Memory is counted in headers. `hdr` maps the address of each header in use to its two
fields; the ring of free blocks, `freep` and the loops are the code's. The program may call
`sbrk()` itself, so what `morecore()` gets need not be next to what it got before.

### UserMemory

A process has one table of a few pages, each code, data, guard or absent. The unit is
four bytes, so that the mask of `pgaccess()` and the eight bytes the kernel copies differ.
The hart sets an accessed bit only when its TLB does not have the page; the return
to user space flushes the TLB.

## 3. The runs

Each run asks one question. The violation runs are section 6.

| run | question | machine |
|---|---|---|
| `memory_safety` | does any path lose, share or leak a page, panic, or leave a half-made image? | 3 slots, 17 pages |
| `log_crash` | is every call on the disk in full or not at all, and let in, and is there always room? | 2 processes, 3 blocks, 3 calls, 2 crashes |
| `proc_family` | one hart each, no lost wakeup, no orphan, no misdirected kill? | 3 slots, 2 harts; and pauses in 2 slots |
| `proc_live` | are the locks given back, does `wait()` return, does whoever is killed get to exit? | 2 slots, 2 harts, the clock; with `kill()`, and with pauses |
| `buffer_cache` | one copy, one user, exact counts; each request carried out once? | 3 processes, 2 buffers, 3 blocks, 4 or 6 descriptors |
| `file_calls` | are references and links exact, is no inode or block lost, does nobody wait in a circle, does each call fit into the log? | 2 processes; 3 inodes, 2 names, 2 files; 2 files on 4 blocks |
| `user_calls` | do pipe, console, UART, `malloc()` and the copies keep their promises? | five small machines |

The runs of four modules put several machines into one: a variable `on` has any of its values at the
start and never changes, only the chosen machine moves, and a machine that does not
move is in its initial state. So TLC sees the union of their behaviours and nothing else.
`buffer_cache` is `BufferCache` twice, with descriptors for one request and for two;
the three of `MCProcesses` are `Processes` twice, with `kill()` and no pauses, and the other way round;
`user_calls` is five modules; `file_calls` is `FileCalls` and `FileBlocks`.

What the properties say, by module:

- **PageTables.** `OneOwner`: each page is on the list once or held by one slot.
  `NoLeak`: a slot that holds a page belongs to something alive. `NoPanic`: no
  `panic()` of `vm.c` is reached and `userinit()` finds memory. `UserImage`: in user
  mode exactly the pages below `p->sz` are there, with the three fixed ones.
  `UgetpidIsGetpid`: the lab's `ugetpid()` agrees with `getpid()`. `AllOrNothing`:
  refinement of `ProcessImages`.
- **Processes.** `OneHart`, `NoLostWakeup`, `FamilyTree`, `KilledByPid`. Under fairness:
  `LocksReleased`; `WaitReturns`: a `wait()` with a zombie child returns, whoever is killed
  meanwhile; `KilledExits`: a process that `kill()` looks for wakes if it is asleep, and a
  killed one that is awake gets to `exit()`.
- **DiskLog.** `CrashAtomic`: refinement of `AtomicDisk`, in which the disk changes
  in one step, and only between calls. `Durable`: after the last `end_op()` the
  disk, the log and the pins are settled. `NoPanic`, and under fairness `Admitted`.
- **VirtioDisk, BufferCache.** `Serial`: refinement of `SyncDisk`, a request is one
  copy between call and return. `NoLostInterrupt`, `Descriptors`. `OneCopy`:
  refinement of `CachedDisk`. `CountsExact`, `NoLostWakeup`.
- **FileCalls.** `RefsExact`: `ip->ref` is the number of pointers, those in local
  variables of the calls in progress included, at every step, and `f->ref` that of the
  descriptors. `LinksExact`: on the disk, `nlink` is the number of entries, entries name
  inodes that are allocated, directories are a tree. `Reclaimed`: no inode is lost but
  those of section 6 and those that were open at a crash. `NoPanic`: of `fs.c`, `file.c`
  and `sysfile.c`. `NoWaitCycle`: no circle of waits for inode locks.
- **FileBlocks.** `FilesIntact`: a block in use is in one place of one inode; the inode in
  memory and the one on the disk agree when nobody holds it; below the size of a file there is
  no hole and no unit that was not written into this file. `FitsLog`: no call logs `MAXOPBLOCKS`
  blocks, which is what `DiskLog` assumes of its callers.
- **Pipes.** `OneQueue`: refinement of `PipeFifo`. `FreedAtLastClose`,
  `NoLostWakeup`, and under fairness `Unblocked`.
- **Console.** `EditedLines`: refinement of `LineInput`. `ReadersAwake`.
- **Uart.** `InOrder`: refinement of `PipeFifo` by the ring and the device's FIFO
  together, with the echo taken out. `NeverStalls`.
- **Umalloc.** `Exact`: between calls each unit is in one block, free blocks are on one
  ordered ring, no two side by side.
- **UserMemory.** `PgaccessExact`: reported are the pages used since the last report. That a loop
  over pages copies what a copy byte by byte would (`CopyExact`) is proved (section 4).

Every property of these runs is violated by a mutant: a small change of one mapped
definition, listed in `PROJECT.json`. `TypeOK` of a module says what its variables hold; that of
`PageTables` is proved, and no run checks them by themselves: the other invariants say more.

### Bounds, and why they are enough

- `memory_safety`: three slots and images of up to six bytes on pages of two bytes, so
  0 to 3 user pages, sizes in the middle of a page, and an `exec()` that loads a segment
  and then its guard and stack pages. With `RADIX = 4` and `MAXVPN = 64` a table has three
  levels as on the machine, user pages and fixed pages in different subtrees. A small
  process holds 8 pages. 17 pages are enough for three processes with empty images, for
  two that own pages, or for an `exec()` of the only process, but never for more, so
  memory runs out inside every call: in each allocation of `allocproc()`, in each fixed
  mapping, and in the middle of the copy of `fork()`, of `growproc()` and of `exec()`. An
  `exec()` beside another process always fails at this size, at every point there is.
  `sbrk(n)` takes every `n` from one more than an image can hold, downwards, to `MaxSz` upwards;
  the sum is modulo `UINT64 = 16`, twice `MaxSz` and more, so a shrink below 0 wraps to above
  every image, as on the machine. `MaxPid = 3` lets a slot be reused for a second child. `MCPick` takes the lowest page: no
  operation looks at a page's number, so other choices only rename pages, and
  `UpToRenaming` (the `VIEW`) identifies states that differ in that way. The slots other
  than `initproc`'s are symmetric. `OneOwner`, on which the view relies, is proved without
  either.
- `MaxSz` stands for the size at which memory runs out on the real machine; it keeps
  user pages below `USYSCALL` (`ConstantsAssumption`). `growproc()` does not test this
  itself: 128 MB of memory, less than the 256 GB below `MAXVA`, does.
- `log_crash`: two crashes reach the crash during the recovery from a crash; three
  calls by two processes reach a call that joins a group, one that waits for a
  commit, and one that waits for room. With a reservation of 2 in a log of 4, of which 3 hold
  data, calls need the wait for room, and a log without that wait overflows.
- `proc_family`: three slots are a parent, a child and a grandchild, or two siblings,
  so `reparent()`, a reused slot and a wait over two children all happen; two harts
  show each overlap of two paths. Pauses need no third process. There `KillPids` leaves out `initproc`, whose exit is a panic
  by design ("init exiting"), which the theorems include.
- `proc_live`: a parent and a child, whose slot is used once. In the machine with `kill()` either
  may kill the other or itself, `initproc` included, whose `exit()` is where it ends. In the
  machine with pauses, of this run and of `proc_family`, `TICKS = 2` and `MaxNap = 1` make the clock
  overflow during each pause. The two are apart because together they are too many states.
- `buffer_cache`: fewer buffers than blocks, so recycling happens; with 4
  descriptors fewer than processes need, so `alloc3_desc()` fails; with 6 room for two
  requests, so that they complete out of order. `UINT16 = NUM` overflows with
  the ring. `MaxPin = 1` with two buffers is the log at its limit. In the second machine at most
  two processes are in calls at a time, and nothing is pinned. The view `Current`
  ignores what former requests left in the rings; symmetry permutes processes,
  buffers, blocks and values, none of which the code compares by order, and this
  run checks no liveness.
- `file_calls`: three inodes are the root, a directory and a file in it, and the third is soon
  used up, so `ialloc()` finds none; names `a` and `b` give paths of one and two elements
  that cross: `/a` and `/a/b` up and down, `..` in the current directory, a link from a
  deeper to a higher place. Two descriptors and two files run out. `Calls` says who calls
  what; `fork`, `dup`, `close` and `exit` come at any time. `RemoveInUse = FALSE` keeps
  directories that somebody refers to from being removed, where the code panics (section 6); without
  this bound every other property of the run would stop at that panic. The
  view ignores what is left in entries with no reference, but for the type of a `struct file`,
  which a failed `open()` reads.
  `FileBlocks`: one direct block and two in the table, of two units each; a disk of four blocks is
  full with one large file or two small ones, and between the table and the block for
  data. Writes of five units are cut into three calls, the first two of the most that
  `MAXOPBLOCKS = 6` allows (one block, two if not aligned, which log five blocks); reads of three move
  the offset to where the next write crosses a boundary; a read of -1 is a large `uint`. The
  view names a block by its place.
- `user_calls`: the pipe has a ring of 2, writes of up to 2 bytes that fill, block
  and go on, and counters modulo 4, the smallest multiple of the ring above it, which overflow at
  once. The real 2^32 is a multiple of `PIPESIZE` too, which is all that matters to
  the differences. Console and UART have the same ring and counters. `malloc()` has 8 units,
  requests of up to 3 and pieces of 2, so blocks are split, merged on either side
  and left apart. The copies start at each address of an image of five pages of two units:
  code, guard, data, data, nothing.

### Fairness

- `Processes`: a pending timer interrupt is taken as soon as interrupts are on
  (strong fairness of `Yield`); `scheduler()` goes round the table, so a process
  that is `RUNNABLE` again and again gets its turn (strong fairness of `SwitchTo`);
  a spinlock that is released again and again is got by each hart that spins
  for it (strong fairness of `Step` and of the clock's steps). The atomic swap of
  `acquire()` does not promise that last one: it is an assumption about the machine.
- `DiskLog`: weak fairness of each process's own steps, `end_op()` included: a call
  writes finitely often and ends. Nothing forces a call to be made, or a crash.
- `Pipes`: strong fairness of the steps inside a system call, for the same reason as
  in `Processes`. Nothing forces a process to read, write or close.
- The other machines have no liveness property: `NeverStalls`, `ReadersAwake`,
  `NoLostWakeup` and `NoLostInterrupt` say instead that in no state is somebody left
  asleep with nothing on its way that will wake him.

`user_calls` and the three `file_...` runs do not check for deadlock. In the first every
process may be gone, or wait for another that has chosen to do nothing; in the others a process
stops when the bound `RemoveInUse` forbids its next step, and `NoWaitCycle` finds those
deadlocks that locks make. All other runs do check.

## 4. What is proved

Each proof module proves an inductive invariant (`PageInvariant`, `LogInvariant`,
`PipeInvariant`, `CacheInvariant`, `ProcInvariant`, `BlocksInvariant`, `UartInvariant`, `ConsoleInvariant`,
`MemoryInvariant`, `HeapInvariant`, and `FileAccounted` with `FileConsistent`:
`Spec => []IInv`) with one lemma per action, and the theorems from it. They hold for every value of the constants that the assumptions of section 5 allow:
any number of processes, harts, blocks, buffers, pages or descriptors, and any number of steps
and crashes. Each `IInv` was an invariant of a run before it was proved.

### `PageTablesProofs`

- `PageTypeOK == Spec => []TypeOK`: among others, no page is ever on the free list
  twice, and no loop leaves the user address range.
- `PagesOwnedOnce == Spec => []OneOwner`;
- `PageNoPanic`, `PageNoLeak`, `PageUserImage`, `PageUgetpidIsGetpid`: the other four invariants of the run;
- `PageAllOrNothing == Spec => AllOrNothing`: `PageTables` implements `ProcessImages`.

`OneOwner` alone is not inductive: a `kfree()` preserves it only if the slot holds a page, and
a `kalloc()` only if its slot is null, and that depends on where each process is. `IInv`
says so in seven parts:

- `TypeOK` and `Own`, the form of `OneOwner` without cardinalities;
- `Workers`: which process each system call works on, in which state that is, and that
  no two calls work on the same one (two `fork()`s in different slots, a `wait()` only
  on a zombie child of its own);
- `Cursors`: the range of each loop, which call can be where, and where it goes next;
- `Tables`: each process has one of its own two tables, and holds the one that
  its call works on;
- `Vars`, `Roots`: which pointers are null where the code assigns them without
  looking, and which tables have a root.

The lemmas rest on others about `Own` under `kalloc()`, `kfree()` and a move between slots
(`KallocOwn`, `KfreeOwn`, `MoveOwn`), on one about a step that changes only its own `op`
(`LocalKeeps`), and on one per kind of move of the program counter (`Move...`).

None of this says what a table maps. A failed `kalloc()` is undone from the local variables of
a call (how far it came, where it began), so an undo is right only if these describe the table.
`ImgInv`, inductive together with `IInv`, says that they do (`PageImages`):

- `Trees`: the table pages on the way to each mapped page exist, and each has the one above
  it; also in the half-built walk that a failed `mappages()` leaves;
- `Works`: at each point of a call, the table it works on maps exactly `UserPages(o)` and
  `FixedPages(o)`, and `Bounds` ties the ends of its loop to the size before and after it.
  `exec()` leaves the old table complete until it commits; `freeproc()` finds no table or
  a complete one, whichever step of `allocproc()` failed;
- `Rests`: a process that no call works on has its trapframe, its usyscall page with its pid in
  it, and the image that `p->sz` describes, also as a zombie;
- `Sizes`, `Pids`: a slot not in use has size 0 and pid 0; two processes have different pids;
- `Boot`: while `userinit()` runs nobody else does, and it holds only pages of `BootSlots`, so that
  by `MemoryAssumption` the `kalloc()`s whose failure it does not expect succeed;
- `NoPanic` itself, which the other parts give step by step.

`NoLeak` then follows since a page that is held is in a table with a root (`Trees`), and such
a table is in use (`Roots`). For the refinement, `Described` turns the image, which the mapping
reads from the page tables, into a function of `state` and `p->sz` alone. Only the last steps of `fork`,
`sbrk` and `userinit` (`SetSz`), `exec`'s commit, `exit` and the end of `wait` change these visibly.

### `DiskLogProofs`

- `LogTypeOK`, `LogNeverPanics == Spec => []NoPanic`, `LogDurable == Spec => []Durable`;
- `LogIsAtomic == Spec => CrashAtomic`: `DiskLog` implements `AtomicDisk`.

The invariant says, for each place where the machine can stop, where a block's content is:

- `Cached`, `Pinned`: a buffer without a pin can be thrown away, since its home has the
  same; the pinned ones are those the log names and `install_trans()` has not reached;
- `Copied`, `Headed`: how far the loops of `write_log()` and `install_trans()` are, and that the
  header names blocks exactly from `write_head()` until all are installed;
- `OneCommitter`, `Booting`: one process commits, and nobody runs beside it or beside recovery;
- `Reserved`: what the calls in progress may still log fits, with what is logged.

`Reserved` is where `begin_op()` is right or wrong. A call is admitted while
`lh.n + (outstanding + 1) * MAXOPBLOCKS <= LOGSIZE`. But a call that logs `OpBlocks` blocks may have
logged them all before another is admitted, so the bound that is inductive is `Quota`, the
most the log holds once every call that was ever admitted has logged its `OpBlocks`; and
`log_write()` tests for its panic before it looks whether the block is logged already, so
room must be left even for a block that needs none. That gives the assumption `LogRoom`,
which the real constants satisfy (30 blocks, `MAXOPBLOCKS` 10, at most 9 per call), and which
they would not if a call wrote all ten (section 6).

For the refinement, the value of a block that `AtomicDisk` would have after a crash is
`Recovered`: what the header names is taken from the log area, the rest from the home. Every step
but `write_head()` of a commit keeps it, and that one changes all blocks of the transaction at once.

### `PipesProofs`

- `PipeTypeOK`, `PipeFreedAtLastClose`, `PipeNoLostWakeup`;
- `PipeIsFifo == Spec => OneQueue`: `Pipes` implements `PipeFifo`.

The invariant has two halves. `Files` is about references: the count of each end is the number of
processes that have it (`Counted`), a process is inside `pipe.c` only with a reference to that
end (`Calling`), and the pipe is there as long as one is (`Referred`). The other half
is about the lock: who holds it (`Locked`), what the loops know (`Looping`), and what
those who sleep wait for (`Readers`, `Writers`). For the refinement the queue is
`data[nread % PIPESIZE] ...`: `SlotWraps` and `SlotsDiffer` show that it survives the wrap of the counters
modulo 2^32, since `PIPESIZE` divides it, and that a byte never overwrites one unread.

### `BufferCacheProofs`

- `CacheTypeOK`, `CacheCountsExact`, `CacheNeverPanics`, `CacheNoLostWakeup`;
- `DiskNoLostInterrupt`, `DiskDescsAccounted`;
- `DiskIsSerial == Spec => Serial`: the driver and a device that answers in any order
  implement `SyncDisk`;
- `CacheIsOneCopy`: if no `write()` fails half way, the cache implements `CachedDisk`; and
  then `CacheWritesBack`. With such failures both are false: `buffer_unlogged` finds
  the counterexample.

`IInv` is `DiskInv /\ CacheInv`. `DiskInv` follows a request through the memory that driver and
device share: its chain of three descriptors (`Chained`, `Filled`), apart from those of
the others (`Apart`) and with them and the free ones all there is (`Covered`); the rings,
which never hold a head twice (`Rings`, `Known`) and so, as a chain has two descriptors that
are not heads, never fill up (`RingRoom`); and the buffer and the status byte, which tell
where it is (`Stages`). The device and the handler share the used ring without a lock, and
`NoLostInterrupt` is a part of the invariant. `CacheInv` ties locks, counts and sleepers to the places of
the processes, and says that no two buffers have one block (`Unique`).

`DataInv` comes on top for `CacheIsOneCopy`: which buffers agree with the disk
(`Clean`, `Copied`), and that a buffer which does not is held or pinned (`Kept`), so that `bget()`
cannot recycle it.

### `ProcessesProofs`

- `ProcTypeOK`, `ProcOneHart`, `ProcNoLostWakeup`, `ProcFamilyTree`;
- `ProcKilledByPid == 0 \notin KillPids => (Spec => []KilledByPid)`: nobody calls `kill(0)`,
  with which the property is false (`proc_pid`).

All four come from who is on which stack and who is inside which lock:

- `Harts`, `Clocked`: a hart is on the stack of one process, which has its lock held unless it is
  `RUNNING`. So a scheduler that finds a lock free finds nobody on that stack, and neither
  does a `wait()` that frees a zombie. `OneHart` alone does not say where the lock is;
- `Places`: a process that holds `wait_lock`, `tickslock` or the lock of a new child is `RUNNING`,
  so whoever sleeps is at one of two places, on the channel of that place;
- `WaitMutex`, `NapMutex`: each of the two locks excludes, the clock interrupt included;
- `Scans`, `Exits`: what `wait()` and `exit()` have found out about children holds until they
  release `wait_lock`. `exit()` first passes all its children on, and only then wakes its
  parent, who has no way to fall asleep again before the zombie is there;
- `Woken`: the only moment at which a parent sleeps over a zombie is inside `reparent()`, between
  `pp->parent = initproc` and the turn of `initproc` in `wakeup()`;
- `Naps`: the same for a pause that is over, and the `wakeup(&ticks)` of the clock;
- `Family`: whoever has started has a living parent, also while `wait_lock` is held;
- `Kids`: a child that `fork()` has not made `RUNNABLE` yet belongs to that `fork()` alone, although
  its lock is released and taken again twice.

`KillInv`, for `KilledByPid`, adds that a free slot has no mark, which `kill(0)` would break.

### `UserCallsProofs`

Theorems about the four components that `MCUserCalls` puts beside the pipe, each as a theorem about
the component's own specification and then about the one of the runs, `SpecAll`, which implements
it (`UartRuns`, `ConsoleRuns`, `MemoryRuns`, `HeapRuns`):

- `UartTypeOK`; `OutputNeverStalls == SpecAll => []NeverStalls`; `OutputInOrder == SpecAll => InOrder`:
  `Uart` implements `PipeFifo`;
- `ConsoleTypeOK`; `LinesWakeReaders == SpecAll => []ReadersAwake`;
  `LinesAreEdited == SpecAll => EditedLines`: `Console` implements `LineInput`;
- `AccessReported == SpecAll => []PgaccessExact`; `CopiedExactly == SpecAll => []CopyExact`;
- `HeapStaysExact == SpecAll => []Exact`.

**Uart and Console.** Both rings have indices that overflow, so both proofs need what `PipesProofs`
needs: that a slot is the same when the index wraps, and that a byte which is stored does not hit
one that is waiting. `NeverStalls` is about a free lock and not inductive. Between the look at LSR
and the write to THR, `uartstart()` relies on the device having nothing of the ring, although
`uartputc_sync()` may have put an echo there: `Looked` says so, and that the device never has more
than one character of the ring. `Asleep` says that writers sleep over a full ring only, also while
another has the lock: it is `uartstart()` that makes room, and it wakes them all. For `Console`,
`Waiting` is `ReadersAwake` without its exception for the lock, and `OneLine` says that the line
that is being edited has no newline in it. So the search of ^U for one always ends at `cons.w`,
and its loop is the one `Erase(Len(line))` of `LineInput`. `TypeEffect`, `EraseEffect` and
`TakeEffect` say what moving one of the three indices does to both halves of the queue.

**UserMemory.** `PgaccessExact` is about a call that is done. While one scans, the accessed bits
are those of the pages touched, without those that its loop has passed (`Recent`, `Seen`),
and the mask has exactly these (`Bits`): `ScanInv`, and `ReportInv` until the mask is copied out. The
pages that a failed copy loses are named (`lost`). For `CopyExact`, `Passed` says that all bytes
before `va` are copied and could be, and for `copyinstr()` that none of them is a NUL. The
copy stops at a page that is not usable, where a copy byte by byte would have stopped too
since pages are mapped as a whole (`PageOf`, `UsableIs`).

**Umalloc.** `HeapInv` holds at each step of `malloc()` and `free()`: `Heap`, that the blocks of all
headers are apart and make up what `morecore()` got; `Ring`, that each header that is neither taken
nor on its way (`OnList`) has as `ptr` the one that `Follows` it in the order of addresses,
with a wrap at `base`; and `OpInv`, where the pointers of a walk are. The exit tests of the loop
of `free()` give `Gap`: no free block lies between `p` and the block. Putting the block there joins it
with the next one and the previous one; the proof takes these as two steps, with `Placed` between
them. `Exact` follows, since on a ring in order what follows a block is what `After` finds (`NextIs`).

### `FileCallsProofs`

- `FileRefsExact == Spec => []RefsExact`, without a hypothesis;
- under `RemoveInUse = FALSE` (section 3): `FileLinksExact`, `FileReclaimed`, `FileNoWaitCycle`; `FilePanics`,
  that only "iget: no inodes" can be panicked with; and `FileNoPanic`, that with an entry of the
  table for every inode nothing is.

Two invariants, one on the other. `Accounted` is types, the shape of a call's local variables at
each place, and `RefsExact`: the steps move pointers between a call, the files and the
directories, and `CardShift` counts them. It holds whatever the calls do.

`Consistent` says what makes the disk right while calls are in progress:

- `Disk`: the links of an inode are the entries that name it, where `links` is the count on the disk less
  what calls owe (`Pending`: `link()` counts first and enters later, `unlink()` erases first and
  counts later); and the directories that have links are a tree, with a rank that falls from parent to child (`Tree`,
  `Ranked`). `DiskEntry`, `DiskMkdir` and `DiskRmdir` are the three ways in which it
  changes;
- `Locks`: the lock of an inode is held by the call that is where it holds it. `Cached`: a valid entry of the
  table says what the disk says;
- `Knows`: what a call has found out stays true while it holds no lock. A pointer keeps its inode
  allocated, and a directory on the way keeps its links, since nobody removes one that others refer to. That is
  where `RemoveInUse = FALSE` is needed, and nowhere else: in `UnlinkEntryKeeps`. `file_removed` is the
  counterexample without it;
- `Truncates`, `Sole`: `iput()` frees with `itable.lock` released because a single reference without links cannot
  get company; `Fresh`: nobody else knows the inode that `ialloc()` found; `UnreadAt`: an inode
  without links in use was read, or is being created, so that its last `iput()` sees it.

`LinksExact` is `Disk` when nothing is pending (`Settled`). No assertion fails because each is about
a pointer of the call (`NoFault`), and `iput()` finds the lock free because
who holds it has a second reference (`LastUnlocked`). Who holds an inode and waits for another is at one of two places
(`HolderWaits`): `create()` waits for a new inode that nobody knows, `unlink()` for an entry of
the directory it holds, so in a circle of waiting calls one would hold a directory of the least rank
and wait for a lower one.

### `FileBlocksProofs`

- `FilesStayIntact == SpecBoth => []FilesIntact`, `CallsFitLog == SpecBoth => []FitsLog`.

`FilesIntact` speaks of inodes that no call has locked; the invariant `BlocksInv` of those that one is
working on as well:

- `Owners`: every block in the bitmap is the number in exactly one *held* place of one inode, and the number
  in a held place is in the bitmap. A place is direct, the table, or in the table; it is held when
  its number is not 0, unless `itrunc()` has gone past it (`CutOff`): the blocks that a table
  names are free while the table still names them;
- `Filled`: below the size, and in `writei()` up to where it has come, each unit has its block and was
  written. So whatever fails half way leaves the file complete up to the size it then sets;
- `OpShape`, `LockOf`, `HolderOf`: the local variables and the locks; `Updated`, a part of `FilesIntact`,
  is inductive with these;
- `LogOf`: what `writei()` has logged, before the inode, are the bitmap and blocks at the places that its range
  touches (`Touched`). The range is at most a chunk of `filewrite()`, so `FitsLog` comes from counting the places
  of a range that need not begin at the start of a block.

`bmap()` allocates the table and the block with one step each; `FillNums` says what either does to the
numbers of all places, and everything else about it is derived from that.

### Model-checked only

Liveness (`WaitReturns`, `KilledExits`, `LocksReleased`, `Unblocked`, `Admitted`), since fairness and `ENABLED` are
outside the prover's reach, and what recursive definitions compute. `OneCopy` and `Descriptors` in `MCBufferCache` are
`CacheIsOneCopy` and `DiskDescsAccounted` for the instances of the run.

## 5. Assumptions

On the constants, in the modules that declare them (TLC evaluates them in the runs):

- `PageTables`: `ConstantsAssumption` (a `uint64` holds twice what an image can, among others),
  `PickAssumption`, and `MemoryAssumption`: finitely many pages,
  and at least the handful that `userinit()` needs (the real machine has some 32000).
- `Processes`: `ProcessConstants`: finitely many harts, and no pause as long as 2^32 ticks.
- `DiskLog`: `LogConstants`, and `LogRoom`: the log has room for what `begin_op()` admits.
- `Pipes`: `PipeConstants`: the width of the counters is a multiple of `PIPESIZE`, as 2^32 is of 512.
- `FileCalls`: `FileConstants`: finitely many processes, inodes, names, descriptors and files.
- `VirtioDisk`: `DiskConstants`: at least three descriptors, and 2^16 is a multiple of their number;
  `BufferCache`: `CacheConstants`: finitely many processes and buffers.
- `Console`, `Uart`: `ConsoleConstants`, `UartConstants`: the indices wrap at a multiple of the size of
  the ring, as 2^32 and 2^64 are of 128 and 32. `Umalloc`, `UserMemory`: `UmallocConstants`,
  `UserMemoryConstants`: sizes are not 0. `MCUserCalls` assumes these four of its instances.
- `FileBlocks`: `FileBlocksConstants`, assumed by `MCFileCalls`: finitely many processes; no file is as long as
  unsigned integers reach, as 268 KB is less than 2^32 (`writei()` looks for an overflow of
  `off + n`); and `MAXOPBLOCKS` is at least 6, or `filewrite()` would write chunks of no
  block at all.

On the machine and the callers:

- The disk writes a block completely or not at all, in the order of `bwrite()`; the
  device does not fail (the driver panics if it does).
- The harts see memory in the order that the locks and fences ask for.
- `DiskLog`: each changed block is logged. The one exception in the code, a
  `writei()` whose `copyin()` fails half way, is in `BufferCache` (`WriteFails`), and
  `OneCopy` speaks of the machine without it.
- `log_crash` assumes `OpBlocks < MAXOPBLOCKS` (section 6), which `FitsLog` shows for reads, writes
  and truncation; calls on directories log a handful of blocks, which is not checked; `Admitted` speaks of
  finitely many calls: with calls that never stop coming, a waiting one need not get in.
- `BufferCache`: processes and the log together need at most as many buffers as there
  are (`Needed`). The real processes hold up to a few at once; `NBUF` is sized
  for that by `param.h`.
- `FileCalls`: the log is `AtomicDisk`; `NINODE` is at least the number of inodes in use.
  (`NINODE` is 50 and `NFILE` 100, so a hundred different files open at once would reach
  the panic "iget: no inodes".)
- A `kill()` that comes between the test of `killed(p)` and the `sleep()` is noticed at the
  next wakeup only; the models have that step, and `KilledExits` excepts it (`AboutToSleep`).
- A sleep lock may be starved: `releasesleep()` wakes everybody, and the first one wins.

## 6. Where the code does not do what the repository says

Runs that TLC ends with a counterexample:

- **`proc_pid`.** `kill(0)` finds the first unused slot, whose pid is 0, marks it killed and
  returns 0 (`proc.c:616`). `allocproc()` does not clear the mark: the next child in
  that slot dies at its first trap.
- **`buffer_unlogged`.** `writei()` changes the cached block before it knows that all data is
  there; if `copyin()` fails half way it releases the buffer without `log_write()`
  (`fs.c:522`). Readers see bytes of a call that failed, until the buffer is recycled.
- **`file_leak`.** `iput()` frees an inode with `itable.lock` released and then drops its
  reference without another look (`fs.c:348-360`). If `ialloc()` takes the inode in
  between, and its call then fails, neither process sees the last reference: the inode stays
  allocated without a link. `missed` counts these in `file_calls`.
- **`file_removed`.** `unlink()` removes an empty directory in which somebody is. When its
  parent is removed too, `..` leads to a free inode: "ilock: no type" (`fs.c:314`).
- **`pgaccess_mask`.** `sys_pgaccess()` copies eight bytes (`sysproc.c:111`), and `pgtbltest.c:55`
  passes the address of four.

Noted while modelling; the models contain the behaviour or name the bound that
excludes it, and no run is spent on it:

- `begin_op()` reserves `MAXOPBLOCKS` of `LOGSIZE` blocks per call (`log.c:133`),
  but `mkfs` counts the header among them (`mkfs/mkfs.c:25`), and `log_write()` panics one
  block earlier (`log.c:220`). Three calls that each write `MAXOPBLOCKS` different blocks
  would panic. `FitsLog` shows that `write()` logs fewer, and `log_crash` that this is safe.
- A writer that is killed after it has stored some bytes returns at
  `pipe.c:86` without `wakeup(&pi->nread)`; a reader sleeps on over a pipe with bytes in it.
  `NoLostWakeup` of `Pipes` allows a reader to sleep over bytes only then: `left` remembers that
  a killed writer has left some and that nobody has woken the readers since. No action reads it.
- `pgaccess()` clears the accessed bits before it knows that it can copy the mask out: a call
  that fails takes the report with it (`lost` in `UserMemory`). `fork()` copies the
  bits with the entries, so a child starts with its parent's. More than 32 pages are
  silently cut to 32. A range that reaches `MAXVA` runs into the panic of `walk()`
  (`vm.c:88`), which ends a behaviour of `UserMemory`.
- `morecore()` passes a number of bytes as an `int`: a request of 2 GB or more is
  negative. `LIMIT` keeps `Umalloc` below that.
- `create()` in a current directory that has been removed makes a file no path leads to.
  `RemoveInUse` excludes it.

## 7. Not modelled

- `filestat`, the flags of open files, devices, `mknod`, the path `/` alone, how `exec()` reads its
  file, and `skipelem()`'s parsing. A directory is a function from names to inodes: its blocks
  are those of any file (`FileBlocks`). In `FileCalls`, freeing the contents of an inode is one
  step.
- The kernel's own table (`kvmmake`), built once;
  the negotiation of features with the disk and its errors; `printf()`, string functions, boot,
  assembly, the ramdisk (not built), the shell and other user programs but `malloc()`.
- `src/xv6-labs-2024` and `src/Submission`: three copies of one kernel and its tests are most
  of the lines of the repository. The map counts the lines of one copy; to map the same
  definitions to the other two would claim lines nobody has compared with them.
- Starvation of a sleep lock or of a writer of the log by newcomers: the code allows it.

## 8. Plan

Done: all modules of section 2, with an abstract specification for memory, log, disk, cache,
pipe, transmit ring and console.

If the models grow: directories as files of `FileBlocks`, to count what `create()` and `unlink()`
log; `Pipes` over the `ftable` of `FileCalls`.

Proved: every safety property and refinement that a passing run checks. What is left to TLC is
in section 4.
