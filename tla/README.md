# A TLA+ model of Sistemas-Operativos23

The repository holds the labs of an operating-systems course: a shell (LAB1), xv6 with
counting semaphores added (LAB2), xv6 with an instrumented scheduler (LAB3) and a FAT
file system over FUSE (LAB4).  The two xv6 trees are nearly the same kernel; where a line
exists in both, the model quotes the one in which the component was changed: LAB2 for the
semaphores, LAB3 for the scheduler and the process table.  The rest of the kernel is quoted
from LAB2.

This file has five parts: the inventory of the system, the modules and how they follow the
code, what is checked, what is proved, and what is not modelled and planned.

## 1. Inventory

| Component | State | Operations | Interacts with | What is hard | What makes it correct | Modelled |
|---|---|---|---|---|---|---|
| scheduler, spinlocks, sleep/wakeup (`kernel/proc.c`, `spinlock.c`, `trap.c`) | `proc[]` (`state`, `chan`, `killed`, `lock`), `cpu.proc`, `lk->cpu` | `acquire`, `release`, `scheduler`, `yield`, `sched`, `sleep`, `wakeup`, `kill` | every blocking call is built on it | a process is handed between two stacks with its lock held; `sleep` gives up the condition's lock before the process is `SLEEPING`; timer interrupts | no CPU runs on another's stack; `sched` is entered with exactly one lock; no wakeup is lost | partly: `Kernel` |
| semaphores (LAB2 `kernel/sysproc.c`) | `semaphores[]` (`value`, `lock`, `open`) | `sem_open`, `sem_close`, `sem_up`, `sem_down` | sleep/wakeup; user programs | wakes only on zero, wakes before it increments, spurious wakeups by `kill`; `sem_open` re-initialises a lock | mutual exclusion; calls are atomic; nobody sleeps on a positive value | `Semaphores` |
| pingpong (LAB2 `user/pingpong.c`) | its two semaphores, two loop counters, the output | `main`, `ping`, `pong` | semaphores, `fork`, `wait` | semaphores others have taken; a failing `fork`; one `wait` for two children | the words alternate, main ends and leaves at most one word behind | `PingPong` |
| process life cycle (`kernel/proc.c`) | `parent`, `pid`, `wait_lock`, slots | `fork`, `exit`, `wait`, `reparent`, `kill` | scheduler, init | `exit` against `wait` against `reparent`; slot reuse; `fork` publishes a child in three steps | no exit notice is lost, no live process without a live parent, a zombie is freed once and only off its stack | partly: `Proc` (locks), `Syscalls` (what a process holds) |
| write-ahead log (`kernel/log.c`) | in-memory and on-disk header, log blocks | `begin_op`, `log_write`, `end_op`, recovery | buffer cache, disk | crashes, group commit, reservation of space | an operation survives as a whole or not at all; nobody waits without a reason | `Log` |
| buffer cache (`kernel/bio.c`, `sleeplock.c`) | LRU list, `refcnt`, `valid` | `bread`, `bwrite`, `brelse`, `bpin` | log, disk | recycling against pins and against waiters for the buffer | one buffer per block, no referenced buffer recycled | `Bcache` |
| virtio disk (`kernel/virtio_disk.c`) | descriptor table, rings | `virtio_disk_rw`, interrupt | buffer cache | completion order, running out of descriptors | each request answered once, no descriptor leaked | `Disk` |
| pipes (`kernel/pipe.c`) | ring, counters, open flags | read, write, close | sleep/wakeup, file table | full/empty, close of an end while the other sleeps | nobody sleeps on a pipe that could serve them | `Pipe`, `Syscalls` |
| inodes, directories and path names (`kernel/fs.c`, `file.c`, `sysfile.c`) | inodes on disk, inode table, file table, descriptors | `open`, `link`, `unlink`, `mkdir`, `mknod`, `chdir`, `read`, `write`, `close`, `dup`, `fstat` | log, cache, pipes | last reference dropped while another appears; directories removed while somebody is in them; failures half way | references and links are counted; an inode in use is allocated | partly: `Inode`, `Syscalls` |
| virtual memory and pages (`vm.c`, `kalloc.c`, `exec.c`) | page tables, free list | grow, copy, free, `exec`, copies between kernel and user | fork, exec, wait, pipes | memory runs out half way | no page is lost or freed twice | partly: `Memory`, `Syscalls` |
| timer sleep (`sys_sleep`, `clockintr`) | `ticks` | `sleep(n)` | sleep/wakeup | killed sleepers | a sleeper wakes | no |
| console and UART | transmit ring, input line | read, write, interrupt | sleep/wakeup | full ring | nothing lost | no |
| interrupts and boot | device registers | traps | all | | | no |
| FAT over FUSE (LAB4) | FAT table, directory entries, tree in memory, hidden log | FUSE operations, `fs.log` | FUSE library | the tree is read lazily; the driver hides its log by renaming it; failures half way | cluster chains are separate and complete; a file keeps its data | partly: `Fat` |
| mybash (LAB1) | command pipeline, children | parsing, `execute_pipeline`, builtins | kernel | pipe ends, background children, builtins in a pipeline | pipe ends are closed, children are waited for, the prompt returns | partly: `Shell` |
| xv6 user programs and shell (`user/`) | a program's next calls | `usertests`, `grind`, `sh`, `init`, small commands | every system call | concurrent tests of the calls | the tests pass and end | partly: `Usertests`, `Sh` |
| LAB0 awk exercises; LAB3 measurements | none to speak of | sequential | | | | no; `iobench`'s calls: `Sh` |

`PROJECT.json` lists the same components with their status, and the hazards (the steps hard
to reach by a test) each at its line with the property that covers it or the reason that
none does.

## 2. The modules and the code

Six groups, each composed by `EXTENDS` or a refinement:

    Kernel <- Semaphores (implements AbstractSem) <- Semaphores_proofs
    Kernel <- Proc <- Proc_proofs
    AbstractSem <- PingPong <- PingPong_proofs
    Disk <- Bcache <- Log (implements AtomicDisk) <- MCLog
    Bcache <- Bcache_proofs            Log, Bcache_proofs <- Log_proofs <- Recovery_proofs
    Inode, Pipe, Memory <- Syscalls <- Usertests <- Sh <- MCUsertests
    Fat (implements AbstractFiles) <- MCFat, Fat_proofs
    Shell <- MCShell                    Shell <- Shell_proofs

### Kernel

The mechanism all blocking code uses; it has no `Next`, and `Semaphores` and `Proc` extend it.
A spinlock is a variable that holds the CPU owning it (`lk->cpu`): `plock[p]` for `p->lock`,
`spin[l]` for the others.  `curr[c]` is `c->proc`, and `insched[p]` says that `p` is inside
`sched()` or has been forked and not run (its stack belongs to nobody, or to the scheduler of
the CPU that is about to leave it).

`Schedule` is the body of `scheduler()`'s loop up to `swtch`, `Resume` the return of `swtch`
into `sleep`, `yield` or `forkret` and the release of `p->lock`, `Yield` the timer interrupt,
`SchedOut` the return of `swtch` into the scheduler.  `sleep()` is three steps (`SleepLock`,
`Release`, `SleepSwitch`), so that another CPU can act between the release of the condition's lock
and the change of state; `wakeup()` is one `WakeupVisit` per slot.

Abstractions:
- Lock, test and unlock of *another* process's slot, with nothing in between that a third party
  could see other than the slot's lock being busy, is one step that needs the lock free
  (`WakeupVisit`, `KillVisit`, the failing visits of `scheduler`).
- `scheduler()` and `kill()` choose any eligible slot: visits that find nothing to do change
  nothing.  The scan order matters for nothing stated here.
- A process that spins in `acquire()` has interrupts off; `Preempt` is disabled then (`Spinning`).
  An interrupt that is taken just before the spin starts is a `Preempt` of the previous state.
- `timeschosen` and `lastexec`, the LAB3 counters, are left out.

### AbstractSem, Semaphores

`AbstractSem` says what the four calls promise: `Start`, then one indivisible effect with the
return; `WF` of the effect, which for `sem_down` on zero is not enabled.

`Semaphores` is the code: `sys_sem_open` (`OpenInitlock`, `Acquire`, `OpenBody`),
`sys_sem_close` (`Acquire`, `CloseBody`), `sys_sem_up` (`Acquire`, `UpBody`, `UpWakeup` per slot,
`UpInc`), `sys_sem_down` (`Acquire`, then `DownTake`, or `DownWait` and the steps of `sleep()`, after
which it goes back to `Acquire` and tests again: `while`, not `if`).  The release of the lock is merged with
the last assignments before it, which only the lock's holder can see.  `release()` and the release
in `sleep()` check `holding()`: the label `panic` is a CPU that has panicked.

`call[p]` and `ret[p]` are the same variables in both modules, so the refinement mapping is the
identity: a call takes effect in the step that releases the lock for the last time.

The programs are arbitrary: any process makes any call with any arguments, up to `MaxCalls`.
With `ExclusiveOpen = TRUE` they keep to one rule: nobody calls `sem_open` on
a semaphore while another process is inside a call on it.  Nothing in the kernel enforces it.  pingpong calls `sem_open` on
every semaphore until one call succeeds (`pingpong.c:80,83`), so it keeps the rule only when no other program is inside a call on
one that it tries.  With `FALSE` the programs are free, and run
`sem_reinit` shows what happens: `sem_open` runs `initlock` before it looks whether the semaphore is open.  Semaphore indices are valid ones and initial values natural
numbers (`SemAssumption`); both limits are listed as hazards.  `Kill(p)` is any process calling `kill`;
each process is killed at most once, since killing again only repeats the spurious wakeup.
`Exit` keeps only what touches the scheduler; the whole of `exit()` is in `Proc`.

### Proc

The process table: `fork` in six actions (claim a slot under its lock, fill it or give it back
when memory runs out, set the parent under `wait_lock`, make it runnable), `exit` with the loops of
`reparent()` and the two `wakeup()`s, `wait` with its scan, reaping, the failed `copyout`, giving up
and sleeping.  A step is what happens between two operations on locks; the loops over the table are
one step per slot, since other CPUs change slots in between.  Slot 1 is init, which never exits
and is never killed, as `user/init.c` and `exit()`'s panic say.  `initproc`'s `wait` passes a null address,
so its `copyout` cannot fail.  `Kill` may also hit a free slot: `kill(0)` matches the pid of a
free slot, and the flag it leaves there is inherited by the next process in the slot.

`MaxPid` bounds `nextpid` and so the number of forks; slots are reused when it exceeds
`NPROC`.

### PingPong

The user program on `AbstractSem` (so on what `Semaphores` is shown to implement for programs that keep the rule above): the two
opening loops, which pass over semaphores in `taken`, the two forks, the children's loops, the single `wait`, and
the closing calls.  Other programs (`OthersUse`) change the semaphores in `taken` at any time, and once `main` has found its two they may
open any that is closed and that nobody is inside a call on: also one that `main` has closed before its last child
is done with it, whose late `sem_up` or `sem_down` then hits a stranger's semaphore.  While `main` searches they open no more, so that two
are free, and they close none.  Argument checking is left out (`rally` is positive).  A child that
sees a call fail exits.

### Disk, Bcache, Log, AtomicDisk

`Disk` is `virtio_disk_rw` (allocate three descriptors one after the other, or give them back and
sleep; submit; sleep until the buffer is the driver's again), the device, which performs any command it was
told of in any order, and the interrupt handler, which under `vdisk_lock` takes all the entries of the used ring in one
step.  The device reports no error, on which the handler would panic.
`Bcache` is `bget` (found; recycled, the least recently used buffer without references; panic),
`acquiresleep`, `bread`, `bwrite`, `brelse` with its move to the front of the list, `bpin` and
`bunpin`.  `Log` composes both with `log.c`: `begin_op` with its two reasons to wait, blocks that are read,
modified, logged (absorbed if they are in the transaction, pinned otherwise) and released, `end_op`, which
commits or wakes, and `commit` block by block: log copy, header, installation, header.  `Crash` may happen
between any two steps, recovery included; it keeps the disk and nothing else, and `Boot` runs
`initlog()`.  Processes also read blocks outside operations.

`AtomicDisk` has the data as the running system sees them and the data a crash would bring back; a
write changes the first, `Commit` copies it when no operation is active, `Crash` copies the second
back.  The refinement mapping computes both from the cache, the disk and the log's header.  It also says what
the log does not promise: an `end_op` that is not the last returns before its writes are durable.

Abstractions: what a process does under `log.lock`, `bcache.lock` or `vdisk_lock` without sleeping is one
step; sleeping and waking on these is atomic, since `Kernel` and `Semaphores` show that the locks make it
so; the release of a buffer's sleep lock and `refcnt--` are one step; the device transfers a block whole.

Two facts of the shipped constants:

- `mkfs.c:25` makes the log area `nlog = LOGSIZE = 30` blocks, the header among them, so that it holds 29, while
  `begin_op` reserves up to `LOGSIZE`, and `log_write` panics at the size of the area (`log.c:220`), even when the block it
  is given is in the log already.  What keeps it from panicking is that operations add less than they reserve.
  `OpWrites` is how many *distinct* blocks an operation adds (logging one again is free, and the model lets an operation
  do it any number of times), and `LogAssumption` says how far it must be below: `OpWrites < MAXOPBLOCKS`, `OpWrites < nlog - 1` and
  `LOGSIZE - 2 * (MAXOPBLOCKS - OpWrites) < nlog - 1`, since an operation that joins others finds room for
  `MAXOPBLOCKS` of at least two.  With xv6's numbers this means that no operation may add more than 9 of its 10 blocks, which is
  a condition on the system calls that no line of the code states.
- `NBUF` is 30 too, and there may be 64 processes and 29 pinned blocks: nothing in the code excludes the panic "bget: no buffers".
  The run `log` reaches it, and no other panic of these files (`OnlyBgetPanics`, theorem `OtherPanicsUnreachable`).
  After a panic the process that met it stops, and other CPUs go on.

### Inode, Pipe, Memory, Syscalls

The first three are data structures with the operations of the code as operators: `Inode` the inodes on disk and
the inode table (`iget`, `idup`, `ilock`, `iunlock`, `ialloc`, `itrunc`, `dirlookup`, `dirlink`,
`isdirempty`, space for blocks), `Pipe` the ring with counters that wrap (`UintLimit`), `Memory` address spaces as
numbers of pages and of page-table pages.

`Syscalls` has one action per call and per point of a call where it may wait or where others see what
it has done so far: the walk of a path takes one step per element with the directory locked; `iput` is three
steps when it frees; `create`, `link`, `unlink` and `open` go through their failure paths; `fileclose`
drops the last reference of a pipe's end or of an inode in steps of their own; a pipe's reader and writer
sleep and are woken; `fork` copies descriptors, directory and memory, and `exit` gives them up one by one before
the process is a zombie; `ilock` of a free inode panics (label `panic`), with which that process stops, its locks
held, and the others go on; `exec` loads a file that is a program, and the process goes on with that
program's calls.  `call[p]` has the registers of the call: the references to inodes and files it holds are
there, so that they can be counted.

Memory is counted, not addressed.  Pages are taken from a number of free pages (which page it is matters
to nothing here), and whichever allocation of a call fails, the call has taken all the pages there are, in one step, and
gives them back in another, so that other calls fail meanwhile.  Copies to and from user memory test
the address as `copyin`, `copyout` and `copyinstr` do, and have the same partial effects when they fail:
`piperead` loses the byte it could not deliver; `writei` keeps the block it has allocated (`spare`).
`copyout` does not test `PTE_W`, and so writes to a program's text.  `sbrk` with a negative argument beyond
zero changes nothing and succeeds, as `growproc` and `uvmdealloc` do.

Abstractions: transactions are in `Log`, and here a call always has one; data are blocks or bytes taken as units;
a directory is one block, with room for any name (so that `dirlink` fails only when the name is there), and is not read through a descriptor; files have no indirect block; names are never longer than
`DIRSIZ`; who waits for a sleep lock gets it in any order; the only device is the console, which
answers a write at once and a read with end of file; the contents of memory, alignment and the ELF header's
details are left out, and a program's file is a block that names it and a block per page.  `open` that finds no file or no
descriptor is one failure.

### Usertests, Sh, MCUsertests

Programs are sequences of calls, each with the results the test accepts.  `Usertests` has those of
`user/usertests.c` that are about files, pipes, processes, memory and bad arguments, with loops unrolled a
few times, and the steps of `user/grind.c`, which `iter` runs in two processes at once, in every pair of five file steps, or in one, and checks as `grind.c`
does that a file can still be made (step 19 with one `fork` of two; steps 3 and 9, which remove a directory and create a
file in it, are the program `CreateInRemoved`).  `Sh` is `user/sh.c`: the recursive-descent parser over tokens, `runcmd()` as the
calls it makes, and `init`, `cat`, `rm`, `mkdir`, `ln`, `zombie`, `stressfs` and the file loop of LAB3's `iobench`.
`MCUsertests` chooses the programs, adds lines for the shell and a few programs for limits that no test
reaches (descriptors, files, slots of the table, pages; killed sleepers and writers; a file removed while another is made; a directory
removed below a process in it), and states as `ASSUME`s, over all
sequences of up to five tokens, that printing a parsed command and parsing it again gives the same
command.

The model keeps what the code does where a user may expect otherwise: the last of several redirections is
opened first; `>>` writes from the start of the file; `cat < none > y` still creates `y`; after `cd`
the commands of the root are not found; a failed `exec` ends with status 0.  What the shell writes to the console,
`argv[0]` and the termination of words in place are left out.  `usertests` is run without descriptors 0 to 2
open.

### Fat, AbstractFiles

The driver is one thread, and FUSE calls it once at a time: an operation is one step, a function from volumes to
volumes built from the functions of `fat_table.c`, `fat_file.c`, `fat_fs_tree.c` and `big_brother.c` in the
order the code calls them.  The volume has the table, the directory slots, the data of clusters, and the
tree in memory.  Every first `readdir` of a directory creates `/fs.log` again and hides it by overwriting its
name (`Hidden`, and `Ruined` after the second time); every read and write adds a record to it.  `Insert` is
`fat_tree_insert()`, which ignores a file whose path the tree has: the second `/fs.log` takes a cluster and gets an
entry, but the tree keeps the first.
`status` is `crashed` where the driver reads outside its memory: a read or write of a file before any
directory was read, and the search of a full table, which the driver's test for numbers without a data cluster does not stop
(`num_data_clusters` comes from a 16-bit field that is 0 on FAT32, `fat_volume.c:129,234`).  The clusters of the model
are the numbers of the table, its slack included, as they are for the driver.  `status` is `undefined` where it uses memory it does not
have: when a list of children is longer than the directory's count of entries for which it made room (`Listed`); after `unlink`, which destroys the
file and leaves the tree's node; and after an `rmdir` that leaves files pointing to the freed node of their directory
(`h_parent`) or that frees a node's file twice, which depends on the shape of the search tree (`delete_root()`) and is
a choice here.  The model stops there.

A volume that is mounted is one of `Images`, which are `WellFormed`: each entry is in the cluster of the
directory its file is in, each file has one entry and a chain of its own that ends and holds its size, a
directory has one cluster, no entry follows the end mark.  That is what `mkfs.vfat` and other drivers write, and what a driver
can rely on; what this driver itself leaves after an unmount may be less (see the finding below), and is not mounted again.
A new directory's cluster is not cleared, and a directory is read up to the first zero name, so that what a file left in the
cluster is read as entries.  `ReadAs` says of each value that programs write what the directory slots in a unit of it are read as:
nothing (`Junk`), the end of the directory, or an entry (`Leftovers`), with any first cluster.  The run has a value of each kind.  The path
such an entry gets is `Stray`, and from then on the driver has it as a file like the others, whose clusters may be
anybody's.  The model goes on with that.  A history variable, `clean`, says that it has not happened: no directory of the tree was ever on
a cluster whose slots hold such an entry.  `ChainsDisjoint` and `KeepsData` promise what they promise as long as `clean`
is true, and so say that this is the only way that files come to share clusters.

`AbstractFiles` says what programs may expect, in terms of the last operation and its answer (`io`): a write that answers `n`
has put the first `n` units where it was asked to and has changed nothing else; a read answers the file's data from that
offset, as much as there are; a truncation cuts or does nothing; no other operation changes a file, and the log only
grows.  A write may answer less than it was given only when it has come to the end of the file's clusters.
It does not say that a write is done in full, and the code does not do that (part 3).

What the code does and the model keeps: `fat_fuse_write` does not clear `errno`, so that a write after a failed call
is dropped silently; a file that finds its directory full stays in the tree with no entry and a cluster;
`rmdir` marks the directory as read without reading it; a truncation within the last cluster changes
nothing, and `pwrite` never extends a chain.  Not in the model: the boot sector, dates and `num_times_opened`,
directories of several clusters, the path of a leftover entry (one per directory), input/output errors, the shape of the search tree, programs that write to
the log, and the deletion of a log entry that another driver has restored.

### Shell

`ReadLine` parses a line (the parser object yields its tokens), `ExecuteCommand` and `MakePipes` are
the two cases of `execute_pipeline`, `Fork` and `Connect` the fork loop with its `dup2`s, `Close` the parent's
closing of pipe ends, `WaitChild` one `wait(NULL)`.  Processes have descriptors, so that the ends of each pipe
can be counted; each process also counts the commands it has left in the background (`behind`); the programs that commands run read and write items, end when their input has ended or
nobody can read their output.

What the code does and the model keeps: `wait(NULL)` reaps any child, background ones of earlier lines
included; a builtin in a pipeline's child returns into the loop of the child, which forks the rest of the
pipeline again and ends as a second shell that reads the same terminal; `cd` pops its name, so that
in a pipeline its argument is then run as a command; a line that is not a pipeline makes the assertion in
`execute_pipeline` end the shell; a failed `fork` ends the shell.  The directory that `cd` changes to is left out.

## 3. What is checked

| Run | Module | Bounds | Shows |
|---|---|---|---|
| `sem` | Semaphores | 2 processes, 2 CPUs, 1 semaphore, 2 calls each, both killable | `SemTypeOK`, `SemMutex`, `NoSleeperLeftBehind`, `SchedChecks`, and `Linearizable`: `Semaphores` implements `AbstractSem`, liveness included |
| `sem_reinit` | Semaphores | 2 processes, `ExclusiveOpen = FALSE` | violation of `SemMutex` (finding) |
| `proc` | Proc | 4 slots, 2 CPUs, pids up to 4, slot 2 killable | `ProcTypeOK`, `NoLostExit`, `NoOrphan`, `ForkOwnsSlot`, `SchedChecks`, `OneCpuPerStack`, `ReapedByParent`, and no deadlock |
| `proc_live` | Proc | 3 slots, pids up to 3, no kills | `ZombiesReaped`: init frees every zombie that is its child |
| `pingpong` | PingPong | rally 3, 3 semaphores, any of them taken but two, and after the search any that is closed; `fork` may fail | `Alternation`, `OnlyLastWordLate`, `MainExits` |
| `log` | MCLog | 3 processes, 3 buffers, 4 descriptors, 3 home blocks, a log area of 4 blocks (3 and the header), `LOGSIZE` 4, `MAXOPBLOCKS` 2, `OpWrites` 1, 3 operations or reads, 2 crashes | `LogTypeOK`, `SleepersMustWait`, `IdleIsDurable`, `CacheCoherent`, `OneBufferPerBlock`, `DescriptorsAccounted`, `OnlyBgetPanics`, `CrashAtomic` (`Log` implements `AtomicDisk`) |
| `fat` | MCFat | 7 clusters of 2 units or 4 entries, 7 paths (3 may be directories), 4 volumes, 2 values, 5 operations | `FatTypeOK`, `ChainsDisjoint`, `KeepsData` (`Fat` implements `AbstractFiles`) |
| `fat_image` | MCFat | one volume, few operations | violation of `ImageMatchesTree` (finding) |
| `shell` | MCShell | 7 processes, 13 lines alone and in pairs, five more inputs | `ShellTypeOK`, `EndsClosed`, `ChildrenReaped`, `PromptReturns` |
| `files` | MCUsertests | 5 processes, 12 inodes, 7 entries of the inode table, 18 blocks, 7 files, 6 descriptors, 6 pipes of 2 bytes, 60 pages; 146 programs | `FilesTypeOK`, `RefsCounted`, `PagesCounted`, `TestsPass`, `OnlyRemovedDirLosesLinks`, `OnlyIputLeaks`, `OnlyDotDotFindsFree`, `OnlyKilledWriterForgets`, `TestsEnd` |
| `files_create` | MCUsertests | as `files`; one program | violation of `LinksCounted` (finding) |
| `files_dotdot` | MCUsertests | as `files`; one program | violation of `InodesAllocated` (finding) |

Why the bounds are enough to be interesting.  In `sem`, two CPUs let each process act between any two steps of the other, one of them
preempted; a lost wakeup needs a sleeper and a waker, whose second call may take the unit before the sleeper
runs.  What a third process could add is covered by the proofs, which are for any number.  One semaphore: the locks of different semaphores never nest
(a call takes one), and the proofs are for any number.  In `proc`, four slots allow a chain of three
below init, so that the zombie an exiting process hands to init finds init asleep, and only the wakeup in
`reparent()` can tell it; pids up to 4 let a slot be freed and claimed again.  In `pingpong`, rally 3 closes the
cycle of the two semaphores more than once.

In `log`, three buffers are fewer than the blocks in use and than the references there may be, so that buffers are recycled, and run
out (`bget` panics); four descriptors serve one request and leave one over, so that allocations fail half way; there are as many home
blocks as the log has room for, and one more than operations may fill it with, so that without `begin_op`'s reservation `log_write` would
find the log full; the log has room for one operation's reservation
beside another, so that `begin_op` waits for space as well as for a commit; a crash may hit any step, after it the
remaining operations go on, and a second crash may hit them or the recovery (after it the machine only
recovers).  In `fat`,
seven clusters run out, four slots fill (one volume has a directory with no slot left), and five operations are
enough to read two directories, create, extend and remove, or to write data that read as an entry, free their cluster, make a directory
there and read it.  In `shell`, seven processes suffice for two pipelines and a second shell, and `fork` fails beyond.  In
`files`, each table is small enough that some program exhausts it, and counters wrap (`UintLimit` 4); loops of the
tests are unrolled two or three times.

Deadlock is checked in `proc` (init can always call `wait`).  It is not in the other runs, whose programs
end: after `MaxCalls` or `MaxOps` calls, at the end of the input or of the test; and a `sem_down` may sleep for ever
when nobody calls `sem_up`.  That nothing gets stuck before is `MainExits`, `PromptReturns`, `TestsEnd`, and in `log`
`SleepersMustWait`.

`log` uses the symmetry of the processes other than `Boot` and that of the home blocks, which no definition tells apart and no liveness
property is checked with.

Fairness.  In `Semaphores` and `Proc`: `Dispatch` is strongly fair, because each CPU's scheduler
scans the whole table for ever; `SwitchIn`, `SwitchOut` and `Preempt` are fair, because a CPU goes on
executing and the timer interrupts whoever runs with interrupts on (in `Proc` strongly, since a pending
interrupt is taken as soon as interrupts are on again, while `Preempt` is disabled now and then); a
process's own next step is strongly fair: a process dispatched again and again gets to execute its next
instruction before its quantum ends, and a spinlock that becomes free again and again is eventually won by each
spinner.  The last is what a test-and-set lock gives with probability one, not with certainty: the
liveness results rest on it.  In `Proc`, init calls `wait` again and again (`user/init.c`).  No process is
assumed to make a call, to exit or to be killed.  In `PingPong`, every process runs and every call
returns unless it must wait, which is what `AbstractSem` promises.  In `Shell` and `Usertests` weak fairness of the
whole next-state relation is enough: the kernel runs some process that can run; no process can go on for
ever, so all get their turn.  `Log` and `Fat` have no liveness property.

In `Usertests`, a call that has ended returns before anything else happens: until its next call a process
shares nothing, and the order of returns shows nowhere.

Each property of a passing run has a mutant: a plausible bug in a mapped definition (a dropped
lock, `if` for `while`, a wakeup of the wrong channel, a header written too early, a buffer not pinned, a pipe end
not closed, pages not given back, ...) under which TLC finds the property violated.  The mutated operators stand next to
the definition they mutate, under "mutant of".

### Findings

- `sem_reinit`: `sys_sem_open` calls `initlock` on the lock of a semaphore before taking it, whether or not
  it is in use.  A process inside a critical section of that semaphore loses the lock, a second one
  enters, and the first panics in `release`.
- `fat_image`: a file created in a directory that was not read yet is written over the directory's first entry,
  because the number of entries is known only after reading (`fat_file.c:342`).  The volume then disagrees with the tree in
  memory, which LAB4's README asks to keep consistent.
- `files_create`: `create` has found a directory, `unlink` removes it, `create` locks it and puts a file in
  (`sysfile.c:251-254`).  When the directory is freed, the file has one link and no name: nobody can reach it and its inode is lost,
  while `grind.c:197`, whose steps 3 and 9 do this in two processes, expects that there are always free inodes.
- `files_dotdot`: a process stays in a directory that is removed, then the parent is removed too: `..` names a free
  inode, and walking there fails the assertion of `ilock` ("ilock: no type", `fs.c:315`).

### What the properties of `files` allow

Four of these properties do not hold as one would first state them.  The run has the programs that break
them, and checks, as action properties, that each breaks in one way only:

- `OnlyRemovedDirLosesLinks`: links are counted, until a directory is freed in which `create` has put a file (`files_create`).
  The program `CreateInRemoved` of the run does it.
- `OnlyDotDotFindsFree`: whoever has a reference to an inode has one that is allocated, except by `..` (`files_dotdot`).
  The program `RemoveParent` of the run does it and panics, and `TestsEnd` is about what happens when nothing has.
- `OnlyIputLeaks`: an inode without links or references is free, except by a race in `iput`.  It frees the inode on disk, releases the
  inode's lock, and only then takes the table's to drop its reference (`fs.c:355-357`).  In between another process can
  allocate the inode, gets the same entry of the table, and removes the file again: its own `iput` is not the last, and the first one then drops
  the last reference without a test.  The inode stays allocated for ever, although `fs.c:129` says that `iput` frees it.
  The program `Reuse` does it.
- `OnlyKilledWriterForgets`: who sleeps on a pipe has a reason to, except that a writer that is killed with bytes in the pipe returns
  without waking the reader (`pipe.c:84-86`).  The program `KillWriter` does it.

### Seen and not checked

- pingpong's `main` waits for one child only, so that its last word may come after the prompt, which the comment at
  `pingpong.c:91` means to prevent, and from a child that waits on a semaphore `main` has closed and set to zero.
  `OnlyLastWordLate` says that it is never more than that.
- `fat_file_pwrite` never extends a chain: a write to a new file stops at the end of its only cluster and answers less than it was given.
  `tests/test_fs.sh:98-107,135-146` wants 2048 bytes of several clusters stored in full.  `KeepsData` says that what
  the answer counts is stored, and that nothing is cut short before the last cluster is full.
- When a leftover entry is read (part 2), `ChainsDisjoint` without its condition fails at once: TLC finds a volume with `/f`, a value
  that reads as an entry starting at cluster 3 written to it, a truncation that frees that cluster, and a directory made there.
- A crash after the unlink of a file that is still open leaves an inode without links allocated (`fs.c:332-333` says so).
- `NFILE` (100) open files of distinct inodes are more than `NINODE` (50), where `iget` panics (`fs.c:267`).  The run has 7 entries for
  12 inodes, and no program of it uses more than seven at once; TLC would stop with an error there.

## 4. What is proved

Each of the modules below proves, for every value of the constants that the named assumptions allow, an inductive
invariant of one component, which was checked with TLC on the component's instance before it was proved, and
from it the properties.  None of the properties is inductive itself.

### Semaphores

`Semaphores_proofs` proves for every number of processes, CPUs, semaphores and calls:

- `TypeCorrect`: `Spec => []SemTypeOK`, with no assumption but those on the constants;
- under `ExclusiveOpen`: `MutualExclusion` (`SemMutex`), `NoLostWakeup` (`NoSleeperLeftBehind`),
  `SchedNeverPanics` (`SchedChecks`), `StacksSeparate` (`OneCpuPerStack`), and `CallsAreAtomic`, the safety half of
  the refinement (`Spec => Abs!AbsInit /\ [][Abs!AbsNext]_(Abs!absVars)`).

None of these is inductive.  `IInv` is, and has five parts.  `TypeInv` is the type.  `StackInv` ties stacks to
`p->lock`: a process is on at most one CPU, and when it is inside `sched()` that CPU holds its lock.
`CallInv` ties labels to calls and states the rule on `sem_open`.  `LockInv` ties a semaphore's lock to the process in the critical
section: the CPU that holds the lock runs that process, which needs that nobody is preempted with a lock
held, and so depends on `StackInv`.  `SleepInv` carries the argument for wakeups: whoever sleeps, or has
released the lock to sleep, found zero; a `wakeup()` loop at slot `i` has left no sleeper below `i`, because nobody
else can start to sleep on that semaphore while the waker holds its lock; so at the increment there is
no sleeper.  Each part has a lemma of its own with one step per action (`TypeStep`, `StackStep`, `CallStep`, `LockStep`,
`SleepStep`), and the theorems combine them.  The same five parts were checked with TLC before they were proved.

### Proc

`Proc_proofs`, for any size of the table, number of CPUs and number of pids: `TypeCorrect` (`ProcTypeOK`),
`SchedNeverPanics` (`SchedChecks`), `StacksSeparate` (`OneCpuPerStack`), `SlotOwnedByFork` (`ForkOwnsSlot`),
`NobodyOrphaned` (`NoOrphan`), `ExitsNoticed` (`NoLostExit`) and `OnlyParentReaps` (the action property
`ReapedByParent`).  The inductive invariant has the type and seven parts:

- `PidInv`: `nextpid` leaves a number for each process that is inside `allocproc`, so that the bound `MaxPid` is kept.
- `StackInv`: a process is on one CPU at most, and inside `sched()` its lock is held by the CPU it is on.
- `LoopInv`: how far each loop over the table is, and what its index and its slot may be.
- `LockInv`: who holds `wait_lock` and the locks of slots, read off the labels.  A lock in a slot is handed from `fork`
  to nobody, from `exit` to the scheduler, from the scheduler to the process: each hand-over is a clause.
- `ForkInv`: the slot that a `fork` fills belongs to it until it is runnable, without a parent until the third step.
- `ParentInv`: parents are alive, because `exit` gives its children away under `wait_lock`; a process that is past its
  `reparent()` has none.  It needs `LockInv` for `wait_lock`.
- `SleepInv`: the argument for exit notices.  Who sleeps in `wait()` sleeps on itself and has a child; a zombie whose parent sleeps has
  an `exit()` still ahead of its wakeup, or a `reparent()` about to wake init; and the loop of a `wakeup()` leaves no
  sleeper behind its index, since nobody can start to sleep on that channel while the waker holds `wait_lock`.

### PingPong

`PingPong_proofs`, for any number of semaphores, every `rally` and whatever other programs do under the rule on `sem_open`: `TypeCorrect`
(`PingPongTypeOK`),
`WordsAlternate` (`Alternation`) and `OnlyLastWord` (`OnlyLastWordLate`: when `main` has exited, at most one word is missing, which is
as much as the single `wait` gives).  The invariant ties calls to labels (`PcInv`,
`CallInv`), says which semaphores the two searches have passed over (`SearchInv`: none that is free, so that both
searches end at one, and the two differ, and they are `main`'s until it closes them), counts words (`CountInv`), says that "Pong" is behind by
one word at most (`OrderInv`), and has the turn in one place (`TurnInv`): the two
values and the two children between `sem_down` and `sem_up` are together one, and where the one is
is told by who has printed more.  `TurnInv` ends when a child is done, since the semaphores may then belong to others; what the
other child may still print follows from `OrderInv` and from the words it has left.

### Bcache, Log, Recovery

`Bcache_proofs` has only lemmas: the cache's invariant (`CacheInv`: types; `IoInv` and `HeldInv`, which buffers a process in
a call has locked and refers to; `Unique`; `RequestInv`, a command that the device was given is that of the
process that waits for it; `DescriptorsAccounted`), and what the operations of the cache do to references, as steps that
`Log_proofs` cites.

`Log_proofs`, for any number of buffers, descriptors, blocks, processes and crashes: `TypeCorrect` (`LogTypeOK`), `OneBufferEach`
(`OneBufferPerBlock`), `DescriptorsKept` (`DescriptorsAccounted`), `NoSleepForNothing` (`SleepersMustWait`), and `OtherPanicsUnreachable` (`OnlyBgetPanics`: a step
that panics finds every buffer referenced, in a `bread`, so it is `bget`'s).  The invariant adds to the cache's: `PlaceInv`, where each process is and which blocks it holds there; `ModeInv`, one process
at most commits, and no operation is under way then; `RefInv`, that each reference is one of a process or one pin of
`log_write`, so that `bunpin` and `brelse` never go below zero and a pinned buffer is never recycled; `SpaceInv`, that
what operations may still add fits the log.  The last three hold until a panic only: after it other CPUs go on.

`Recovery_proofs` has the result the log exists for, `LogIsAtomic`: `Spec => CrashAtomic`, that `Log` with the cache, the device and
any number of crashes at any step, recovery included, implements `AtomicDisk`.  It is complete, since
`AtomicDisk` has no fairness.  With it `IdleDisk` (`IdleIsDurable`) and `NothingLost` (`CacheCoherent`).  The invariant adds to that of the
log (`DataInv`):

- `CoherentInv`: a valid buffer agrees with the disk, unless it was modified and not yet logged, is being written, or
  is logged.  Without it, a block read again after recycling might be an old one.
- `ValidInv` and `PinnedInv`: a pinned block's buffer stays valid, so that the installation copies what was logged.
- `StageInv`: for whoever commits or recovers, what the write in progress carries (`Writes`), and how far the
  disk is (`Phase`): the header on it is empty until every block of the transaction is in the log, and is erased only
  when each is in its home.
- `QuietInv`: the header is empty when nobody commits or recovers.

Every step is then one of four to the abstract disk (`AbsStep`): unseen, one block changed by an operation, the commit,
or the crash.  The commit is the step in which the device has written the header, not the return of `bwrite`.

### Shell

`Shell_proofs`, for any number of processes, any lines and any number of them: `TypeCorrect` (`ShellTypeOK`), `EndsAreClosed`
(`EndsClosed`) and `ChildrenWaited` (`ChildrenReaped`).  The invariant has nine parts.  `InputInv`, `PipeInv` and `LocalInv` say
of the lines, the pipes and each process apart what they may be; a process has `pipe_fds` only while it starts a
pipeline or is about to connect.  The others relate processes:

- `FamilyInv`: a parent is another process, and alive, since `exit` gives children away.
- `OwedInv`: a shell has at most the children it left in the background, plus those it has started of the pipeline
  at hand, or will still call `wait` for.  `wait` may reap any child, so that only the number of children is bounded and not which;
  this is why the count of `wait` calls is enough although background commands take some of them.
- `FirstInv`: the shell of `main` reads the terminal and never has a pipe as its input or output.
- `OwnerInv`: two shells never execute the same line.  A builtin in a pipeline leaves a second shell that reads
  the same terminal and makes pipes of its own; the line number tells them from the first's.
- `LineInv`: what a command of the first shell reads and writes is a pipe of a line already read, not of a line that another
  shell executes, and, in the line at hand, one of a command before the next to be started.
- `UniqueInv`: no two commands of the first shell have the same input or the same output.  It is preserved because of
  `LineInv`: the next command's ends are new.

`EndsClosed` counts the commands of the first shell only: what a second shell runs shares that shell's input and output.  The
lemmas are by kinds of steps: a process ends (`DiesStep`), goes on (`ContinuesStep`), starts another (`StartsStep`) or reaps
one (`ReapsStep`); each of the twelve actions is shown to be one of these.

### Fat

`Fat_proofs`, for any size of table, of clusters and of directories, any paths, any well-formed volumes, whatever data are read as entries, and any
number of operations: `TypeCorrect` (`FatTypeOK` while `clean`), `ChainsSeparate` (`ChainsDisjoint`) and `DataKept` (`KeepsData`, the refinement of
`AbstractFiles` with the answers of reads and writes, complete since it has no fairness).  All are about every behaviour of `Spec`,
and promise something while `clean` is true: `CleanInv` is that the invariant below and `CleanDirs` hold until then.

`Chain` is a recursive function, and what it returns for every table needs an induction, which the library's
theorems do not give here (they take an operator as a parameter).  The module begins by getting it from sets instead: the numbers
without the property have a least member.  From it, `ChainFacts` says what a chain is, with no recursion (`IsChain`: it starts at
the cluster, each next one is what the table says, and it ends at what is no cluster or at the table's length),
`ChainUnique` that only one sequence is, and `ChainSame` and `ChainCut` what a change of the table does to it.

The invariant is `VolInv` while the driver runs.  `ChainsDisjoint` is far from inductive: the driver reads a directory
only when it is asked for, and then trusts what it finds.  So most of `VolInv` is about entries that were not read yet:

- `VolType` and `TreeOK`: types; no two files in the tree have the same first cluster, a file's size fits its chain, its directory is in the tree.
- `ChainsOK`: the chains that are owned, by a file in the tree or by an entry that is `Pending` (not read, and of no
  file in the tree), end, are marked as used and share nothing.
- `PlacesOK`: an entry not read yet is in the cluster of a directory, which is in use and not a file's, and its own fields are those of a
  file that could enter the tree.  Without it, data written to a file could destroy entries.
- `OwnPlaces`: a file in the tree has no unread entry but the one at its own position, and the slots that a directory is
  taken to have filled hold no other file's, except old entries of the log; so what the driver writes over an unread
  directory loses entries, but never leads a second file to a chain that has one.
- `EndsOK`: no entry follows the end mark of a directory, and none will be written after it; it is what makes
  `rmdir`'s test for children right.

After `unlink`, when the driver uses freed memory, only the types and the disjoint chains are left (`Safe`).  The invariant was checked with TLC
on the run's instance, and was wrong there in several earlier forms.  Each function of the driver has a lemma
(`WriteOwnInv`, `PwriteInv`, `ReadChildrenInv`, `CreateInv`, `CountedInv`, `UnlinkLeft`, `TruncateInv`, `MountedInv`), each
operation one that combines them (`WriteSafe`, ...).

For `DataKept`, the i-th unit of a file is the cell of its chain that `CellOf` and `RestOf` say (`DataIs`).  A step that leaves
a file's chain, size and cells alone leaves its data alone (`UntouchedSame`); writing a directory entry loses a
unit of the directory's cluster, which by `ChainsOK` is of no file (`Spared`).  `WroteData` shows that `fat_file_pwrite()` puts each unit
where it belongs, in whatever clusters the chain has, and `CutData` that a truncated file begins as before.  Every operation is then
quiet, one write, one truncation or one removal, with records added to the log (`WriteMoves`, ...).

### Assumptions

The theorems rest on the `ASSUME`s of the modules, which TLC evaluates, and on no others but `ExclusiveOpen`
where a theorem says so (`clean` is in the statements of the properties of `Fat`).  `SemAssumption`, `LogAssumption` and the shipped constants are discussed in part 2; `PingPongAssumption` has the
semaphores numbered from 0; `ProcAssumption` that init is not killed and that there is a pid for it; `ShellAssumption` that there are finitely many processes, that
lines and inputs are sequences, and that the terminal and files are no pipes.  `FatAssumption` says that a unit has a whole
number of directory entries, and how the paths are related; `ImagesAssumption` that the volumes that are mounted are well-formed (part 2).

### Only model-checked

- Liveness, which is out of reach of the installed provers: the liveness half of `Linearizable`, `ZombiesReaped`, `MainExits`,
  `PromptReturns`, `TestsEnd`.
- Everything about `Usertests`, safety included: `FilesTypeOK`, `RefsCounted`, `PagesCounted`, `TestsPass`, and the four
  properties that begin with `Only`.  `TestsPass` is about the programs of the run, which come from modules with
  recursive operators (`Sh`, `MCUsertests`), about which nothing can be proved; `Usertests` itself has none.
- `FatTypeOK` after a leftover entry was read.
- That the constants of the runs meet the `ASSUME`s, and the parser of `Sh` over sequences of up to five tokens.

## 5. Not modelled, and the plan

Not modelled and not planned: the timer's `sleep` (one more condition on the sleep and wakeup that `Semaphores` and `Proc`
have), console and UART, interrupt and boot code (registers and assembly), LAB0's scripts, `cpubench` and the
timings of LAB3; of `usertests` the tests `fourteen` (long names), `forkforkfork` (a fork bomb: more processes than the run has)
and `bsstest` (contents of memory); the programs `grep`, `wc`, `ls`, `kill` and `forktest`, which only
print or repeat what tests do.  Inside the modelled components, the abstractions named in part 2; and the
transactions inside the system calls, which `Log` has apart from the calls: what `Syscalls` relies on is
`AtomicDisk`.

Left for later are proofs about `Syscalls` for any programs, of what holds whatever programs do: lemmas about `Inode`
and `Memory` (`Iget` and `Idup` keep the count of references, `Growth` accounts for the pages that `Mapped` has), and from them
`RefsCounted` and `PagesCounted` for every instance.
