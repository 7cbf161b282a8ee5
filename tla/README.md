# Verification of hecto-os

hecto-os is a small RISC-V kernel in Rust: one hart, user processes with one
thread each, Linux system calls, copy-on-write address spaces, a FIFO scheduler,
pipes and a FAT file system. This directory holds TLA+ models of its core, the
TLC configurations that check them, and proofs about every one of them that TLAPS
checks. Paths below are relative to the repository (`src/` here is its
root, so the kernel is `src/kernel/`).

## The system and its parts

| part | code | model |
| --- | --- | --- |
| physical frames, user address spaces, page faults, `mmap`, `munmap`, `brk` | `kernel/src/mm/{physical_page,address_space,page_table,address}.rs`, `kernel/src/syscall/mm.rs` | `AddressSpace`, `PrivateMemory` |
| traps, `__restore`, context switches, the interrupt bits | `kernel/arch/riscv/{trap.asm,trap.rs,trap_context.rs,switch.asm}`, `kernel/src/sync/spinlock.rs` | `Trap` |
| threads, processes, scheduler, `clone`, `exit`, `wait4`, timer, `nanosleep` | `kernel/src/process/`, `kernel/src/lib.rs`, `kernel/src/syscall/{process,misc}.rs`, `kernel/src/timer.rs`, `vendor/algorithm/src/scheduler/fifo_scheduler.rs` | `Tasks` |
| pipes and condition variables | `kernel/src/fs/pipe.rs`, `kernel/src/sync/condvar.rs`, `kernel/src/syscall/fs.rs` | `Pipe` (on top of `Tasks`) |
| descriptor tables, open files, vnodes, mounts | `kernel/src/fs/{file,mod,vnode}.rs`, `kernel/src/process/process.rs`, `kernel/src/syscall/fs.rs` | `Files` |
| the buffered block device | `kernel/src/drivers/block/mod.rs` | `BlockCache`, `FlatDisk` |
| the SD card protocol | `kernel/src/drivers/block/sdcard.rs` | `SdCard` (under `BlockCache`) |
| FAT volumes | `fatfs/src/{table,fs,file,dir,dir_entry}.rs` | `Volume` |
| the kernel heap (free pages, zones of chunks) | `kernel/src/mm/heap/` | `Heap` |
| boot, boards, console, logging, system call dispatch | `kernel/boards/`, `kernel/arch/`, `kernel/src/` | not modelled: initialisation, output, a match on numbers |
| `k210-hal`, `k210-soc`, `k210-pac`, `core_io`, the rest of `vendor` | | not modelled: libraries and register access |

How the parts meet: every entry into the kernel goes through `__trap` and
`handle_trap`, which calls a system call, the page-fault handler or the timer.
System calls change the address space and the descriptor table of the current
process, or switch to another thread. Threads only switch in the kernel, through
the `schedule` thread, or directly from a parent to its new child in `clone`.
The CSRs (`sscratch`, and SPP, SPIE and SIE of `sstatus`) are not part of a
switch, so what one thread leaves in them the next one finds. A file's bytes go
from a descriptor to the vnode all its openers share, to a `File` of fatfs, to
the one block `BufBlkDevice` holds in memory, and to the card; each of these
layers keeps a position or a copy of its own.

`PROJECT.json` maps each definition to the lines it models and lists every
component, modelled or not, with the hazards of the code at their lines.

## Modules

**AddressSpace.** The state is the frame allocator (`freeFrames`, `refCount`,
`content`) and, for each process, its areas, the `FrameTracker` of each page,
the leaf page table entries, the break, and the stack top. The actions are
`NewThread`, `Execve`, `Fork`, `ForkSetTid`, `HandlePagefault`, `Brk`, `Mmap`,
`MmapFixed`, `Munmap`, `Exit`, `DropProcess` and the `Store` of a user program.
A failed `assert!` or `unwrap`, or a lock the hart waits on itself for, sets
`halted` to the place, and nothing happens after it. `Next` makes the calls the
way the repository's user programs do (the kernel chooses the address of an
mmap, a munmap hits a mapped region, the break only grows); `NextAny` makes
every call with any argument. Addresses are small numbers, with `PageSize`
addresses to a page, so that ranges that start and end inside a page occur. The
segments of a program have pages of their own, and one may begin where another ends.
An `mmap` names no descriptor, an open file, or one of the slots and files whose
`unwrap` fails (`mmap_fd`).

**PrivateMemory.** What the memory manager promises: each process has a memory
of its own, with no frames or sharing. `AddressSpace` implements it under the
mapping `mem <- View`, where `View` is what each process reads.

**Trap.** The hart's privilege mode, SPP, SPIE, SIE and `sscratch`, the trap frames on
each kernel stack and the place each thread is at. One action per stretch of
code that an interrupt cannot enter; where SIE is set a timer interrupt is
possible between any two actions. A frame saved over a live one (`Overwrite`) ends the run.
A frame that `execve` or a new thread makes has the SIE that `sstatus` had at that moment.
General registers, and what a system call computes, are left out. The kernel
faults on user memory only outside locks here; the case where it faults inside one is in
`AddressSpace` (`mmap_file`).

**Tasks.** The FIFO pool and the loop of `schedule`, the status and place of
each thread, the `Arc`s that keep it alive, tids and their reuse,
`child_exited` and `wake_callbacks` of each process, and the callbacks in
`TIMER`. The kernel is not preempted: a timer interrupt in the kernel only runs
due callbacks. So a system call is one step up to its switch, except that
`nanosleep` is cut between `register` and `status = Waiting`, where a tick
matters. Time is not a number: any subset of the callbacks can be due at a tick.

**Pipe.** `Tasks` with one pipe: its two ends in the descriptor tables, the
byte queue, the condition variable's queue, and the lock of `process.inner`
that `sys_read` holds while it sleeps. `clone` shares the ends, dropping a
thread closes them, and whoever needs a lock that a sleeping thread holds spins.

**Files.** The descriptor table of each process, the `FileDescriptor`s that slots share
after `dup` and `fork`, the vnodes that openers of one path share through
`VNODE_HASHSET`, mounts, and the size of the file on the disk. `normalize_path` makes a
path absolute and leaves repeated slashes, inner dots and the case of letters, so a file
has several `Names`, each with a vnode and a fatfs `File` of its own; a `File` whose
size changed writes it to the directory entry when it is dropped. A relative path whose
dirfd is not open fails an `unwrap` (`NoDirfd`). The actions are open, close, `dup`,
`dup3`, `fcntl`, read, write, `pipe2`, clone, exit, unlink, mount and umount; closing
includes the drop of the descriptor, with its test of the strong count, and of the
vnode. The keys of the set borrow their path, so an entry records whose path it is.
`Next` mounts only directories that nobody has open, `NextAny` any.

**SdCard.** The driver's command sequences and the card at the other end of the bus.
One step is one command with its answer. The card, which is external, may not
answer, carry out a command whose answer is lost, stay busy, lose power, or
stay on, in the middle of a transfer, while the machine restarts. The driver's
retry loops count down from `Tries`.

**BlockCache.** `SdCard` with `BufBlkDeviceInner` on top: one buffered block, a position
in it, the modified flag. Moving to another block is two steps, the write of the old one
and the read of the new one, and the power can fail in each. `Next` has the accesses
that lie in one block, at any place and of any length, as those of fatfs do when a
cluster is one sector. One that stops a byte short of the end of the block moves the
cache on: after a read the next access seeks first (fatfs seeks before each access), and
a write panics, which is a step of the model (`OutOfBounds`). `NextAny` has accesses of
every length.

**FlatDisk.** What a buffered disk promises: a row of bytes with a cursor, and a
power cut that undoes at most changes to one block. `BlockCache` implements it
under the mapping `image <- Image, saved <- Saved, cursor <- Cursor`.

**Volume.** A FAT32 volume on such a disk: the table, the directory entries, the FSInfo
sector and the dirty flag, as the file system sees them (`vol`) and as a power cut
leaves them (`saved`), and fatfs's objects in memory. Every write to the disk is a step,
so that creation, extension, removal and unmounting are sequences which operations of
other files cannot enter (the `FileSystem` is locked) but a power cut can. It starts
with a volume that was just formatted, the count of free clusters being known or, as
`format_volume` leaves it, not. `SpecUnlink` also removes files that are open.

**Heap.** The page list, the zones with their chunks, the lists of zones by size and
`PAGE_USAGE_ARRAY`. The actions are the cases of `malloc` and `free`. `page_free` reads
a word of the pages it is given before it writes it, and the owner of the pages chose
that word: it is what `page_alloc` left there (`left`) if the owner never wrote it, or
any of `Words`. `misled` records that the word made `page_free` join the pages with an
extent that is not beside them; the model stops there. `Areas` has every extent, region
and zone with what it serves as, so that `PagesApart` also tells a region from a free
extent of the same pages.

**MCAddressSpace, MCTrap, MCTasks, MCPipe, MCFiles, MCBlockCache, MCVolume,
MCHeap** give TLC its instances: images, symmetry sets, `Next` with one further
call at a time, and a state constraint.

**AddressSpace_inv** has the invariants that the proofs about `AddressSpace` need.
**AddressSpace_proofs, Trap_proofs, Pipe_proofs** (`Tasks` and `Pipe`),
**Files_proofs, BlockCache_proofs, Volume_chains, Volume_proofs, Heap_proofs** hold
the proofs (below).

Definitions marked "mutant" are variants of the definition that follows them,
each with one plausible mistake. They show that a property can fail: with the
variant in place of the original, TLC finds it violated.

## Runs

Each is `tlc -config <run>.cfg <module>`, where the module is `MC` and the name
of the specification.

| run | shows | distinct states |
| --- | --- | --- |
| `mem_cow` | three processes, `Next`, page contents included: entries and trackers agree (`PteTracks`), no frame with a writable entry has a second mapping (`NoSharedWrite`), a store in a writable area is served unless another area ends at its address (`WritableServed`), the asserts and unwraps of mapping and unmapping hold (`AssertsHold`), and `AddressSpace` implements `PrivateMemory` | 25 385 |
| `mem_any` | two processes, `NextAny`: reference counts are exact (`FrameAccounting`) and areas stay mapped (`AreasMapped`) whatever is called | 164 509 |
| `trap` | a switch always finds SPP clear and one frame on the stack, user code always has its kernel stack in `sscratch`, traps nest three deep at most | 1 652 |
| `tasks` | tids and references are accounted for, no exit is missed by `wait4`, no callback dangles, every thread runs on a stack that something keeps alive, the idle loop can always be interrupted | 974 374 |
| `tasks_live` | every Ready thread runs; `wait4` returns after a child exits | 65 985 |
| `pipe` | bytes arrive once and in order; no reader sleeps next to data | 3 799 342 |
| `files` | openers by one path share one vnode, which leaves the set with the last of them (`OneVnodePerPath`), the assertion in `FileDescriptor::drop` holds, keys of the set outlive their entries, positions stay within the file, `pipe2` gives both ends or none | 196 649 |
| `disk` | for accesses inside a block the cache over the card implements `FlatDisk`; a clean buffer is what the card holds; the driver moves data only with a card that is ready; every call returns | 48 209 |
| `volume` | cluster chains stay apart, a `File`'s cursor is on its chain, a power cut leaves every file a chain of its own bytes except the one being removed, the dirty flag covers a wrong count of free clusters, the count in memory is exact | 1 406 611 |
| `heap` | no chunk has two owners, no page has two unless `page_free` was misled (`PagesApart`), the lists of zones are exact, `free` finds the zone or region an address came from, and, unless it was misled, pages are lost only when no free extent ends where they begin; as an assumption of `MCHeap` (`SizesSound`), every size up to the limit gets a list and a chunk that fit | 164 285 |

Two runs each show a disagreement between the code and what the repository
says of it; `PROJECT.json` quotes the lines.

| run | what TLC finds |
| --- | --- |
| `trap_sscratch` | `__restore` can be interrupted with `sscratch` already set for user code, as `clone`, `execve` or another thread's switch left SIE set; with a frame `execve` made, at any place until `sret` |
| `tasks_sleep` | a tick between `register` and `status = Waiting` loses the wakeup of `nanosleep` |

### Further formulas that are refuted

These disagreements are found in the same way. The first group has a
configuration of its own here, to be used like those of the runs:

- `mem_fixed_mmap.cfg` (`ImplementsPrivateMemory` under `SpecFixedMmap`): an
  `mmap` at an address makes pages writable that a fork still shares
  (`syscall/mm.rs:62`), so one process sees the other's stores;
- `mem_touching.cfg` (`EveryStoreServed`): where a segment begins at the address another
  one ends at, the lookup with `VARangeOrd` (`mm/address.rs:280`), which takes ends as
  inside, may find the other one, and a copy-on-write fault at that address is refused;
- `mem_brk.cfg` (`MapOneFresh` under `SpecShrink`): a break that moves down and
  up again maps a mapped page (`mm/address_space.rs:305`), and the assertion of
  `map_one` fails;
- `mem_mmap_file.cfg` (`NoFaultUnderLock`): `mmap` of a file into a read-only
  area, or one of whole pages, faults with the process lock held
  (`syscall/mm.rs:85`), which the comment at `syscall/process.rs:103` warns of;
- `trap_frame.cfg` (`RestoredMasked`): `TrapFrameImpl::init` copies `sstatus` with SIE set
  (`trap_context.rs:96`), so the frame of `execve` lets an interrupt in between
  `csrw sstatus` and `sret`, where `__restore` loads the registers;
- `pipe_blocked.cfg` (`BlockedReadReturns`): a read that blocked never returns, as
  `schedule` spins on the lock it holds (`syscall/fs.rs:47`). The test program
  `pipe` passes when the child, which `clone` runs first, writes before the
  parent reads;
- `disk_any.cfg` (`ImplementsFlatDisk` under `SpecAny`): a read or write that crosses
  the end of a block transfers only its first part and reports all of it, and after a
  read that stops a byte short of the end the cursor is one byte too far: the end is
  tested as `BLOCK_SZ - 1` (`drivers/block/mod.rs:65`);
- `volume_unlink.cfg` (`ChainsApart` under `SpecUnlink`): `unlink` of an open file
  (`fs/file.rs:176`) frees clusters its `File` goes on using; fatfs asks callers
  to prevent that (`fatfs/src/dir.rs:322`);
- `files_mount.cfg` (`DropAssertion` under `SpecAny`): mounting a directory that is
  open replaces its vnode under the old key (`fs/mod.rs:101`), and the assertion
  at `fs/file.rs:77` fails when the old descriptor is closed;
- `files_names.cfg` (`OneVnodePerFile`): a file opened by two paths that
  `normalize_path` leaves different (`syscall/fs.rs:354` has it as a TODO) has two
  vnodes, with two sizes and two cursors;
- `heap_free.cfg` (`OneOwner`): `page_free` compares a free extent with `cur.npages`
  before it is set (`page.rs:68`; the comment above it says "如果 cur 右边的是 free page"),
  and `page_alloc` leaves there the size of the extent the region was cut from, so a
  region whose owner never wrote its first word can be joined to an extent over pages
  that are in use.

Others are variants, to be put in place of the property of a configuration:

- `RestoreBranch` (in `trap_sscratch.cfg`): after a timer interrupt in the
  handler of a page fault taken in the kernel, `__restore` takes the branch for
  user code, a second way to a wrong `sscratch`;
- `ForkCopies` (in `mem_fixed_mmap.cfg`, with `SpecSetTid`): `clone` with
  `CLONE_CHILD_SETTID` writes the tid into the parent's memory too;
- `EofReturns` (in `pipe_blocked.cfg`): closing the last write end wakes no reader;
- `UserIsReady` (in `pipe.cfg`, as an invariant): a read that returns 0 leaves
  its thread Waiting in user code;
- `IdleInterruptible` (in `pipe.cfg`, as an invariant): a read that blocks leaves
  the idle loop with interrupts off;
- `WriteReturns` (in `disk.cfg`, as an invariant): a write that stops a byte short of
  the end of the block panics (`drivers/block/mod.rs:94`);
- `NoPageLost` (in `heap.cfg`, as an invariant): pages freed right of every free
  extent fall off the end of `page_free`'s loop.

The type invariants of the modules, `PagefaultInvisible` (`mem_cow.cfg`),
`PoolExact` (`tasks.cfg`) and `LowestFree` (`files.cfg`) hold in the
configurations of their modules and can be added to them.

Seen in the code, and without a formula: `O_APPEND` only sets the position at
open; `fcntl` keeps the close-on-exec flag in the descriptor that `dup`s share;
`execve` does not close such descriptors; `O_TRUNC` and `O_EXCL` are ignored;
chunks are aligned to 8 bytes unless their size is a power of two.

### Bounds

- *Memory:* four frames for two processes, or three in `mem_cow`, each with at least one
  program page and one stack page: few enough for `frame_alloc` to run out and for
  frames to be reused, enough for a page shared by three processes and for a copy of it.
  Pages have three addresses in `mem_cow` (two in `mem_any`), so that an address can be
  the first, an inner and the last of its page; the data segment begins where the text
  ends and ends inside its page, so every rounding case of `brk`, `mmap` and the lookup
  occurs. An `mmap` is part of a page in `mem_cow` and a whole one in
  `mem_any`. Frames and processes are interchangeable, hence the symmetry.
- *Trap:* three threads let a thread be preempted, a second be in a system
  call and a third be created. Nothing else is bounded.
- *Tasks:* `MaxTid` 3 lets a tid be recycled while a parent lives, a child
  outlive its parent and two children exit before a wait. `MaxChildren` bounds
  the children that were not waited for, whose list is otherwise unbounded.
  `Programs` is the list given to `switch_to_schedule`. `tasks_live` has one
  unreaped child per process and only `wait4(-1)`, which makes the liveness
  check affordable.
- *Pipe:* `MaxBytes` 2 with reads of two bytes and writes of one: short reads, full
  reads and an empty pipe occur. One pipe exists at a time. A read at the end of
  the data is refused when its thread is still queued, as the queue would
  grow without end. `pipe` has two threads with all system calls, and a third
  one as long as nobody sleeps and no tid is reused (constraint `ThirdThread`):
  two readers and a writer. `pipe_blocked` has two threads.
- *Files:* two processes, two `FileDescriptor`s at a time, tables of three slots one of
  which is a standard descriptor: a full table, holes, sharing by `dup` and by `clone`,
  and two openers of a file all occur. One file with two paths, which are
  interchangeable, in one directory that can be mounted; a file of one byte is enough
  for two openers to have different positions. A state in which more than three slots
  hold a `FileDescriptor` is checked and not continued (`FewSlots`). Deadlock is not checked, as the model
  stops where the code's behaviour becomes undefined or an assertion fails.
- *Disk:* two sectors of three bytes with two values and two tries: every
  position, both ends of the block and the last retry occur. The proofs remove these bounds.
- *Volume:* two names and three clusters, files of up to two clusters: a full disk, a
  chain that grows into a cluster another file has freed, and chains next to each other.
  Clusters are interchangeable, as `find_free` may start anywhere. A cluster is one
  sector, as in the images that `fatfs/scripts/create-test-img.sh:10` makes. Of the
  volumes a power cut leaves, only those that need no repair are mounted again
  (`Sound`). `FileSystem::new` has no such test: this is a bound of the model, as what
  fatfs does with an entry that leads to free clusters, or with a wrong count under a
  clean flag, is use of a damaged volume. `CutLeavesChains` and `FlagCoversCount` say
  exactly which damage a cut can do. A write of fatfs that stops a byte short of a block
  panics in the cache, which is a power cut here.
- *Heap:* seven pages, two words besides what `page_alloc` left (`MCWords`), zones of
  two pages with two chunks, two sizes, one spare zone, regions of up to three pages:
  zones fill, empty, are kept and given back, extents are split and joined, and
  `page_free` is misled. The proofs have any number of chunks from two. Deadlock is not
  checked, as all pages can be lost.

### Fairness

`FairSpec` of `Tasks` assumes weak fairness of the scheduler's loop and of a
system call that was switched back to (the hart does not stop), weak fairness
of preemption (the timer is set again at each tick, and user code always runs
with interrupts on), and strong fairness of each callback's expiry (its
deadline passes and the interrupt then stays pending until SIE allows it, which
may be on and off any number of times before). No fairness is assumed of what
user code chooses to call. `PipeFairSpec` assumes the same. `Fairness` of
`BlockCache` assumes weak fairness of the driver and the card (the hart goes on, and a
card ends a write) and of the cache, which goes on with what the driver returned.

## Proofs

A theorem below holds for every value of the constants that satisfies the named
assumptions of its module, which TLC evaluates in each run: sets of processes, frames
and `FileDescriptor`s of any finite size, any number of threads, any sizes and lengths.
TLC has checked each inductive invariant on the whole instance of its run. `USE
ZenonT(60)` in a proof module makes that prover the default; a leaf about numbers,
records or updates of functions names the SMT solver. The time limits (60 and 40
seconds) leave room for a slow machine: hardly any leaf needs more than five seconds.
From nothing, `AddressSpace_proofs` and `Volume_proofs` take about sixteen minutes each,
`Volume_chains` fourteen, `Heap_proofs` ten, and each other module at most eight.

### Memory

For *all* calls with any argument (`SpecAny`), `AddressSpace_proofs` proves

- `TypeCorrect`: `SpecAny => []TypeOK`;
- `FramesAccounted`: `SpecAny => []FrameAccounting`: a frame's reference count
  is the number of trackers on it, and the free list is exactly the frames with
  none, so no frame leaks, is freed twice, or is handed out while in use;
- `AreasStayMapped`: `SpecAny => []AreasMapped`: the pages in the range of an area are
  tracked, and mapped to the tracked frame, so the asserts of `remap_one` and `unmap_one`
  cannot fail.

For the calls the repository's programs make (`Spec`) it also proves

- `EntriesTrack`, `WritersAlone`, `StoresServed`, `AssertsNeverFire`: the invariants
  `PteTracks`, `NoSharedWrite`, `WritableServed` and `AssertsHold` of `mem_cow`;
- `MemoryIsPrivate`: `Spec => ImplementsPrivateMemory`: address spaces over shared,
  counted and reused frames are memories private to each process.

The assumptions are `ConstantsAssumption` and `ImageAssumption`: the sets of processes
and frames are finite, sizes are naturals, and a program has segments, each in pages of
its own (one may begin at the page boundary another ends at), the last of which ends
where the break starts; the loader relies on that. `WritableServed` has an exception for
an address where another area ends, which the lookup may find instead; without touching
segments there is no such address inside an area, as all other areas keep a gap.

`AddressSpace_inv` has the inductive invariants. `FrameAccounting` is not inductive:
dropping an area subtracts its trackers from the counts, which is right only if no other
area tracks one of its pages; mapping a page adds a tracker, which is right only if it
had none. `map_one` asserts that the *entry* is empty, so entries have to say something
about trackers. `Accounted` adds four facts: `TrackersMapped` (tracked pages are those
of the areas, and their entries name the tracked frame), `RangesTracked` (the range of
an area lies in the pages it tracks), `AreasApart` (no page in two areas),
`FreeSlotsEmpty` (a process that does not exist tracks nothing). The converse of
`TrackersMapped`, that an entry implies a tracker, fails under `NextAny`: after `brk`
moves down, `munmap` of the area leaves entries above its end without trackers.

Under `Next` that converse holds (`PteTracks`), but only because of where areas lie:
`brk` finds the pages it maps free because the data area is below all others up to
`data_segment_max`, and `mmap` because `alloc_user_area` leaves a gap. So `CowInv` adds
`LaidOut` (areas are not empty, track exactly the pages of their range and keep more
than the rest of a page between them; the data area and the stack are where `brk` and
`alloc_user_area` expect them) and `WriteInArea` (the pages that can be written, at once
or after a copy, are those of writable areas), which is what makes marking the writable
areas in `fork` enough. `Counted` is what exact counts tell of a frame: it is the only
fact about `Accounted` that the proofs about copy-on-write use.

`AddressSpace_proofs` has page arithmetic and where areas lie; one lemma per action that
preserves `CowInv` and is a step, or no step, of `PrivateMemory`; the counting lemmas,
with one lemma per action for `Accounted`; and the theorems. In the refinement a page
fault and `fork` change no process's memory although they move or share its frames;
everything rests on a frame that is written having one mapping.

### Traps

`Trap_proofs` proves the four invariants of the run `trap` for any number of threads
(`UserStackAlwaysReady`, `AlwaysSwitchedOutermost`, `SppAlwaysUserAtSwitch`,
`NestingAlwaysBounded`). None is inductive, as each depends on what a trap found when it
was taken. The invariant `Stacks` says where every thread can be: one that does not run
is absent or has exactly the frame of its last entry from user code; the running one has
no frame (user code), one, two (a timer interrupt or a page fault in the kernel) or
three (a timer interrupt in that page fault), with the places and the CSRs possible in
each case. The assumption says only that the scheduler is not one of the threads.

### Tasks and pipes

`Pipe_proofs` proves the safety properties of the run `tasks` (`TidsAccounted`,
`WaitersWake`, `TimerCallbacksLive`, `SchedulerInterruptible`, `StacksStayLive`), and
that the pool has every thread that has not exited, once (`PoolAlwaysExact`), for any
number of tids, children and programs. They need one another, so `TasksInv` is all of
them with `ZombiesOut` (a thread has exited exactly when it is out of the pool),
`RunningHeld` (the running thread is the one `schedule` holds, or a new child that its
parent in `clone` holds), `NotOwnParent` and `WokenOnce` (who sleeps with a callback
left is Waiting). `StacksStayLive` is an action property: no step drops the last `Arc`
of the thread that takes it. `IdleInterruptible` follows from `ReadyInUser`: with
interrupts off some thread other than the running one is Ready in user code.

It also proves `PipeAlwaysFifo` and `ReadersWake` for the composition of a pipe with
`Tasks`. `PipeInv` is `TasksInv` with `Blocked`: a blocked reader has the read end open
and its process locked, so neither it nor an exit of its process runs, and while there
is a write end whoever is queued is blocked in read. Each step of `Tasks` is shown to
leave blocked readers as they are.

### Files

`Files_proofs` proves the five properties of the run `files` for any number of
processes, paths and `FileDescriptor`s, table sizes and file sizes
(`DropsAssertNothing`, `KeysOutliveEntries`, `OneVnode`, `PositionsWithin`,
`BothEndsOrNone`). `FileDescriptor::drop` decides by a strong count whether it is the
last user of a vnode. That count is right only if every holder of a vnode found it in
the set, and if the set holds no vnode without holders but a mounted one. `FilesInv`
says so, for the tables (`Tables`, `Backed`), the descriptors (`Descriptors`), the set
with the owners of its keys (`Entries`) and its use (`Used`), and that no descriptor
without a slot is left (`Dead`). The lemma `CountTest` derives the meaning of the count,
`AfterIs` what a drop of several descriptors leaves, and `FdAllocated` what `fd_alloc`
finds. `FilesAssumption` says that the constants that stand for different things differ,
and that tables have room for the standard descriptor.

### The disk

`BlockCache_proofs` proves, for every number and size of blocks, number of tries
and length of accesses (`SpecAny`):

- `NothingForgotten`: `SpecAny => []CleanMeansSaved`;
- `OnlyReadyCards`: `SpecAny => []ReadyWhenUsed`;
- `FatAccessesSafe`: both, for `Spec`.

`CleanMeansSaved` speaks of the idle cache only, so it is not inductive: it is
re-established when a write or a read returns. `InStep` says what holds
in between: while a block is written the command carries the buffer, and
afterwards the card holds it; while one is read the command names the block, and
afterwards the driver's chunk is what the card holds. The invariant `IInv` is
that, the types, and the two properties.

It also proves `CacheIsFlatDisk`: `Spec => ImplementsFlatDisk`. The invariant gains
`Placed` (where the buffered block is and where an operation moves to, always a sector
of the card when data comes from it). Then each action has a lemma that names the step
of `FlatDisk` it is: the steps inside an operation and of the card do not show, except
that the card's write is `Save`; seeks, reads and writes are the steps of those names; a
panic is a power cut. Most of the work is that a block number and an offset determine an
address and are determined by it. The panic after a write that stops one byte short maps
to a power cut too: the block was written back before it. Under `SpecAny` the theorem is
false (`disk_any.cfg`).

The assumptions are `CardAssumption` and `CacheAssumption`: sectors are numbered from
0, a sector holds `BLOCK_SZ` bytes, at least two.

### FAT volumes

`Volume_proofs` proves the six invariants of the run `volume` and the types
(`VolumeCutLeavesChains`, `VolumeChainsApart`, `VolumeCutShowsOwnBytes`,
`VolumeFlagCoversCount`, `VolumeCountExact`, `VolumeCursorOnChain`, `VolumeTypes`), for any
finite set of clusters, any names, cluster size and file size.

A power cut puts an earlier state of the volume in place of the present one, and the
volume is then mounted and used again. So what an operation relies on must hold of what
is *saved* at each of its steps. That is `Solid`: chains from the entries share no
cluster, and a listed file that does not lead to a free cluster has as many clusters as
its size needs, with its own bytes. `VolumeInv` adds

- `Chained`: the same of the volume with the open files, whose first cluster may not be
  in their entry yet (`Fits`), and the cursors (`Laid`);
- `Removals`: which entries may lead to free clusters, on the disk and in the volume;
- `Jobs`: what the operation in progress can count on. The cluster that was taken and not
  yet linked, or the rest of the chain that is being freed, is `Loose`: in use, nobody's
  successor and nobody's first;
- `Flags`: what the FileSystem knows of the dirty flag and of the count on the disk;
- `DownIs`: without a FileSystem nothing is in memory and nothing unsaved.

`Nth` follows a chain by recursion. What is needed of it is proved without induction
over data: a walk of any length exists and two walks agree, or there would be a least
place where they do not (`WalkExists`, `WalksAgree`); from that, a chain changes only if a
link on it does (`NthKept`), and chains with different heads stay disjoint
(`ChainsDisjoint`). `Volume_chains` has these lemmas, the frame lemmas (which conjunct a
write to the table, the directory, the data, the flag or the count can touch) and the
steps that leave data and chains alone, `Volume_proofs` those that write data and take,
link or free clusters, and the theorems.
`VolumeAssumption` says that the clusters are finite, that the marks of the
model are not clusters and `Blank` is not a name, and that a cluster has at least a byte.

### The heap

`Heap_proofs` proves the five properties of the run `heap` (`HeapPagesApart`,
`HeapChunksOnce`, `HeapListsExact`, `HeapUsageLeadsHome`, and the action property
`HeapJoinedOnTheLeft`) and the types (`HeapTypes`), for any number of pages, size classes,
chunks per zone (at least two) and zones kept, and for every word a region can hold.

The properties hold each other up. `free` trusts `PAGE_USAGE_ARRAY` to find a zone, so
the marks must be right (`ZonesMarked`, `RegionsMarked`), and they stay right because
areas share no page (`Apart`) and `free` clears only its own. `page_alloc` takes pages
that nobody has for the same reason. A zone goes back to the pages only when it is in no
list and has no chunk in use, which `ListsExact` and `ChunksOnce` give together with
`ChunksInZones`, `SpareInZones` and `ZonesTouched` (a zone has a class and has given out
a chunk). `HeapInv` is all of these. The extents need not be in the order of their
addresses: a word that is too large makes `page_free` insert pages behind extents that
lie after them, so nothing about the order is in the invariant. The pages and regions
are as `HeapInv` says until `page_free` is misled; the zones and marks are right
afterwards too, as the model stops there: `IInv` is `ZonesOK /\ MarksOK /\ (~misled =>
HeapInv)`.

`FreeFacts` covers what `page_free` may do with any of the words it may find: either the
pages become part of one extent, which takes the place of those it is joined with
(`Joins`), or no extent ends where they begin and they are lost (`Lost`). From that
`JoinAreas` derives that areas stay apart, and `LostJoined` the action property.
`UseZoneKeeps`, `MallocChunkKeeps`, `FreedStays` and `FreedReleases` are the same for
the zones. `HeapAssumption` asks for two pages, one of which is the array's, and for
zones with a page and two chunks. With one chunk per zone `free` would never see an
empty zone; the code's sizes give at least three (`SizesSound`).

### Only model-checked

All liveness (`ReadyRuns`, `WaitReturns`, `DriverReturns`), as fairness and `ENABLED`
are beyond the prover. `SizesSound` is a fact about the constants that TLC evaluates for
every size. An induction over data is possible only where it can be put as the least
element of a set of numbers (`LeastNumber` in `Files_proofs`, `Volume_chains` and
`Heap_proofs`), as no installed prover can instantiate the library's induction theorems.

## What is left out of the modelled parts

- *Memory:* frames of page tables and kernel stacks are not counted, so
  `frame_alloc` fails later than it would in the kernel. The page table is flat.
  A `BTreeMap` lookup by range is containment. `brk` below the
  start of the data area is not modelled. `mprotect` changes nothing in the code.
- *Trap:* general registers; exceptions that panic.
- *Tasks:* deadlines and the order of callbacks; the kernel process's own list of
  exited children, which nobody reads; CPU times. `Running` is a status the
  code never sets. `wait4` without children waits for ever, as in the code.
- *Pipe:* descriptor numbers; `EPIPE`, which changes nothing.
- *Files:* contents of files, permissions, working directories; which string
  `normalize_path` returns (only that a file has several); the file's size stands for
  its bytes. A file is unlinked only while it is closed; `Volume` has the other case.
- *SdCard:* pins, clocks, DMA and checksums; the multi-sector commands, which nothing
  calls. A sector is written whole or not at all. *BlockCache:* `SeekFrom::End`, which
  the code leaves unimplemented.
- *Volume:* dates, attributes, the second copy of the table, what is inside
  subdirectories (they are created and removed), a directory that grows, `truncate` and
  `rename`, which the kernel never calls. A cluster's contents are the name of the file
  they were written for.
- *Heap:* addresses inside a page; the lists' nodes, which lie in the free memory
  itself, are elements of sequences.

## Not modelled

The page-table walk, program headers and initial stacks (only what they map is
modelled), the system call dispatch, boards, console, logging and start-up, the
virtio driver (calls of an external crate), `vendor/algorithm` apart from the
scheduler, and the libraries `core_io` and `byteorder_core_io`. They are
initialisation, output, tables and traits without state of their own.

`k210-pac`, `k210-hal` and `k210-soc` make up most of the repository by size:
`k210-pac` alone has 46 130 of some 71 000 lines, generated from a register
description, and `core_io` and `byteorder_core_io` another 3 800 of copied
library code. None of it has behaviour beyond reads and writes of registers and
trait definitions. The modules here cover the state-changing code of
`kernel/src` and of `fatfs`, which is a small share of all lines; `map` covers
only lines a definition translates.

## Plan

1. `Volume` on top of `FlatDisk` instead of its own copy of what a power cut
   leaves.
2. `Timer`: the deadline order of `Timer::register` and `expire`, two callbacks
   with one deadline.
3. The three-level page table refining the flat one of `AddressSpace`;
   `alloc_user_area`'s loop against `IsUserArea`.
4. Lock guards dropped out of order and the SIE they restore.
