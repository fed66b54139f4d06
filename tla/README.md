# TLA+ models of this xv6 kernel

These modules cover four parts of this xv6 kernel, and TLC checks each of them
in bounded configurations:
- the physical-memory side: the core map and page allocator in
  `src/kernel/kalloc.c`, swapping to disk (`evictPage`, `swapPageIn`),
  copy-on-write fork (`src/kernel/proc.c`, `src/kernel/trap.c`) and the heap
  region of `src/kernel/vm.c`;
- the process side: the scheduler, sleep/wakeup, fork/exit/wait/kill and
  exec's effect on the process;
- the open-file table, pipes and the memory-mapped file region (`file.c`,
  `sysfile.c`);
- the crash consistency of file creation and writing (`fs.c`) under the crash
  injection of `bwrite` (`bio.c`).

## The system and how its parts interact

- **Core map and allocator** (`kalloc.c`). There is one `core_map` entry per
  physical page, holding `refCount`, the owning `pid` and the mapped `va`. The
  free list is threaded through the pages.
  - `kalloc` bumps `pages_in_use`/`free_pages` without the lock, then pops the
    list under `kmem.lock`.
  - When the list is empty, `kalloc` calls `evictPage` and then pops again
    *without checking for NULL*.
  - `kfree` drops one reference and only frees the page when none is left.
- **Swap store** (`kalloc.c`). `swap_core_map` has one entry per disk slot,
  with `in_use`, `refCount`, `pid` and `va`. `evictPage` works in this order:
  1. Choose a victim under the lock (`findPageToEvict`) and release the lock.
  2. Choose a free slot with no lock (`getFreeDiskPageIndex`).
  3. Write the page in eight `bwrite` calls. Each may sleep.
  4. Fill the slot entry.
  5. Walk every process-table slot's `mem_regions` and rewrite each entry
     naming the victim to "on disk, slot i".
  6. `kfree` the victim.

  `swapPageIn` is the reverse, run from the page-fault handler.
- **Address space, fault handler, fork, exit/wait.**
  - `sbrk` grows the heap with `allocuvm` and shrinks it with `deallocuvm`.
  - `fork` shares every page copy-on-write: it marks the entry `PTE_RO`, clears
    `PTE_W` and calls `inrementPageRefCount`. It then shares every open file
    with the child through `dupFile`.
  - `trap` copies a shared page on a write fault, or takes the page back when
    its count is 1. It swaps in a `PTE_DSK` entry.
  - `exit` works in this order:
    1. Wake the parent.
    2. Under `ptable.lock`, give the children to `initproc`.
    3. Close every open file, with the lock released.
    4. Become ZOMBIE.
  - `wait` either reaps a ZOMBIE child (freeing its page table with `freevm`
    and marking the slot UNUSED), returns -1 when there are no children, or
    sleeps on the process itself.
- **Scheduler** (`proc.c`, `trap.c`). There is one CPU in the models that
  check the process side. The timer interrupt calls `yield` wherever
  interrupts are on: in user mode, and in system-call code outside a spinlock.
  `sleep` and `wakeup` use channels under `ptable.lock`. `kill` marks the
  process and wakes it, and `trap` makes a killed process exit on its way to
  user mode.
- **Files and pipes** (`file.c`, `sysfile.c`). There is one global file table
  with reference counts.
  - `closeFile` releases the inode, or, for any other type, marks the pipe end
    closed, calls `closePipe` and wakes the readers.
  - A pipe has a `PIPE_SIZE` ring buffer with `readOffset`/`writeOffset`.
  - `readPipe` sleeps while the pipe is empty and its write end is open.
  - `writePipe` stores every byte without waiting for room.
  - `mmap(fd)` maps `oft[fd]->inode` at 2G when no region is mapped, and sets
    `mem_regions[MMAP]` and `mapped_file`. `munmap(fd)` undoes it when fd's
    inode is the mapped file. `fork` copies the region by looking up the
    parent's pte at 2G, and `exec` zeroes it. `allocproc` and `wait` never
    clear it, so a reused process slot keeps the last owner's region.
- **File system under crashes** (`fs.c`, `sysfile.c`, `bio.c`). With `crashn`
  armed, `bwrite` reboots the machine before it writes. `sys_open`'s
  write-ahead log calls (`log_start_tx`/`log_end_tx`) are commented out, so the
  log never runs. Consistency then rests on the order of the writes:
  1. the bitmap;
  2. the new dinode at the end of the inode file;
  3. the inode file's size;
  4. the root directory entry;
  5. the root's size;
  6. for each `write`, the data block and then the file's dinode.

The memory parts meet in `kalloc`. Any allocation (a fault, a grow, a COW
copy) may evict another process's page and sleep in disk I/O while holding no
lock. Other processes then run and change the very page tables and core-map
entries the evictor goes on to use. The process and file parts meet in `fork`
(which shares files), in `exit` (which closes them while other processes run)
and in the pipe channels that `sleep`/`wakeup` use.

## Modules

| Module | Models | State ↔ code |
|---|---|---|
| `CoreMap` | The core-map entries and free list, with the operations every caller shares: `CMInit` (mem_init), `Kfree`, `KallocPop`, `FindPageToEvict`, `AddPhyMemMap`, `RemovePhyMemMap` | `refCount`, `cmUser` (pid > 2), `cmVa`, `freelist`, `pagesInUse`, `freePages` |
| `KAlloc` | Concurrent kernel threads running `kalloc` step by step. Between calls, a thread frees a page (`Free`) or shares one (`Share`) | `kpc` = position in kalloc/evictPage, `kloc` = locals, `held` = the references each thread's page tables hold |
| `AbsAlloc` | The abstract pool the allocator promises: allocate a free page, share, release, reclaim | `free`, `refs` |
| `VM` | Whole processes on one or more CPUs: sbrk grow/shrink, user writes, swap-in and COW faults, kalloc with eviction, fork, exit, wait | `mem`/`disk` = page contents, `swapMap` = `swap_core_map`, `pte` = leaf entries of each process's heap, `heap` = heap size in pages, `pstate`/`pc`/`loc` = process state and kernel position, `expect` = ghost of what each process last wrote, `halt` = panic or undefined behaviour |
| `Proc` | Processes on one CPU with scheduler, timer yield, sleep/wakeup, fork, exit, wait, kill, exec and the system calls open, pipe, dup, close, read and write on pipes, mmap and munmap | `state`, `parent`, `chan`, `killed`, `oft`, `mapped_file` = `struct proc` fields; `mmapped` = `mem_regions[MMAP].start != 0`; `mmapPte` = what `walkpml4(pml4, 2G, 0)` finds: no page tables (`none`), a cleared pte (`clear`), the mapped file's page (`file`) or a present pte on physical address 0 (`pa0`); `pc`/`loc` = kernel position and locals; `file` = the global file table (`type`, `permissions`, `inode`, `pipe`, `refCount`); `pipe` = `struct pipe` with its offsets and flags (the bytes are abstracted away); `halt` = why the kernel stopped: a NULL dereference, or the panics "not enough memory", "remap" and "kfree" |
| `FsCrash` | lab5test_b run against sys_open's create path, namei/iload and writei, with a reboot before any bwrite | `bitmap`, `ino` (dinodes of the inode file), `dir` (root entries), `data` = the disk; `ifSize` = `icache.inodefile.size`; `pc`/`loc` = the test and the open file; `crashes` |
| `MCKAlloc`, `MCVM`, `MCProc`, `MCFsCrash` | Model values and small sets for the cfgs | |

`VM` splits each kernel path at the points where the code can sleep or give
up the CPU:
- `Kalloc` is followed by `EvictFind`, which chooses the victim and slot, copies
  the page and goes to sleep in `bwrite`.
- `ToDisk` ends the sleep. `EvictMeta` then fills the slot entry, rewrites the
  page tables and calls `kfree`. `KallocRetry` follows.
- `SwapFault` leads to `SwapIdx` and then to `FromDisk`, which ends the `bread`
  sleep. `SwapIn` runs after it.
- `CowFault` leads to `Kalloc`, then to `CowCopy`.
- `ForkBegin`, `ForkCopy` (one page per step) and `ForkDone` model fork.
- `Exit` is followed by `Reap`, `ReapPage` (one page per step) and `ReapDone`.

Every action covers the whole code path up to the next point where the process
may sleep or be preempted. A page is one model value in `Vals`, plus `Zero`
(the zeroed page from allocuvm) and `Junk` (kfree's memset 2). A PTE is a
record with the `P`, `W`, `RO` and `DSK` bits and the address field. The
address field holds a frame number or, on disk, a slot index, exactly as the
code overloads it.

**Scheduling in `VM`.** With `MultiCPU = FALSE`, a process runs kernel code
only while every other process is parked (`Parked`) or preemptible
(`Preemptible`):
- A process is parked in user mode, when dead or unused, or asleep in
  `bwrite`/`bread` inside eviction or swap-in.
- It is preemptible inside `fork` and inside `sbrk`'s grow path. System calls
  run with interrupts on, so `trap.c` 190-192 may yield there.
- Page faults use interrupt gates and are not preempted.

All the VM violations below occur on one CPU.

**`Proc`** splits each system call at the points where it can sleep or be
preempted:
- `ForkAlloc` is allocproc. `ForkFiles` is the rest of fork: the MMAP copy
  (`ForkMmap`), the parent, the files and RUNNABLE. `ForkMmapFail` is the
  return at `proc.c:226`, which leaves the EMBRYO allocated. `ForkNoMem` covers
  the out-of-memory returns. mappages never returns -1, so the failure branch
  after it (`proc.c:237-240`) is dead code: out of page-table pages, it
  panics (`ForkMmapNoMem`).
- fork's child gets a present pte on whatever address the parent's 2G pte
  holds (`ChildPte`). munmap, exec's freevm and wait's freevm free a present
  pte; a present pte on address 0 panics (`FreevmPanics`).
- `Mmap`, `Munmap` and `Exec` are one step each. mmap and munmap hold only the
  inode's sleeplock, and nothing else touches a process's region. Exec's ELF
  loading is a nondeterministic success; its late copyout failure keeps the
  old page table after the region was zeroed.
- `ExitStart` is the wakeup of the parent. It is followed by `ExitReparent`,
  then `ExitClose` (one file per step) and `ExitZombie`.
- `Wait` and `SysRead` may sleep, and `ReadAgain` is readPipe after a wakeup.
- `Sched` and `Yield` are the scheduler and the timer. `Kill` is kill.
- `SysOpen`, `SysPipe`, `SysDup`, `SysClose` and `SysWrite` each run under
  locks that exclude other processes, so each is one step.
- `CloseFile` and `ClosePipe` model closeFile and closePipe, as used by
  `SysClose` and `ExitClose`. Their error branches set `halt` where the code
  writes through a NULL pipe.

## Runs

| Run | Expect | What it shows |
|---|---|---|
| `kalloc_seq` | pass | With one thread, the free list is exact (`FreeListExact`) and kalloc/kfree/evict refine `AbsAlloc` (`PoolRefinement`) |
| `kalloc_share` | pass | With shared pages (refCount up to 2), the free list stays exact |
| `vm_swap` | pass | One process; 1 frame, 2 slots, 2 heap pages, 2 values. Every eviction and swap-in preserves contents (`MemoryIntegrity`). Core-map and swap reference counts equal the entries naming them (`RefCountExact`, `SlotRefExact`). No panic and no undefined behaviour (`NoCrash`) |
| `vm_cow` | pass | Fork with 4 frames, so nothing is evicted: parent and child stay isolated (`CowIsolation`) and intact, and every reference is counted |
| `vm_lost_write` | violation | The owner writes the victim during the bwrite sleep, and the write is lost |
| `vm_cow_evict` | violation | A COW fault's kalloc evicts the shared page and the sibling shrinks during the sleep. `remove_phy_mem_map` has cleared the va, so no entry is rewritten and the still-mapped page is freed and returned as the copy: the new writable copy and the old read-only COW entry share one frame |
| `proc` | pass | Two processes on one CPU; any sequence of two forks, exit, wait, kill, exec, pipe, dup, close, read and write (mmap/munmap only reach their NULL paths here: no inode exists). File reference counts equal the fd entries naming the file (`FileRefExact`). A pipe's `referenceCount` and `writeClosed` match its open files (`PipeRefExact`). A reader blocked on a pipe whose write end closes eventually returns (`ReaderReleased`, liveness) |
| `proc_mmap` | pass | No pipe page; an empty and a one-page file; three forks. open, close, dup, mmap, munmap, exec and fork's copy of the MMAP region, including its failure paths, keep `FileRefExact` |
| `proc_mmap_pa0` | violation | `NoFreePanic`: the process maps the one-page file and unmaps it; deallocuvm clears the pte but keeps the page tables. It then maps the empty file, which allocates nothing. fork's `walkpml4(.., 0)` returns the cleared pte and fork maps `PTE_ADDR(0)`, physical page 0, writable into the child (`proc.c:224-243`). When the child execs, freevm of its old page table meets a present pte on address 0 and panics "kfree" (`vm.c:369-370`). Twelve steps, two processes |
| `proc_killed` | violation | `KilledExits`: a child blocked in readPipe is killed; kill wakes it, the loop finds the pipe still empty and sleeps again without testing `killed`. The parent holds the write end and waits for the child, so neither runs again |
| `proc_lost_wakeup` | violation | `WaitReaps`: a child's exit wakes the parent, then a timer tick preempts it before it sets ZOMBIE. The parent scans, finds no zombie and sleeps. The child becomes ZOMBIE and no one wakes the parent again |
| `fs_crash` | pass | lab5test_b with up to three reboots, each before any bwrite of create or write. The disk always passes the test's check (`CrashConsistent`), and iload never reads a dinode past the inode file's in-memory size (`NoUB`). The regions of every dinode a create wrote, including dinodes leaked by a reboot, stay marked in the bitmap and pairwise distinct (`RegionsExclusive`): the bitmap block is written first, so no reboot lets a region be handed out twice. The write order alone makes file creation and block writes crash-safe; the log is never started in this build, and `log_recover` is never called |

Each module's type invariant `TypeOK` is checked in one run: `kalloc_seq`, `vm_swap`, `proc` and `fs_crash`. The other runs of the same module spend their properties on safety.

Every passing property has a mutant in `PROJECT.json`. Each mutant is a
plausible bug in the modelled code, such as a dropped guard, a missing
reference-count update, a skipped write, a missing wakeup or a missing
reload, and TLC finds it under the same cfg.

**Bounds.**
- Two heap pages and two values are the least that tell pages and writes apart.
- `vm_swap`'s single frame forces an eviction on every second-page access.
- In the violation runs, two frames and two slots with two processes are the
  least that let an evictor's victim belong to another process.
- `vm_cow` has four frames, so a fork (two pages per process) never needs to
  evict. This isolates COW from eviction; the combination is exercised by
  `vm_cow_evict`.
- `proc` uses 2 processes, 2 fds per process, 2 files, 1 pipe, up to 2 bytes
  through a pipe and 2 forks:
  - two files are the least for a pipe;
  - two fds let the table fill;
  - two forks give a child that can exit, be waited for, be killed and share
    a pipe, and a second child in the reaped slot.
- `proc_mmap` drops the pipe (which needs the second fd) for a second inode
  and a third fork. An empty file is the only way to map a region with no
  page, and three forks allow a fork into a reused slot followed by that
  child's own fork.

  Three processes (for reparenting to `initproc`) exceed 15 million states.
  `ExitReparent` still runs, with no children to move.
- `fs_crash` has 4 regions, so a region stays free after three leaked ones,
  and 3 blocks, as lab5test_b writes. `NoBootBlockWrite` (file data on
  blocks 0-2 once no region is left) fails with 2 regions and 2 reboots. No
  run checks it, because a test that creates files until the disk is full
  reaches the same branch without a crash.
- `MaxForks` and `MaxCrashes` bound process creation and reboots.

**Fairness.** Only `Proc` states liveness; `Fairness` in `Proc.tla`:
- The scheduler loops over the process table for ever, and the CPU is only
  free now and then. So `Sched(p)` is *strongly* fair: a process that is
  RUNNABLE whenever the CPU is free is eventually run.
- The timer interrupt fires periodically, so `Yield(p)` is weakly fair.
- A process running kernel code continues it, so `KernelStep(p)` (the rest of
  fork, exit, wait after a wakeup, readPipe after a wakeup, and the exit a
  kill forces) is strongly fair.
- Nothing obliges a user program to make a system call. User-level actions
  have no fairness, and a reader whose writer never writes may wait for ever.

`ReaderReleased` holds under these assumptions. `WaitReaps` and `KilledExits`
fail even under them: the lost wakeup and the killed reader's second sleep are
not fairness artefacts. A killed reader's writer is a user program, which need
not write again.

## Not modelled (see `PROJECT.json` components)

- Intermediate page-table levels and the allocation of their pages.
- The stack and code regions, and exec's loading of the ELF image.
- The bytes in a pipe. The properties checked depend only on the offsets. The
  overrun in writePipe (`file.c:254`) takes one process writing `PIPE_SIZE`+1
  bytes before a read, which a unit test reaches directly.
- Inode files beyond open and close in `Proc`. Their reads and writes go to
  the file system, which `FsCrash` models for one process at block
  granularity.
- The write-ahead log (never started in this build), `bget`/`brelse` and the
  buffer LRU, directories other than the root, and link counts.
- lab5test_b's progress file. `get_progress` runs before `crashn` arms the
  crash, so its writes cannot be interrupted. The test's deterministic crash
  point (`crashn = state`) is abstracted to "before any bwrite".
- Argument fetching and dispatch in `syscall.c`.

Hazards in those parts are listed in `PROJECT.json` with a note.

## Plan for later work

1. A run for the MMAP region left in a reused slot (`proc.c:374`). A child
   that maps a file and exits is reaped without the region being cleared. A
   later child forked into the slot by a process with no region keeps it,
   so its first mmap fails, against spec.md's "only a second map is an
   error". A run for the "remap" panic after a failed exec (`file.c:305`).
2. Three processes for wait's loop, which ignores `killed` (`proc.c:385`).
3. Runs with overlapping frame and slot numbers, for the address-field
   collisions at `kalloc.c:281` and `kalloc.c:371`.
4. `MultiCPU = TRUE` runs for the COW refCount race in `trap.c:143`.
5. A run again for `NoNullDeref` (mmap on a closed fd, and closeFile on
   the half-built files of sys_open's and sys_pipe's error paths). `Proc`
   still models these paths, but the run went to `proc_mmap_pa0`, because one
   system call reaches this bug.
