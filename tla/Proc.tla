-------------------------------- MODULE Proc --------------------------------
(***************************************************************************)
(* Processes, sleep/wakeup and the file layer of the kernel on one CPU:    *)
(* the scheduler and the timer's yield (proc.c, trap.c), fork's copy of    *)
(* the open-file table, exit, wait and kill (proc.c), the global file      *)
(* table and pipes (file.c) and the file-descriptor system calls           *)
(* (sysfile.c), and the memory-mapped file region (mmap and munmap in     *)
(* file.c, its copy in fork, its reset in exec).  Memory is modelled in VM; *)
(* here a process is its state, its parent, the channel it sleeps on, its  *)
(* open-file table and its MMAP region.                                    *)
(*                                                                         *)
(* A system call runs with interrupts on, so the timer may switch the      *)
(* process out wherever it holds no spinlock (Preemptible); the steps      *)
(* taken under ptable.lock, a pipe's lock or a file's sleeplock are        *)
(* atomic here.  Slot 1 is initproc, which never exits.                    *)
(***************************************************************************)
EXTENDS Integers, SequencesExt

CONSTANTS
  NPROC,      \* process-table slots 1..NPROC
  NOFILE,     \* open-file table entries per process, fds 0..NOFILE-1
  NFILE,      \* global file table entries 1..NFILE
  NPIPE,      \* pages kalloc can give openPipe, 1..NPIPE
  MaxBytes,   \* bound on a pipe's writeOffset
  MaxWrite,   \* bound on numBytes of one read or write
  MaxForks,   \* bound on fork calls
  Inodes,     \* the inodes sys_open finds
  InodeSize   \* inode -> its size in pages (0 for an empty file)

Procs == 1..NPROC
initproc == 1
Fds == 0..NOFILE-1
Files == 1..NFILE
PipeIds == 1..NPIPE
NULL == 0          \* an empty oft entry, a file without a pipe
NoProc == 0

(* fcntl.h modes and file.h types.                                         *)
O_RDONLY == 0
O_WRONLY == 1
FTYPE_INODE == 1
FTYPE_PIPE == 2

(* The channels a process sleeps on: its own proc (wait) or a pipe's      *)
(* readOffset (readPipe).                                                  *)
WaitChan(p) == <<"proc", p>>
PipeChan(pp) == <<"pipe", pp>>
NoChan == <<"none", 0>>

FreeFile == [type |-> 0, permissions |-> 0, inode |-> NULL, pipe |-> NULL, refCount |-> 0]

VARIABLES
  state,    \* proc.state
  parent,   \* proc.parent
  chan,     \* proc.chan
  killed,   \* proc.killed
  oft,      \* proc.oft: fd -> global file table index, or NULL
  pc,       \* where the process is in its system call
  loc,      \* the system call's locals
  file,     \* gftTable.globalFileTable
  pipe,     \* the pipes openPipe kalloc'd
  forks,    \* fork calls so far
  halt,     \* "none", or why the kernel stopped
  mmapped,  \* proc.mem_regions[MMAP].start # 0
  mapped_file, \* proc.mapped_file: an inode, or NULL
  mmapPte   \* what walkpml4(proc.pml4, 2G, 0) finds (PteStates)

mmapVars == <<mmapped, mapped_file, mmapPte>>
vars == <<state, parent, chan, killed, oft, pc, loc, file, pipe, forks, halt,
          mmapVars>>

(* The pte for 2G: "none" when its page tables do not exist (walkpml4     *)
(* returns 0), "clear" when they do and the pte is 0, "file" when present *)
(* on a page allocuvm gave the mapped file, "pa0" when present on         *)
(* physical address 0.                                                     *)
PteStates == {"none", "clear", "file", "pa0"}

NoLoc == [pipe |-> NULL, n |-> 0, child |-> NoProc]

Init ==
  /\ state = [p \in Procs |-> IF p = initproc THEN "runnable" ELSE "unused"]
  /\ parent = [p \in Procs |-> NoProc]
  /\ chan = [p \in Procs |-> NoChan]
  /\ killed = [p \in Procs |-> FALSE]
  /\ oft = [p \in Procs |-> [fd \in Fds |-> NULL]]
  /\ pc = [p \in Procs |-> "user"]
  /\ loc = [p \in Procs |-> NoLoc]
  /\ file = [f \in Files |-> FreeFile]
  /\ pipe = [pp \in PipeIds |-> [alloc |-> FALSE, readOffset |-> 0, writeOffset |-> 0,
               readClosed |-> 0, writeClosed |-> 0, referenceCount |-> 0]]
  /\ forks = 0
  /\ halt = "none"
  /\ mmapped = [p \in Procs |-> FALSE]
  /\ mapped_file = [p \in Procs |-> NULL]
  /\ mmapPte = [p \in Procs |-> "none"]

Running == {p \in Procs : state[p] = "running"}

(* wakeup1(chan): every process asleep on c becomes RUNNABLE.              *)
Wakeup(st, c) ==
  [q \in Procs |-> IF st[q] = "sleeping" /\ chan[q] = c THEN "runnable" ELSE st[q]]

(* The first free entry: openFile's scan of the file table, and           *)
(* getOpenFileDescriptor's scan of a process's oft.                       *)
FirstFree(S) == IF S = {} THEN NULL ELSE Min(S)
OpenFileSlot == FirstFree({f \in Files : file[f].refCount = 0})
GetFd(p) == IF \A fd \in Fds : oft[p][fd] # NULL THEN -1
            ELSE Min({fd \in Fds : oft[p][fd] = NULL})

(***************************************************************************)
(* closeFile (file.c 117-150) with closePipe (267-287): drop one reference;*)
(* the last one releases the inode, or marks the pipe end closed by the    *)
(* file's permissions, drops the pipe's reference, wakes its readers and   *)
(* kfree's the pipe when no end is left.  A file whose type is not         *)
(* FTYPE_INODE and whose pipe is NULL is written through a NULL pointer.   *)
(***************************************************************************)
(* Mutants: closePipe without the wakeup, or without the reference drop. *)
ClosePipeNoWakeup(pp, wr) ==
  LET rc == pipe[pp].referenceCount IN
  /\ pipe' = [pipe EXCEPT ![pp] = [@ EXCEPT !.writeClosed = IF wr THEN 1 ELSE @,
                 !.readClosed = IF wr THEN @ ELSE 1,
                 !.referenceCount = IF rc = 0 THEN 0 ELSE rc - 1, !.alloc = rc > 1]]
  /\ UNCHANGED state
ClosePipeNoRef(pp, wr) ==
  /\ pipe' = [pipe EXCEPT ![pp] = [@ EXCEPT !.writeClosed = IF wr THEN 1 ELSE @,
                                             !.readClosed = IF wr THEN @ ELSE 1]]
  /\ state' = Wakeup(state, PipeChan(pp))

ClosePipe(pp, wr) ==
  LET pi == [pipe[pp] EXCEPT !.writeClosed = IF wr THEN 1 ELSE @,
                             !.readClosed = IF wr THEN @ ELSE 1]
      rc == pi.referenceCount
  IN  /\ pipe' = [pipe EXCEPT ![pp] =
                    IF rc = 0 THEN pi
                    ELSE [pi EXCEPT !.referenceCount = rc - 1, !.alloc = rc - 1 > 0]]
      /\ state' = Wakeup(state, PipeChan(pp))

CloseFile(f) ==
  LET fl == file[f] IN
  CASE fl.refCount = 0 ->
         UNCHANGED <<file, pipe, state, halt>>
    [] fl.refCount > 1 ->
         /\ file' = [file EXCEPT ![f].refCount = @ - 1]
         /\ UNCHANGED <<pipe, state, halt>>
    [] fl.type = FTYPE_INODE ->
         /\ file' = [file EXCEPT ![f] = FreeFile]
         /\ UNCHANGED <<pipe, state, halt>>
    [] fl.pipe = NULL ->
         /\ file' = [file EXCEPT ![f].refCount = 0]
         /\ halt' = "null"
         /\ UNCHANGED <<pipe, state>>
    [] OTHER ->
         /\ ClosePipe(fl.pipe, fl.permissions = O_WRONLY)
         /\ file' = [file EXCEPT ![f] = FreeFile]
         /\ UNCHANGED halt

-----------------------------------------------------------------------------
(***************************************************************************)
(* The scheduler (proc.c 444-480) switches to a RUNNABLE process when the  *)
(* CPU is free; the timer interrupt (trap.c 190-192) makes the running     *)
(* process RUNNABLE again wherever interrupts are on: in user mode, and in *)
(* a system call between the sections it runs under a spinlock.           *)
(***************************************************************************)
Preemptible == {"user", "exitReparent", "exitClose", "forkFiles"}

(* Mutant: a scheduler that does not wait for the CPU to be free.          *)
SchedAny(p) ==
  /\ halt = "none"
  /\ state[p] = "runnable"
  /\ state' = [state EXCEPT ![p] = "running"]
  /\ UNCHANGED <<parent, chan, killed, oft, pc, loc, file, pipe, forks, halt>>
  /\ UNCHANGED mmapVars

Sched(p) ==
  /\ halt = "none"
  /\ Running = {}
  /\ state[p] = "runnable"
  /\ state' = [state EXCEPT ![p] = "running"]
  /\ UNCHANGED <<parent, chan, killed, oft, pc, loc, file, pipe, forks, halt>>
  /\ UNCHANGED mmapVars

Yield(p) ==
  /\ halt = "none"
  /\ state[p] = "running"
  /\ pc[p] \in Preemptible
  /\ state' = [state EXCEPT ![p] = "runnable"]
  /\ UNCHANGED <<parent, chan, killed, oft, pc, loc, file, pipe, forks, halt>>
  /\ UNCHANGED mmapVars

(* The process runs kernel code at its pc.                                 *)
Runs(p, at) == halt = "none" /\ state[p] = "running" /\ pc[p] = at

(* It enters a system call from user mode; trap() makes a killed process   *)
(* exit instead (trap.c 40-41).                                            *)
Syscall(p) == Runs(p, "user") /\ ~killed[p]

(* sleep(chan, lk): SLEEPING on chan, giving up the CPU.                    *)
Sleep(p, c) ==
  /\ state' = [state EXCEPT ![p] = "sleeping"]
  /\ chan' = [chan EXCEPT ![p] = c]

-----------------------------------------------------------------------------
(* fork 150-160 (allocproc): the first UNUSED slot becomes an EMBRYO.       *)
ForkAlloc(p) ==
  /\ Syscall(p)
  /\ forks < MaxForks
  /\ \E c \in Procs : state[c] = "unused"
  /\ LET c == Min({c \in Procs : state[c] = "unused"}) IN
     /\ state' = [state EXCEPT ![c] = "embryo"]
     /\ loc' = [loc EXCEPT ![p].child = c]
  /\ pc' = [pc EXCEPT ![p] = "forkFiles"]
  /\ forks' = forks + 1
  /\ UNCHANGED <<parent, chan, killed, oft, file, pipe, halt>>
  /\ UNCHANGED mmapVars

(***************************************************************************)
(* fork 219-245 copies the MMAP region: the parent's pte for its start is  *)
(* looked up with walkpml4(.., 0), which returns 0 when no page table for  *)
(* 2G exists (the file was empty, or the region is a stale one the slot   *)
(* kept), and fork then returns -1 with the child still an EMBRYO.        *)
(* Otherwise the child gets the region and mapped_file and mappages gives  *)
(* its fresh page table a pte for 2G.  Without a region the child keeps   *)
(* whatever region its slot had: neither allocproc nor wait clears it.     *)
(***************************************************************************)
MmapCopyFails(p) == mmapped[p] /\ mmapPte[p] = "none"

(* mappages gives the child a present pte on the address held in the     *)
(* parent's pte, present or not: a cleared pte gives physical address 0.   *)
ChildPte(p) == IF mmapPte[p] = "file" THEN "file" ELSE "pa0"

ForkMmap(p, c) ==
  /\ mmapped' = [mmapped EXCEPT ![c] = mmapped[p] \/ @]
  /\ mapped_file' = [mapped_file EXCEPT ![c] = IF mmapped[p] THEN mapped_file[p] ELSE @]
  /\ mmapPte' = [mmapPte EXCEPT ![c] = IF mmapped[p] THEN ChildPte(p) ELSE "none"]

(* Mutant: fork shares the files without dupFile.                          *)
ForkFilesNoDup(p) ==
  LET c == loc[p].child IN
  /\ Runs(p, "forkFiles")
  /\ ~MmapCopyFails(p)
  /\ ForkMmap(p, c)
  /\ parent' = [parent EXCEPT ![c] = p]
  /\ oft' = [oft EXCEPT ![c] = oft[p]]
  /\ state' = [state EXCEPT ![c] = "runnable"]
  /\ pc' = [pc EXCEPT ![p] = "user", ![c] = "user"]
  /\ loc' = [loc EXCEPT ![p] = NoLoc]
  /\ UNCHANGED <<chan, killed, file, pipe, forks, halt>>

(* fork 169-245 then 247-283: the memory is copied (in VM), the MMAP       *)
(* region is copied, the child's parent is set, every open file is shared  *)
(* with the child and dupFile'd, and the child becomes RUNNABLE.  dupFile  *)
(* fails only on a file with no reference, which an oft entry never names  *)
(* while the kernel runs (FileRefExact).                                   *)
ForkFiles(p) ==
  LET c == loc[p].child
      Dups(f) == Cardinality({fd \in Fds : oft[p][fd] = f})
  IN
  /\ Runs(p, "forkFiles")
  /\ ~MmapCopyFails(p)
  /\ ForkMmap(p, c)
  /\ parent' = [parent EXCEPT ![c] = p]
  /\ oft' = [oft EXCEPT ![c] = oft[p]]
  /\ file' = [f \in Files |-> [file[f] EXCEPT !.refCount = @ + Dups(f)]]
  /\ state' = [state EXCEPT ![c] = "runnable"]
  /\ pc' = [pc EXCEPT ![p] = "user", ![c] = "user"]
  /\ loc' = [loc EXCEPT ![p] = NoLoc]
  /\ UNCHANGED <<chan, killed, pipe, forks, halt>>

(* fork 225-227: the MMAP copy fails and fork returns -1; the EMBRYO, its  *)
(* kstack and its page table stay allocated.                               *)
ForkMmapFail(p) ==
  /\ Runs(p, "forkFiles")
  /\ MmapCopyFails(p)
  /\ pc' = [pc EXCEPT ![p] = "user"]
  /\ loc' = [loc EXCEPT ![p] = NoLoc]
  /\ UNCHANGED <<state, parent, chan, killed, oft, file, pipe, forks, halt,
                 mmapVars>>

(* fork 169-174, 189-210: setupkvm or a page-table walk of the copy fails *)
(* (out of memory).  The child is UNUSED again; its slot keeps whatever    *)
(* MMAP region it had.                                                     *)
ForkNoMem(p) ==
  LET c == loc[p].child IN
  /\ Runs(p, "forkFiles")
  /\ state' = [state EXCEPT ![c] = "unused"]
  /\ pc' = [pc EXCEPT ![p] = "user"]
  /\ loc' = [loc EXCEPT ![p] = NoLoc]
  /\ UNCHANGED <<parent, chan, killed, oft, file, pipe, forks, halt, mmapVars>>

(* fork 236: mappages never returns -1 (so 237-240 are dead code): when    *)
(* walkpml4 cannot kalloc a page-table page for the child it panics "not  *)
(* enough memory" (vm.c 113-116).                                          *)
ForkMmapNoMem(p) ==
  /\ Runs(p, "forkFiles")
  /\ mmapped[p] /\ ~MmapCopyFails(p)
  /\ halt' = "oom"
  /\ UNCHANGED <<state, parent, chan, killed, oft, pc, loc, file, pipe, forks, mmapVars>>

(***************************************************************************)
(* exit (proc.c 291-336): wake the parent first, then under ptable.lock    *)
(* give the children to initproc (waking it for a zombie among them),      *)
(* close the open files with the lock released, and only then become a    *)
(* ZOMBIE.  A killed process takes this path on its way to user mode.      *)
(***************************************************************************)
ExitStart(p) ==
  /\ Runs(p, "user")
  /\ p # initproc
  /\ state' = Wakeup(state, WaitChan(parent[p]))
  /\ pc' = [pc EXCEPT ![p] = "exitReparent"]
  /\ UNCHANGED <<parent, chan, killed, oft, loc, file, pipe, forks, halt>>
  /\ UNCHANGED mmapVars

Children(p) == {c \in Procs : state[c] # "unused" /\ parent[c] = p}

HasOpen(p) == \E fd \in Fds : oft[p][fd] # NULL

ExitReparent(p) ==
  LET st == IF \E c \in Children(p) : state[c] = "zombie"
            THEN Wakeup(state, WaitChan(initproc)) ELSE state
  IN
  /\ Runs(p, "exitReparent")
  /\ parent' = [c \in Procs |-> IF c \in Children(p) THEN initproc ELSE parent[c]]
  /\ IF HasOpen(p)
     THEN /\ state' = st
          /\ pc' = [pc EXCEPT ![p] = "exitClose"]
     ELSE /\ state' = [st EXCEPT ![p] = "zombie"]
          /\ pc' = [pc EXCEPT ![p] = "dead"]
  /\ UNCHANGED <<chan, killed, oft, loc, file, pipe, forks, halt>>
  /\ UNCHANGED mmapVars

ExitClose(p) ==
  LET fd == Min({i \in Fds : oft[p][i] # NULL}) IN
  /\ Runs(p, "exitClose")
  /\ HasOpen(p)
  /\ CloseFile(oft[p][fd])
  /\ oft' = [oft EXCEPT ![p][fd] = NULL]
  /\ UNCHANGED <<parent, chan, killed, pc, loc, forks>>
  /\ UNCHANGED mmapVars

ExitZombie(p) ==
  /\ Runs(p, "exitClose")
  /\ ~HasOpen(p)
  /\ state' = [state EXCEPT ![p] = "zombie"]
  /\ pc' = [pc EXCEPT ![p] = "dead"]
  /\ UNCHANGED <<parent, chan, killed, oft, loc, file, pipe, forks, halt>>
  /\ UNCHANGED mmapVars

(* freevm (vm.c 416-432) runs deallocuvm over 0..4G, which panics "kfree"  *)
(* on a present pte whose address is 0 (vm.c 368-370).                     *)
FreevmPanics(q) == mmapPte[q] = "pa0"

(***************************************************************************)
(* wait (proc.c 340-392), all under ptable.lock: reap the first ZOMBIE     *)
(* child, return -1 without children, or sleep on the process itself and   *)
(* scan again when woken.  Reaping frees the child's page table (freevm).  *)
(***************************************************************************)
Wait(p) ==
  LET zs == {c \in Children(p) : state[c] = "zombie"} IN
  /\ \/ Syscall(p)
     \/ Runs(p, "wait")
  /\ IF zs # {}
     THEN LET c == Min(zs) IN
          /\ halt' = IF FreevmPanics(c) THEN "kfree" ELSE halt
          /\ mmapPte' = [mmapPte EXCEPT ![c] = "none"]
          /\ state' = [state EXCEPT ![c] = "unused"]
          /\ parent' = [parent EXCEPT ![c] = NoProc]
          /\ chan' = [chan EXCEPT ![c] = NoChan]
          /\ killed' = [killed EXCEPT ![c] = FALSE]
          /\ pc' = [pc EXCEPT ![p] = "user", ![c] = "user"]
     ELSE IF Children(p) = {}
     THEN /\ pc' = [pc EXCEPT ![p] = "user"]
          /\ UNCHANGED <<state, parent, chan, killed, halt, mmapPte>>
     ELSE /\ Sleep(p, WaitChan(p))
          /\ pc' = [pc EXCEPT ![p] = "wait"]
          /\ UNCHANGED <<parent, killed, halt, mmapPte>>
  /\ UNCHANGED <<oft, loc, file, pipe, forks, mmapped, mapped_file>>

(* kill (proc.c 605-622): mark the process killed and wake it if asleep.   *)
Kill(p, q) ==
  /\ Syscall(p)
  /\ state[q] # "unused"
  /\ ~killed[q]
  /\ killed' = [killed EXCEPT ![q] = TRUE]
  /\ state' = [state EXCEPT ![q] = IF @ = "sleeping" THEN "runnable" ELSE @]
  /\ UNCHANGED <<parent, chan, oft, pc, loc, file, pipe, forks, halt>>
  /\ UNCHANGED mmapVars

-----------------------------------------------------------------------------
(* sys_open (sysfile.c 191-308) of an existing file, mode O_RDONLY: the    *)
(* inode is looked up, a file allocated and an fd taken.  With the oft     *)
(* full, closeFile drops the new file's only reference and, its type being *)
(* still 0, takes it for a pipe and writes through its NULL pipe.          *)
SysOpen(p, ip) ==
  LET f  == OpenFileSlot
      fd == GetFd(p)
  IN
  /\ Syscall(p)
  /\ f # NULL
  /\ IF fd = -1
     THEN /\ halt' = "null"
          /\ UNCHANGED <<oft, file>>
     ELSE /\ oft' = [oft EXCEPT ![p][fd] = f]
          /\ file' = [file EXCEPT ![f] = [type |-> FTYPE_INODE, permissions |-> O_RDONLY,
                                          inode |-> ip, pipe |-> NULL, refCount |-> 1]]
          /\ UNCHANGED halt
  /\ UNCHANGED <<state, parent, chan, killed, pc, loc, pipe, forks>>
  /\ UNCHANGED mmapVars

(***************************************************************************)
(* sys_pipe (sysfile.c 366-441) with openPipe (file.c 185-207): two files  *)
(* of type FTYPE_PIPE, two fds, a page for the pipe.  Every failure after  *)
(* the first file is allocated calls closeFile on a pipe file whose pipe   *)
(* is still NULL, and the kernel stops there.                              *)
(***************************************************************************)
SysPipe(p) ==
  LET f1   == OpenFileSlot
      f2   == FirstFree({f \in Files \ {f1} : file[f].refCount = 0})
      fd1  == GetFd(p)
      free == {fd \in Fds \ {fd1} : oft[p][fd] = NULL}
      pps  == {pp \in PipeIds : ~pipe[pp].alloc}
  IN
  /\ Syscall(p)
  /\ f1 # NULL
  /\ IF f2 = NULL \/ fd1 = -1 \/ free = {} \/ pps = {}
     THEN /\ halt' = "null"
          /\ UNCHANGED <<oft, file, pipe>>
     ELSE LET pp == Min(pps) IN
          /\ oft' = [oft EXCEPT ![p][fd1] = f1, ![p][Min(free)] = f2]
          /\ file' = [file EXCEPT
                        ![f1] = [type |-> FTYPE_PIPE, permissions |-> O_RDONLY,
                                 inode |-> NULL, pipe |-> pp, refCount |-> 1],
                        ![f2] = [type |-> FTYPE_PIPE, permissions |-> O_WRONLY,
                                 inode |-> NULL, pipe |-> pp, refCount |-> 1]]
          /\ pipe' = [pipe EXCEPT ![pp] = [@ EXCEPT !.alloc = TRUE, !.readOffset = 0,
                        !.writeOffset = 0, !.readClosed = 0, !.writeClosed = 0,
                        !.referenceCount = 2]]
          /\ UNCHANGED halt
  /\ UNCHANGED <<state, parent, chan, killed, pc, loc, forks>>
  /\ UNCHANGED mmapVars

(* sys_dup (sysfile.c 28-50) with dupFile (file.c 156-166).                *)
SysDup(p, fd) ==
  LET nfd == GetFd(p) IN
  /\ Syscall(p)
  /\ oft[p][fd] # NULL
  /\ nfd # -1
  /\ oft' = [oft EXCEPT ![p][nfd] = oft[p][fd]]
  /\ file' = [file EXCEPT ![oft[p][fd]].refCount = @ + 1]
  /\ UNCHANGED <<state, parent, chan, killed, pc, loc, pipe, forks, halt>>
  /\ UNCHANGED mmapVars

(* sys_close (sysfile.c 124-140): the entry is cleared, then closeFile.     *)
SysClose(p, fd) ==
  /\ Syscall(p)
  /\ oft[p][fd] # NULL
  /\ oft' = [oft EXCEPT ![p][fd] = NULL]
  /\ CloseFile(oft[p][fd])
  /\ UNCHANGED <<parent, chan, killed, pc, loc, forks>>
  /\ UNCHANGED mmapVars

(* The pipe file an fd of p names with the given permissions.              *)
PipeFd(p, fd, perm) ==
  /\ oft[p][fd] # NULL
  /\ file[oft[p][fd]].type = FTYPE_PIPE
  /\ file[oft[p][fd]].permissions = perm

(***************************************************************************)
(* sys_write to a pipe: writeFile (file.c 88-111) and writePipe (243-262). *)
(* Every byte is stored at writeOffset % PIPE_SIZE and writeOffset grows,  *)
(* with no check of how far it is ahead of readOffset; the readers are     *)
(* woken.  (writeClosed is 0 while the writer holds the write end.)  The   *)
(* bytes themselves are not modelled: only the offsets decide whether a    *)
(* reader sleeps, returns or is woken.                                     *)
(***************************************************************************)
SysWrite(p, fd, n) ==
  LET pp == file[oft[p][fd]].pipe
      w  == pipe[pp].writeOffset
  IN
  /\ Syscall(p)
  /\ PipeFd(p, fd, O_WRONLY)
  /\ w + n <= MaxBytes
  /\ pipe' = [pipe EXCEPT ![pp].writeOffset = w + n]
  /\ state' = Wakeup(state, PipeChan(pp))
  /\ UNCHANGED <<parent, chan, killed, oft, pc, loc, file, forks, halt>>
  /\ UNCHANGED mmapVars

(* readPipe 230-236: take up to n of the bytes between readOffset and      *)
(* writeOffset.                                                            *)
ReadBytes(pp, n) ==
  LET r == pipe[pp].readOffset IN
  pipe' = [pipe EXCEPT ![pp].readOffset = r + Min({n, pipe[pp].writeOffset - r})]

Empty(pp) == pipe[pp].readOffset = pipe[pp].writeOffset /\ pipe[pp].writeClosed = 0

(***************************************************************************)
(* sys_read from a pipe: readFile (file.c 59-83) and readPipe (213-237),   *)
(* under the pipe's lock.  While the pipe is empty and its write end open  *)
(* the reader sleeps on readOffset and tests again when woken; killed and  *)
(* readClosed are only tested on entry.  (readClosed is 0 while the reader *)
(* holds the read end, and Syscall excludes a killed caller.)              *)
(***************************************************************************)
SysRead(p, fd, n) ==
  LET pp == file[oft[p][fd]].pipe IN
  /\ Syscall(p)
  /\ PipeFd(p, fd, O_RDONLY)
  /\ IF Empty(pp)
     THEN /\ Sleep(p, PipeChan(pp))
          /\ pc' = [pc EXCEPT ![p] = "read"]
          /\ loc' = [loc EXCEPT ![p] = [NoLoc EXCEPT !.pipe = pp, !.n = n]]
          /\ UNCHANGED <<pipe>>
     ELSE /\ ReadBytes(pp, n)
          /\ UNCHANGED <<state, chan, pc, loc>>
  /\ UNCHANGED <<parent, killed, oft, file, forks, halt>>
  /\ UNCHANGED mmapVars

ReadAgain(p) ==
  LET pp == loc[p].pipe IN
  /\ Runs(p, "read")
  /\ IF Empty(pp)
     THEN /\ Sleep(p, PipeChan(pp))
          /\ UNCHANGED <<pipe, pc, loc>>
     ELSE /\ ReadBytes(pp, loc[p].n)
          /\ pc' = [pc EXCEPT ![p] = "user"]
          /\ loc' = [loc EXCEPT ![p] = NoLoc]
          /\ UNCHANGED <<state, chan>>
  /\ UNCHANGED <<parent, killed, oft, file, forks, halt>>
  /\ UNCHANGED mmapVars

-----------------------------------------------------------------------------
(***************************************************************************)
(* sys_mmap (sysfile.c 472-480) with mmap (file.c 292-323): sys_mmap only  *)
(* range-checks fd, and mmap reads oft[fd]->inode and locks it unchecked:  *)
(* an empty entry or a pipe file (inode NULL) is a NULL dereference.  With  *)
(* a region already mapped it returns -1; otherwise allocuvm maps the      *)
(* file's pages at 2G (none for an empty file), loaduvm fills them and the *)
(* region and mapped_file are set.  mappages panics "remap" on a pte still *)
(* present at 2G (vm.c 117-118).  (allocuvm out of memory returns -1      *)
(* with nothing mapped.)                                                   *)
(***************************************************************************)
Mmap(p, fd) ==
  LET f == oft[p][fd] IN
  /\ Syscall(p)
  /\ ~mmapped[p]
  /\ IF f = NULL \/ file[f].inode = NULL
     THEN /\ halt' = "null"
          /\ UNCHANGED mmapVars
     ELSE /\ mmapped' = [mmapped EXCEPT ![p] = TRUE]
          /\ mapped_file' = [mapped_file EXCEPT ![p] = file[f].inode]
          /\ IF InodeSize[file[f].inode] = 0
             THEN UNCHANGED <<mmapPte, halt>>
             ELSE IF mmapPte[p] \in {"file", "pa0"}
             THEN /\ halt' = "remap"
                  /\ UNCHANGED mmapPte
             ELSE /\ mmapPte' = [mmapPte EXCEPT ![p] = "file"]
                  /\ UNCHANGED halt
  /\ UNCHANGED <<state, parent, chan, killed, oft, pc, loc, file, pipe, forks>>

(* sys_munmap (sysfile.c 490-498) with munmap (file.c 329-350): an empty   *)
(* entry is read through; if fd's inode is the mapped file and a region is *)
(* mapped, deallocuvm frees its pages, none for an empty file (the page   *)
(* tables stay; a present pte on address 0 panics "kfree") and the         *)
(* region and mapped_file are cleared; otherwise munmap returns -1.        *)
Munmap(p, fd) ==
  LET f == oft[p][fd] IN
  /\ Syscall(p)
  /\ \/ /\ f = NULL
        /\ halt' = "null"
        /\ UNCHANGED mmapVars
     \/ /\ f # NULL
        /\ mapped_file[p] = file[f].inode
        /\ mmapped[p]
        /\ mmapped' = [mmapped EXCEPT ![p] = FALSE]
        /\ mapped_file' = [mapped_file EXCEPT ![p] = NULL]
        /\ IF InodeSize[mapped_file[p]] > 0 /\ FreevmPanics(p)
           THEN halt' = "kfree" /\ UNCHANGED mmapPte
           ELSE /\ mmapPte' = [mmapPte EXCEPT ![p] =
                                IF InodeSize[mapped_file[p]] > 0 /\ @ = "file" THEN "clear" ELSE @]
                /\ UNCHANGED halt
  /\ UNCHANGED <<state, parent, chan, killed, oft, pc, loc, file, pipe, forks>>

(* exec (exec.c 62-146) once the program is loaded: the MMAP region is     *)
(* zeroed (92-94).  If copying the arguments out fails (114-131) exec      *)
(* returns -1 still on the old page table; otherwise the new page table,   *)
(* which has nothing at 2G, replaces it and the old one is freevm'd       *)
(* (145).  mapped_file is left as it was.                                  *)
Exec(p) ==
  /\ Syscall(p)
  /\ mmapped' = [mmapped EXCEPT ![p] = FALSE]
  /\ \/ /\ halt' = IF FreevmPanics(p) THEN "kfree" ELSE halt
        /\ mmapPte' = [mmapPte EXCEPT ![p] = "none"]
     \/ UNCHANGED <<mmapPte, halt>>
  /\ UNCHANGED <<state, parent, chan, killed, oft, pc, loc, file, pipe, forks,
                 mapped_file>>

-----------------------------------------------------------------------------
(* Steps of a process inside the kernel, which it takes whenever it has   *)
(* the CPU: the rest of a system call, and the exit a kill forces.         *)
KernelStep(p) ==
  \/ ForkFiles(p) \/ ForkMmapFail(p) \/ ForkNoMem(p) \/ ForkMmapNoMem(p)
  \/ ExitReparent(p) \/ ExitClose(p) \/ ExitZombie(p)
  \/ Runs(p, "wait") /\ Wait(p)
  \/ ReadAgain(p)
  \/ killed[p] /\ ExitStart(p)

Next ==
  \E p \in Procs :
    \/ Sched(p) \/ Yield(p) \/ KernelStep(p)
    \/ ForkAlloc(p) \/ ExitStart(p) \/ Wait(p) \/ SysPipe(p) \/ Exec(p)
    \/ \E ip \in Inodes : SysOpen(p, ip)
    \/ \E q \in Procs : Kill(p, q)
    \/ \E fd \in Fds :
         \/ SysDup(p, fd) \/ SysClose(p, fd) \/ Mmap(p, fd) \/ Munmap(p, fd)
         \/ \E n \in 1..MaxWrite :
              \/ SysRead(p, fd, n)
              \/ SysWrite(p, fd, n)

(***************************************************************************)
(* Fairness.  The scheduler loops over the whole table, so a process that  *)
(* is RUNNABLE whenever the CPU is free is eventually run (strong, as the  *)
(* CPU is only free now and then); the timer eventually interrupts a       *)
(* process that can be preempted; a process in the kernel goes on with its *)
(* code whenever it has the CPU.  Nothing obliges a user program to make a *)
(* system call.                                                            *)
(***************************************************************************)
Fairness ==
  \A p \in Procs :
    /\ SF_vars(Sched(p))
    /\ WF_vars(Yield(p))
    /\ SF_vars(KernelStep(p))

Spec == Init /\ [][Next]_vars /\ Fairness

-----------------------------------------------------------------------------
TypeOK ==
  /\ state \in [Procs -> {"unused", "embryo", "sleeping", "runnable", "running", "zombie"}]
  /\ parent \in [Procs -> Procs \cup {NoProc}]
  /\ killed \in [Procs -> BOOLEAN]
  /\ oft \in [Procs -> [Fds -> Files \cup {NULL}]]
  /\ pc \in [Procs -> {"user", "forkFiles", "exitReparent", "exitClose", "dead", "wait", "read"}]
  /\ file \in [Files -> [type : {0, FTYPE_INODE, FTYPE_PIPE}, permissions : {O_RDONLY, O_WRONLY},
                         inode : Inodes \cup {NULL}, pipe : PipeIds \cup {NULL}, refCount : Nat]]
  /\ mmapped \in [Procs -> BOOLEAN]
  /\ mapped_file \in [Procs -> Inodes \cup {NULL}]
  /\ mmapPte \in [Procs -> PteStates]
  /\ \A pp \in PipeIds : pipe[pp].referenceCount \in 0..2
  /\ Cardinality(Running) <= 1
  /\ halt \in {"none", "null", "oom", "remap", "kfree"}

(* The open-file-table entries naming file f, of processes not yet reaped. *)
Refs(f) == {<<p, fd>> \in Procs \X Fds : state[p] # "unused" /\ oft[p][fd] = f}

(***************************************************************************)
(* A file's refCount is the number of oft entries naming it: fork's        *)
(* dupFile of each entry, sys_dup, sys_close and exit's closeFile of each  *)
(* entry keep the two in step.  A count above leaks the file, one below    *)
(* frees it while an fd still names it.                                    *)
(***************************************************************************)
FileRefExact ==
  \A f \in Files : file[f].refCount = Cardinality(Refs(f))

(* The open files of pipe pp, and those of its write end.                  *)
PipeFiles(pp) == {f \in Files : file[f].refCount > 0 /\ file[f].type = FTYPE_PIPE
                                /\ file[f].pipe = pp}
Writers(pp) == {f \in PipeFiles(pp) : file[f].permissions = O_WRONLY}

(***************************************************************************)
(* A pipe is allocated exactly while a file names it; its referenceCount   *)
(* counts those files, and writeClosed is set exactly when no write end is *)
(* open.  closeFile's last close of each end and closePipe's kfree keep    *)
(* these; a reader trusts writeClosed to stop waiting.                     *)
(***************************************************************************)
PipeRefExact ==
  \A pp \in PipeIds :
    IF pipe[pp].alloc
    THEN /\ pipe[pp].referenceCount = Cardinality(PipeFiles(pp))
         /\ pipe[pp].writeClosed = 1 <=> Writers(pp) = {}
    ELSE PipeFiles(pp) = {}

(***************************************************************************)
(* A reader asleep in readPipe whose pipe's write end has been closed      *)
(* eventually returns (unless the kernel stops): the last close of the     *)
(* write end sets writeClosed and closePipe wakes the readers.             *)
(***************************************************************************)
ReaderReleased ==
  \A p \in Procs :
    (pc[p] = "read" /\ pipe[loc[p].pipe].writeClosed = 1)
      ~> (pc[p] # "read" \/ halt # "none")

(***************************************************************************)
(* A parent in wait with a zombie child eventually returns from wait: the  *)
(* child's exit wakes it.  exit calls wakeup before it sets ZOMBIE, so a   *)
(* parent that scans in between sleeps again and is not woken.             *)
(***************************************************************************)
WaitReaps ==
  \A p \in Procs :
    (pc[p] = "wait" /\ \E c \in Children(p) : state[c] = "zombie")
      ~> (pc[p] # "wait" \/ halt # "none")

(***************************************************************************)
(* The kernel never dereferences a NULL pointer: closeFile is only called  *)
(* on a file whose pipe is set or whose type is FTYPE_INODE, and mmap and  *)
(* munmap only follow oft[fd] and its inode when they are set.  The error  *)
(* paths of sys_open and sys_pipe close files that are neither, and        *)
(* sys_mmap and sys_munmap pass any fd in range.                           *)
(***************************************************************************)
NoNullDeref == halt = "none"

(***************************************************************************)
(* A killed process other than initproc eventually exits (unless the       *)
(* kernel stops): kill only sets killed and wakes a sleeper, trusting the  *)
(* process to reach trap's exit on its way back to user mode.  readPipe's  *)
(* loop sleeps again without testing killed, and an EMBRYO that fork gave  *)
(* up on never runs.                                                       *)
(***************************************************************************)
KilledExits ==
  \A p \in Procs \ {initproc} :
    (killed[p] /\ state[p] # "unused")
      ~> (state[p] \in {"zombie", "unused"} \/ halt # "none")

(***************************************************************************)
(* The kernel never panics in kfree: every present pte that deallocuvm     *)
(* meets (munmap, exec's and wait's freevm) maps a page kalloc handed out.  *)
(* fork's MMAP copy takes PTE_ADDR of whatever pte walkpml4 returns for 2G; *)
(* after a munmap has cleared it and an empty file has been mapped (which  *)
(* allocates nothing), that is address 0, and the child's copy is freed    *)
(* when the child is reaped.                                               *)
(***************************************************************************)
NoFreePanic == halt # "kfree"
====
