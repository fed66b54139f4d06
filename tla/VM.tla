--------------------------------- MODULE VM ---------------------------------
(***************************************************************************)
(* User virtual memory over the core map: the heap of each process         *)
(* (sbrk: allocuvm / deallocuvm), copy-on-write fork, the page-fault       *)
(* handler of trap.c (COW copy and swap-in), page eviction to the swap     *)
(* area (evictPage / swapPageIn of kalloc.c), exit and the reaping of a    *)
(* zombie by wait (freevm).                                                *)
(*                                                                         *)
(* Every process runs one kernel thread whose position is pc[p].  With     *)
(* MultiCPU = FALSE the model is the uniprocessor kernel: another thread   *)
(* runs only while this one sleeps (the disk transfers of evictPage and    *)
(* swapPageIn) or is preempted by the timer (trap.c 190-192), which can    *)
(* happen in a system call but not in the page-fault handler, entered      *)
(* with interrupts off.  With MultiCPU = TRUE any thread may step.         *)
(*                                                                         *)
(* The heap is the pages 1..heap[p] of VAddrs; code, stack and mmap        *)
(* regions and the page-table pages themselves are not modelled.           *)
(***************************************************************************)
EXTENDS CoreMap

CONSTANTS
  Procs,       \* process-table slots
  InitProcs,   \* slots running a process at boot
  Vals,        \* values a user program writes into a page
  Zero,        \* a page filled by memset(mem, 0, PGSIZE)
  Junk,        \* a page filled by kfree's memset(v, 2, PGSIZE)
  MaxHeap,     \* pages a heap may grow to
  MaxForks,    \* bound on fork calls
  MultiCPU     \* kernel threads interleave freely (several CPUs)

ASSUME VAddrs = 1..MaxHeap
ASSUME InitProcs \subseteq Procs
ASSUME 0 \notin PageNums   \* 0 is the address field of an empty entry
ASSUME MultiCPU \in BOOLEAN

Data == Vals \cup {Zero, Junk}

NoSlot == -1

(* A page-table entry: the bits PTE_P, PTE_W, PTE_RO, PTE_DSK and the      *)
(* address field (a frame number, or a swap index when PTE_DSK is set).    *)
Pte == [p : BOOLEAN, w : BOOLEAN, ro : BOOLEAN, dsk : BOOLEAN,
        addr : PageNums \cup {0}]
ZeroPte == [p |-> FALSE, w |-> FALSE, ro |-> FALSE, dsk |-> FALSE, addr |-> 0]

(* swap_core_map[i]: in_use, refCount, and pid > 2 and va of the page.    *)
SwapEntry == [inUse : BOOLEAN, ref : Int, user : BOOLEAN, va : VAddrs \cup {NoVa}]
FreeSwap == [inUse |-> FALSE, ref |-> 0, user |-> FALSE, va |-> NoVa]

VARIABLES
  mem,       \* contents of each physical page
  disk,      \* contents of each swap slot
  swapMap,   \* swap_core_map
  pte,       \* pte[p][v]: the leaf entry of process p for page v
  heap,      \* mem_regions[HEAP].size in pages
  pstate,    \* proc.state
  pc,        \* where each process's kernel thread is
  loc,       \* that thread's locals
  expect,    \* ghost: the value process p last stored at v
  forks,     \* fork calls so far
  halt       \* "none", or the reason the kernel stopped

vmVars == <<mem, disk, swapMap, pte, heap, pstate, pc, loc, expect, forks, halt>>
vars == <<cmVars, vmVars>>

NoLoc == [op |-> "none", ret |-> "none", va |-> 1, pa |-> 0, frame |-> 0,
          victim |-> NoFrame, slot |-> NoSlot, child |-> "none", next |-> 1]

Init ==
  /\ CMInit
  /\ mem = [f \in Frames |-> Junk]
  /\ disk = [s \in Slots |-> Junk]
  /\ swapMap = [s \in Slots |-> FreeSwap]
  /\ pte = [p \in Procs |-> [v \in VAddrs |-> ZeroPte]]
  /\ heap = [p \in Procs |-> 0]
  /\ pstate = [p \in Procs |-> IF p \in InitProcs THEN "running" ELSE "unused"]
  /\ pc = [p \in Procs |-> IF p \in InitProcs THEN "user" ELSE "none"]
  /\ loc = [p \in Procs |-> NoLoc]
  /\ expect = [p \in Procs |-> [v \in VAddrs |-> Zero]]
  /\ forks = 0
  /\ halt = "none"

(* A thread not running kernel code: in user mode, exited, unused, or     *)
(* asleep in a disk transfer.                                              *)
Parked == {"user", "dead", "none", "evSleep", "swSleep"}

(* A thread inside a system call with interrupts on and no spinlock held:  *)
(* the fork loop and the sbrk path through allocuvm and kalloc.  The timer *)
(* may switch it out there.                                                *)
Preemptible(q) ==
  \/ pc[q] = "fork"
  \/ loc[q].op = "grow" /\ pc[q] \in {"kalloc", "evFind", "kretry", "growMap"}

(* On one CPU a thread runs only while every other thread is parked or     *)
(* preempted.                                                              *)
Can(p) ==
  /\ halt = "none"
  /\ MultiCPU \/ \A q \in Procs \ {p} : pc[q] \in Parked \/ Preemptible(q)

Goto(p, from, to) ==
  /\ pc[p] = from
  /\ pc' = [pc EXCEPT ![p] = to]

Panic(why) ==
  /\ halt' = why
  /\ UNCHANGED <<cmVars, mem, disk, swapMap, pte, heap, pstate, pc, loc, expect, forks>>

(* The page-table walk of the evictPage / swapPageIn loops is sound for a *)
(* slot whose pml4 is live; an unused or embryo slot keeps mem_regions    *)
(* from its last occupant and a pml4 that is freed or not yet set.        *)
Walkable(q) == pstate[q] \in {"running", "zombie"}
InRegion(q, va) == va \in VAddrs /\ va <= heap[q]
StaleWalk(va) == \E q \in Procs : ~Walkable(q) /\ InRegion(q, va)

(* kfree of a frame, with kfree's junk fill when the page is released.    *)
KfreeMem(f) ==
  mem' = IF KfreeFrees(f) THEN [mem EXCEPT ![f] = Junk] ELSE mem

(* decrementSwapCoreMapEntryRefCount.                                      *)
SwapDecrement(s) ==
  swapMap' = [swapMap EXCEPT ![s] =
                IF @.ref - 1 <= 0 THEN FreeSwap ELSE [@ EXCEPT !.ref = @ - 1]]

(* getFreeDiskPageIndex: the first slot not in use.                        *)
FreeSlot ==
  IF \A s \in Slots : swapMap[s].inUse THEN NoSlot
  ELSE Min({s \in Slots : ~swapMap[s].inUse})

(* evictPage 248-255: the victim's page written block by block to the    *)
(* slot's eight disk blocks.                                              *)
WriteSwap(v, s) == disk' = [disk EXCEPT ![s] = mem[v]]

(* swapPageIn 345-350: the slot read back into the new page.              *)
ReadSwapSkipped(f, s) == UNCHANGED mem
ReadSwap(f, s) == mem' = [mem EXCEPT ![f] = disk[s]]

(* swapPageIn 381-391: the slot's swap_core_map entry is zeroed.          *)
ReleaseSlotSkipped(s) == UNCHANGED swapMap
ReleaseSlot(s) == swapMap' = [swapMap EXCEPT ![s] = FreeSwap]

(* inrementPageRefCount (kalloc.c 396-405).                               *)
IncrementRefSkipped(a) == UNCHANGED refCount
IncrementRef(a) == refCount' = [refCount EXCEPT ![a] = @ + 1]

(* trap.c 150: memmove of the shared page into the private copy.          *)
CopyPageSkipped(f, pa) == UNCHANGED mem
CopyPage(f, pa) == mem' = [mem EXCEPT ![f] = mem[pa]]

(* fork 199-201: the parent's entry loses PTE_W and gains PTE_RO.         *)
CowShareKeepW(e) == [e EXCEPT !.ro = TRUE]
CowShare(e) == [e EXCEPT !.w = FALSE, !.ro = TRUE]

-----------------------------------------------------------------------------
(***************************************************************************)
(* kalloc (kalloc.c 181-221) as called from allocuvm, the COW fault and    *)
(* swapPageIn; loc[p].op says which caller to return the page to.  The    *)
(* unlocked counter update is made together with the pop here; KAlloc      *)
(* models its race.                                                        *)
(***************************************************************************)
Resume(p, f) ==
  /\ pc' = [pc EXCEPT ![p] = CASE loc[p].op = "grow" -> "growMap"
                               [] loc[p].op = "cow"  -> "cowCopy"
                               [] OTHER              -> "swSleep"]
  /\ loc' = [loc EXCEPT ![p].frame = f]

Kalloc(p) ==
  /\ Can(p)
  /\ pc[p] = "kalloc"
  /\ KallocCount
  /\ \/ /\ \E f \in Frames : KallocPop(f) /\ Resume(p, f)
        /\ UNCHANGED <<cmUser, cmVa>>
     \/ /\ freelist = <<>>
        /\ pc' = [pc EXCEPT ![p] = "evFind"]
        /\ loc' = [loc EXCEPT ![p].ret = "kretry"]
        /\ UNCHANGED <<refCount, cmUser, cmVa, freelist>>
  /\ UNCHANGED <<mem, disk, swapMap, pte, heap, pstate, expect, forks, halt>>

(* kalloc 209-220: the retry after a successful eviction pops without a   *)
(* NULL check.                                                             *)
KallocRetry(p) ==
  /\ Can(p)
  /\ pc[p] = "kretry"
  /\ \/ /\ \E f \in Frames : KallocPop(f) /\ Resume(p, f)
        /\ UNCHANGED <<cmUser, cmVa, pagesInUse, freePages, halt>>
     \/ /\ freelist = <<>>
        /\ Panic("null")
  /\ UNCHANGED <<mem, disk, swapMap, pte, heap, pstate, expect, forks>>

(* kalloc returned 0 to its caller: sbrk returns -1 (allocuvm has no page *)
(* of this call to give back); the fault handler panics.                   *)
KallocFailed(p) ==
  IF loc[p].op = "grow"
  THEN /\ pc' = [pc EXCEPT ![p] = "user"]
       /\ loc' = [loc EXCEPT ![p] = NoLoc]
       /\ UNCHANGED <<cmVars, disk, halt>>
  ELSE Panic("oom")

(***************************************************************************)
(* evictPage (kalloc.c 230-294).  The victim is chosen by findPageToEvict *)
(* and the slot by getFreeDiskPageIndex; the page is copied out and the   *)
(* thread sleeps in bwrite before the slot is marked in use.              *)
(***************************************************************************)
EvictFind(p) ==
  LET v == FindPageToEvict
      s == FreeSlot
  IN
  /\ Can(p)
  /\ pc[p] = "evFind"
  /\ IF v = NoFrame \/ s = NoSlot
     THEN IF loc[p].ret = "kretry"
          THEN KallocFailed(p)
          ELSE Panic("oom")
     ELSE /\ pc' = [pc EXCEPT ![p] = "evSleep"]
          /\ loc' = [loc EXCEPT ![p].victim = v, ![p].slot = s]
          /\ WriteSwap(v, s)
          /\ UNCHANGED <<cmVars, halt>>
  /\ UNCHANGED <<mem, swapMap, pte, heap, pstate, expect, forks>>

(* The entry of a process that named the victim, now naming the slot.      *)
ToDisk(e, s) == [e EXCEPT !.p = FALSE, !.dsk = TRUE, !.addr = s]

(* evictPage 259-292, after bwrite: record the page in swap_core_map,      *)
(* rewrite every entry for the victim's va whose address field is the     *)
(* victim (PTE_P is not tested), and kfree the victim once.                *)
EvictMeta(p) ==
  LET v  == loc[p].victim
      s  == loc[p].slot
      va == cmVa[v]
  IN
  /\ Can(p)
  /\ pc[p] = "evSleep"
  /\ IF StaleWalk(va)
     THEN Panic("ub")
     ELSE /\ swapMap' = [swapMap EXCEPT ![s] = [inUse |-> TRUE, ref |-> refCount[v],
                                                user |-> cmUser[v], va |-> va]]
          /\ pte' = [q \in Procs |->
                       IF Walkable(q) /\ InRegion(q, va) /\ pte[q][va].addr = v
                       THEN [pte[q] EXCEPT ![va] = ToDisk(@, s)]
                       ELSE pte[q]]
          /\ Kfree(v)
          /\ KfreeMem(v)
          /\ pc' = [pc EXCEPT ![p] = loc[p].ret]
          /\ UNCHANGED <<disk, heap, pstate, loc, expect, forks, halt>>

(* The entry of a process that named the slot, now present at frame f:    *)
(* PTE_W is set whatever the entry's other flags (swapPageIn 372-374).    *)
FromDisk(e, f) == [e EXCEPT !.p = TRUE, !.w = TRUE, !.dsk = FALSE, !.addr = f]

(* swapPageIn 336: the swap index is read from the faulting entry after   *)
(* evictPage has run; an index past swap_core_map is undefined.           *)
SwapIdx(p) ==
  LET s == pte[p][loc[p].va].addr IN
  /\ Can(p)
  /\ pc[p] = "swapIdx"
  /\ IF s \notin Slots
     THEN Panic("ub")
     ELSE /\ pc' = [pc EXCEPT ![p] = "kalloc"]
          /\ loc' = [loc EXCEPT ![p].slot = s, ![p].op = "swapin"]
          /\ UNCHANGED <<cmVars, mem, disk, swapMap, pte, heap, pstate, expect, forks, halt>>

(* swapPageIn 345-392, after bread: copy the slot into the new frame, take *)
(* the core-map fields from swap_core_map, rewrite every entry for the     *)
(* faulting va whose address field equals the index (PTE_DSK is not        *)
(* tested), and release the slot.                                          *)
SwapIn(p) ==
  LET f  == loc[p].frame
      s  == loc[p].slot
      va == loc[p].va
  IN
  /\ Can(p)
  /\ pc[p] = "swSleep"
  /\ IF StaleWalk(va)
     THEN Panic("ub")
     ELSE /\ ReadSwap(f, s)
          /\ refCount' = [refCount EXCEPT ![f] = swapMap[s].ref]
          /\ cmUser' = [cmUser EXCEPT ![f] = swapMap[s].user]
          /\ cmVa' = [cmVa EXCEPT ![f] = swapMap[s].va]
          /\ pte' = [q \in Procs |->
                       IF Walkable(q) /\ InRegion(q, va) /\ pte[q][va].addr = s
                       THEN [pte[q] EXCEPT ![va] = FromDisk(@, f)]
                       ELSE pte[q]]
          /\ ReleaseSlot(s)
          /\ pc' = [pc EXCEPT ![p] = "user"]
          /\ loc' = [loc EXCEPT ![p] = NoLoc]
          /\ UNCHANGED <<freelist, pagesInUse, freePages, disk, heap, pstate,
                         expect, forks, halt>>

(* trap.c 145-155, after kalloc: drop the reference on the page read at    *)
(* line 140, copy it, and point the entry at the copy, keeping its flags.  *)
CowCopy(p) ==
  LET f  == loc[p].frame
      pa == loc[p].pa
      va == loc[p].va
  IN
  /\ Can(p)
  /\ pc[p] = "cowCopy"
  /\ refCount' = [refCount EXCEPT ![pa] = @ - 1]
  /\ CopyPage(f, pa)
  /\ pte' = [pte EXCEPT ![p][va] = [@ EXCEPT !.p = TRUE, !.w = TRUE, !.ro = FALSE,
                                             !.addr = f]]
  /\ AddPhyMemMap(f, va)
  /\ pc' = [pc EXCEPT ![p] = "user"]
  /\ loc' = [loc EXCEPT ![p] = NoLoc]
  /\ UNCHANGED <<freelist, pagesInUse, freePages, disk, swapMap, heap, pstate,
                 expect, forks, halt>>

(* allocuvm 306-307 after kalloc: zero the page and map it (mappages      *)
(* panics on a present entry); sbrk records the new heap size.             *)
GrowMap(p) ==
  LET f == loc[p].frame
      v == loc[p].va
  IN
  /\ Can(p)
  /\ pc[p] = "growMap"
  /\ IF pte[p][v].p
     THEN Panic("remap")
     ELSE /\ mem' = [mem EXCEPT ![f] = Zero]
          /\ pte' = [pte EXCEPT ![p][v] = [ZeroPte EXCEPT !.p = TRUE, !.w = TRUE,
                                                          !.addr = f]]
          /\ AddPhyMemMap(f, v)
          /\ heap' = [heap EXCEPT ![p] = v]
          /\ expect' = [expect EXCEPT ![p][v] = Zero]
          /\ pc' = [pc EXCEPT ![p] = "user"]
          /\ loc' = [loc EXCEPT ![p] = NoLoc]
          /\ UNCHANGED <<refCount, freelist, pagesInUse, freePages, disk, swapMap,
                         pstate, forks, halt>>

(* deallocuvm without clearing the entry of a freed page, and without    *)
(* kfree'ing it.                                                           *)
DeallocKeepPte(p, v) ==
  LET e == pte[p][v] IN
  IF e.p
  THEN /\ KfreeCount(e.addr) /\ RemovePhyMemMap(e.addr) /\ KfreeMem(e.addr)
       /\ UNCHANGED <<swapMap, pte>>
  ELSE IF e.dsk THEN SwapDecrement(e.addr) /\ UNCHANGED <<cmVars, mem, pte>>
  ELSE UNCHANGED <<cmVars, mem, pte, swapMap>>

DeallocNoFree(p, v) ==
  LET e == pte[p][v] IN
  IF e.p
  THEN /\ RemovePhyMemMap(e.addr) /\ pte' = [pte EXCEPT ![p][v] = ZeroPte]
       /\ UNCHANGED <<refCount, freelist, pagesInUse, freePages, mem, swapMap>>
  ELSE IF e.dsk THEN SwapDecrement(e.addr) /\ UNCHANGED <<cmVars, mem, pte>>
  ELSE UNCHANGED <<cmVars, mem, pte, swapMap>>

(* deallocuvm for one page: a present page is kfree'd, its entry cleared   *)
(* and its core-map entry unowned; a page on disk only loses a swap        *)
(* reference, and its entry is left as it is.                              *)
Dealloc(p, v) ==
  LET e == pte[p][v] IN
  IF e.p
  THEN /\ KfreeCount(e.addr)
       /\ RemovePhyMemMap(e.addr)
       /\ KfreeMem(e.addr)
       /\ pte' = [pte EXCEPT ![p][v] = ZeroPte]
       /\ UNCHANGED swapMap
  ELSE IF e.dsk
  THEN /\ SwapDecrement(e.addr)
       /\ UNCHANGED <<cmVars, mem, pte>>
  ELSE UNCHANGED <<cmVars, mem, pte, swapMap>>

-----------------------------------------------------------------------------
(* A running process in user mode.                                         *)
User(p) == Can(p) /\ pc[p] = "user" /\ pstate[p] = "running"

(* A store to a page whose entry is present and writable: no fault.       *)
Write(p, v, x) ==
  /\ User(p)
  /\ InRegion(p, v)
  /\ pte[p][v].p /\ pte[p][v].w
  /\ mem' = [mem EXCEPT ![pte[p][v].addr] = x]
  /\ expect' = [expect EXCEPT ![p][v] = x]
  /\ UNCHANGED <<cmVars, disk, swapMap, pte, heap, pstate, pc, loc, forks, halt>>

(* trap.c 101-110: a load or store to a page on disk evicts a page first, *)
(* then swaps the faulting page in; both failures panic.                   *)
SwapFault(p, v) ==
  /\ User(p)
  /\ InRegion(p, v)
  /\ ~pte[p][v].p /\ pte[p][v].dsk
  /\ pc' = [pc EXCEPT ![p] = "evFind"]
  /\ loc' = [loc EXCEPT ![p] = [NoLoc EXCEPT !.va = v, !.ret = "swapIdx"]]
  /\ UNCHANGED <<cmVars, mem, disk, swapMap, pte, heap, pstate, expect, forks, halt>>

(* trap.c 134-163: a store to a read-only COW page copies it when its     *)
(* count, read before kalloc, is above 1, takes it over when it is 1 and  *)
(* panics otherwise.                                                       *)
CowFault(p, v) ==
  LET e  == pte[p][v]
      rc == refCount[e.addr]
  IN
  /\ User(p)
  /\ InRegion(p, v)
  /\ ~(~e.p /\ e.dsk)
  /\ ~e.w /\ e.ro
  /\ CASE rc > 1 ->
            /\ pc' = [pc EXCEPT ![p] = "kalloc"]
            /\ loc' = [loc EXCEPT ![p] = [NoLoc EXCEPT !.op = "cow", !.va = v,
                                                       !.pa = e.addr]]
            /\ UNCHANGED <<pte, halt>>
       [] rc = 1 ->
            /\ pte' = [pte EXCEPT ![p][v] = [e EXCEPT !.w = TRUE, !.ro = FALSE]]
            /\ UNCHANGED <<pc, loc, halt>>
       [] OTHER -> Panic("illegal")
  /\ UNCHANGED <<cmVars, mem, disk, swapMap, heap, pstate, expect, forks>>

(* sbrk(PGSIZE): allocuvm of one page.                                     *)
SbrkGrow(p) ==
  /\ User(p)
  /\ heap[p] < MaxHeap
  /\ pc' = [pc EXCEPT ![p] = "kalloc"]
  /\ loc' = [loc EXCEPT ![p] = [NoLoc EXCEPT !.op = "grow", !.va = heap[p] + 1]]
  /\ UNCHANGED <<cmVars, mem, disk, swapMap, pte, heap, pstate, expect, forks, halt>>

(* sbrk(-PGSIZE) without the check that the heap has a page to give.   *)
SbrkShrinkNoGuard(p) ==
  /\ User(p)
  /\ IF heap[p] > 0 THEN Dealloc(p, heap[p]) ELSE UNCHANGED <<cmVars, mem, pte, swapMap>>
  /\ heap' = [heap EXCEPT ![p] = @ - 1]
  /\ UNCHANGED <<disk, pstate, pc, loc, expect, forks, halt>>

(* sbrk(-PGSIZE): deallocuvm of the top page.                              *)
SbrkShrink(p) ==
  /\ User(p)
  /\ heap[p] > 0
  /\ Dealloc(p, heap[p])
  /\ heap' = [heap EXCEPT ![p] = @ - 1]
  /\ UNCHANGED <<disk, pstate, pc, loc, expect, forks, halt>>

(* fork 153-183: take the first unused slot (allocproc) and give it the    *)
(* parent's region sizes and an empty page table (setupkvm).              *)
ForkBegin(p) ==
  /\ User(p)
  /\ forks < MaxForks
  /\ \E c \in Procs : pstate[c] = "unused"
  /\ LET c == CHOOSE c \in Procs : pstate[c] = "unused" IN
     /\ pstate' = [pstate EXCEPT ![c] = "embryo"]
     /\ heap' = [heap EXCEPT ![c] = heap[p]]
     /\ pte' = [pte EXCEPT ![c] = [v \in VAddrs |-> ZeroPte]]
     /\ loc' = [loc EXCEPT ![p] = [NoLoc EXCEPT !.child = c]]
  /\ pc' = [pc EXCEPT ![p] = "fork"]
  /\ forks' = forks + 1
  /\ UNCHANGED <<cmVars, mem, disk, swapMap, expect, halt>>

(* fork 187-214 for one page: the parent's entry loses PTE_W and gains    *)
(* PTE_RO, the child gets a copy, and the page named by its address field *)
(* gets a reference, whether the entry is present or on disk.             *)
ForkCopy(p) ==
  LET c  == loc[p].child
      v  == loc[p].next
      ne == CowShare(pte[p][v])
  IN
  /\ Can(p)
  /\ pc[p] = "fork"
  /\ v <= heap[p]
  /\ pte' = [pte EXCEPT ![p][v] = ne, ![c][v] = ne]
  /\ IncrementRef(ne.addr)
  /\ loc' = [loc EXCEPT ![p].next = v + 1]
  /\ UNCHANGED <<cmUser, cmVa, freelist, pagesInUse, freePages, mem, disk, swapMap,
                 heap, pstate, pc, expect, forks, halt>>

(* fork 247-286: the child becomes RUNNABLE.                               *)
ForkDone(p) ==
  LET c == loc[p].child IN
  /\ Can(p)
  /\ pc[p] = "fork"
  /\ loc[p].next > heap[p]
  /\ pstate' = [pstate EXCEPT ![c] = "running"]
  /\ pc' = [pc EXCEPT ![p] = "user", ![c] = "user"]
  /\ expect' = [expect EXCEPT ![c] = expect[p]]
  /\ loc' = [loc EXCEPT ![p] = NoLoc]
  /\ UNCHANGED <<cmVars, mem, disk, swapMap, pte, heap, forks, halt>>

(* exit: the process becomes a ZOMBIE with its memory still mapped.        *)
Exit(p) ==
  /\ User(p)
  /\ pstate' = [pstate EXCEPT ![p] = "zombie"]
  /\ pc' = [pc EXCEPT ![p] = "dead"]
  /\ UNCHANGED <<cmVars, mem, disk, swapMap, pte, heap, loc, expect, forks, halt>>

(* wait 360-371: the parent finds the zombie and calls freevm, which runs *)
(* deallocuvm over the whole user address space, page by page.            *)
Reap(p) ==
  /\ Can(p)
  /\ pstate[p] = "zombie"
  /\ Goto(p, "dead", "reap")
  /\ loc' = [loc EXCEPT ![p] = NoLoc]
  /\ UNCHANGED <<cmVars, mem, disk, swapMap, pte, heap, pstate, expect, forks, halt>>

ReapPage(p) ==
  /\ Can(p)
  /\ pc[p] = "reap"
  /\ loc[p].next <= MaxHeap
  /\ Dealloc(p, loc[p].next)
  /\ loc' = [loc EXCEPT ![p].next = @ + 1]
  /\ UNCHANGED <<disk, heap, pstate, pc, expect, forks, halt>>

(* wait 372-382: the page-table pages are freed and the slot is UNUSED;   *)
(* mem_regions is not cleared.                                             *)
ReapDone(p) ==
  /\ Can(p)
  /\ pc[p] = "reap"
  /\ loc[p].next > MaxHeap
  /\ pstate' = [pstate EXCEPT ![p] = "unused"]
  /\ pc' = [pc EXCEPT ![p] = "none"]
  /\ pte' = [pte EXCEPT ![p] = [v \in VAddrs |-> ZeroPte]]
  /\ loc' = [loc EXCEPT ![p] = NoLoc]
  /\ UNCHANGED <<cmVars, mem, disk, swapMap, heap, expect, forks, halt>>

Next ==
  \E p \in Procs :
    \/ Kalloc(p) \/ KallocRetry(p) \/ EvictFind(p) \/ EvictMeta(p)
    \/ SwapIdx(p) \/ SwapIn(p) \/ CowCopy(p) \/ GrowMap(p)
    \/ SbrkGrow(p) \/ SbrkShrink(p)
    \/ ForkBegin(p) \/ ForkCopy(p) \/ ForkDone(p)
    \/ Exit(p) \/ Reap(p) \/ ReapPage(p) \/ ReapDone(p)
    \/ \E v \in VAddrs : \/ SwapFault(p, v) \/ CowFault(p, v)
                         \/ \E x \in Vals : Write(p, v, x)

Spec == Init /\ [][Next]_vars

-----------------------------------------------------------------------------
TypeOK ==
  /\ CMTypeOK
  /\ mem \in [Frames -> Data]
  /\ disk \in [Slots -> Data]
  /\ swapMap \in [Slots -> SwapEntry]
  /\ pte \in [Procs -> [VAddrs -> Pte]]
  /\ heap \in [Procs -> 0..MaxHeap]
  /\ pstate \in [Procs -> {"unused", "embryo", "running", "zombie"}]
  /\ expect \in [Procs -> [VAddrs -> Data]]
  /\ halt \in {"none", "oom", "null", "illegal", "remap", "ub"}

(* What process p reads at page v: the frame, or the slot it was moved to. *)
View(p, v) ==
  LET e == pte[p][v] IN
  IF e.p THEN mem[e.addr] ELSE IF e.dsk /\ e.addr \in Slots THEN disk[e.addr] ELSE Junk

(***************************************************************************)
(* Each process reads back, at every page of its heap, the value it last  *)
(* stored there (or zero for a page sbrk gave it): no write is lost by an *)
(* eviction, no page is replaced by another process's copy, a swap-in or  *)
(* a COW copy brings back the right contents.  A zombie's memory is read  *)
(* by nobody and is not constrained.                                       *)
(***************************************************************************)
MemoryIntegrity ==
  \A q \in Procs : pstate[q] = "running" =>
    \A v \in VAddrs : InRegion(q, v) => View(q, v) = expect[q][v]

(***************************************************************************)
(* Copy-on-write isolation: a frame mapped by two entries is writable      *)
(* through neither.  fork clears PTE_W on both copies; a path that sets    *)
(* PTE_W on a shared frame lets one process write the other's memory.     *)
(***************************************************************************)
CowIsolation ==
  \A q1, q2 \in Procs : \A v1, v2 \in VAddrs :
    /\ <<q1, v1>> # <<q2, v2>>
    /\ pstate[q1] # "unused" /\ pstate[q2] # "unused"
    /\ pte[q1][v1].p /\ pte[q2][v2].p
    /\ pte[q1][v1].addr = pte[q2][v2].addr
    => ~pte[q1][v1].w /\ ~pte[q2][v2].w

(* The entries that hold a reference: those of every page table not yet  *)
(* torn down by freevm; present ones at frame f, and those in the heap on  *)
(* disk at slot s.  (An entry deallocuvm left on disk past the heap has    *)
(* had its reference dropped already.)                                     *)
Holds(q, v) ==
  /\ pstate[q] # "unused"
  /\ pc[q] = "reap" => v >= loc[q].next
Mapping(f) == {<<q, v>> \in Procs \X VAddrs :
                 Holds(q, v) /\ pte[q][v].p /\ pte[q][v].addr = f}
OnDisk(s) == {<<q, v>> \in Procs \X VAddrs :
                 Holds(q, v) /\ InRegion(q, v) /\ ~pte[q][v].p /\ pte[q][v].dsk
                 /\ pte[q][v].addr = s}

(* A frame a thread has taken from kalloc and not yet mapped.              *)
InFlight(f) ==
  \E q \in Procs : pc[q] \in {"growMap", "cowCopy", "swSleep"} /\ loc[q].frame = f

(***************************************************************************)
(* The core map counts references exactly: an allocated frame's refCount  *)
(* is the number of page-table entries mapping it.  A count above it      *)
(* leaks the frame when the entries go; a count below it frees the frame  *)
(* while an entry still maps it.                                           *)
(***************************************************************************)
RefCountExact ==
  \A f \in Frames : ~IsFree(f) /\ ~InFlight(f) => refCount[f] = Cardinality(Mapping(f))

(***************************************************************************)
(* swap_core_map counts references exactly: a slot in use has as many     *)
(* references as entries on disk name it, and a slot not in use is named  *)
(* by none.  deallocuvm and freevm both drop a reference for an entry     *)
(* they leave on disk; eviction and swap-in copy the count across.        *)
(***************************************************************************)
SlotRefExact ==
  \A s \in Slots :
    Cardinality(OnDisk(s)) = IF swapMap[s].inUse THEN swapMap[s].ref ELSE 0

(***************************************************************************)
(* The kernel stops only by running out of memory or swap (the panics of  *)
(* trap.c 106/109/147): never by a NULL pop in kalloc, a COW page with    *)
(* reference count 0, a remap, or a page-table walk of a freed pml4.      *)
(***************************************************************************)
NoCrash == halt \in {"none", "oom"}
=============================================================================
