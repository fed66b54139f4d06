------------------------------- MODULE KAlloc -------------------------------
(***************************************************************************)
(* The physical page allocator of src/kernel/kalloc.c driven by concurrent *)
(* kernel threads.  Each thread runs kalloc step by step: the unlocked     *)
(* counter update, the locked pop, and when the list is empty evictPage    *)
(* (victim scan under the lock, then the page-table rewrite and kfree with *)
(* the lock released) and the locked retry.  Between calls a thread may    *)
(* kfree a page it references or take another reference on it, as         *)
(* deallocuvm and fork do.  held[t][f] is the references thread t's page  *)
(* tables hold on page f; eviction moves all of them to disk.  The swap    *)
(* store itself is modelled in VM.                                         *)
(***************************************************************************)
EXTENDS CoreMap

CONSTANTS
  Threads,       \* kernel threads calling the allocator
  MaxRef,        \* bound on the references taken on one page
  CounterBound   \* bound on pages_in_use, which kalloc failures let drift

VARIABLES
  kpc,    \* where each thread is in kalloc
  kloc,   \* its locals: the counters it read and the eviction victim
  held    \* references each thread's page tables hold on each page

vars == <<cmVars, kpc, kloc, held>>

Idle == "idle"

KInit ==
  /\ CMInit
  /\ kpc = [t \in Threads |-> Idle]
  /\ kloc = [t \in Threads |-> [cnt |-> <<0, 0>>, victim |-> NoFrame]]
  /\ held = [t \in Threads |-> [f \in Frames |-> 0]]

Goto(t, from, to) ==
  /\ kpc[t] = from
  /\ kpc' = [kpc EXCEPT ![t] = to]

(* The caller maps the page it got: add_phy_mem_map from mappages.        *)
Got(t, f) ==
  /\ held' = [held EXCEPT ![t][f] = @ + 1]
  /\ \E va \in VAddrs : AddPhyMemMap(f, va)

(* kalloc, lines 184-185: pages_in_use++ and free_pages-- are plain loads  *)
(* and stores outside kmem.lock, so a concurrent update can be lost.       *)
KallocRead(t) ==
  /\ {pagesInUse, freePages} \subseteq -CounterBound..CounterBound
  /\ Goto(t, Idle, "count")
  /\ kloc' = [kloc EXCEPT ![t].cnt = <<pagesInUse, freePages>>]
  /\ UNCHANGED <<refCount, cmUser, cmVa, freelist, pagesInUse, freePages, held>>

KallocWrite(t) ==
  /\ Goto(t, "count", "lock")
  /\ pagesInUse' = kloc[t].cnt[1] + 1
  /\ freePages' = kloc[t].cnt[2] - 1
  /\ UNCHANGED <<refCount, cmUser, cmVa, freelist, kloc, held>>

(* kalloc, lines 189-199: pop the head, or fall through to eviction.       *)
KallocLock(t) ==
  \/ /\ \E f \in Frames : KallocPop(f) /\ Got(t, f)
     /\ Goto(t, "lock", Idle)
     /\ UNCHANGED <<pagesInUse, freePages, kloc>>
  \/ /\ freelist = <<>>
     /\ Goto(t, "lock", "find")
     /\ UNCHANGED <<cmVars, kloc, held>>

(* evictPage, lines 233-236 with findPageToEvict: the victim is chosen     *)
(* under the lock, which is released before it is used; no victim makes    *)
(* kalloc return 0.                                                        *)
EvictFind(t) ==
  LET v == FindPageToEvict IN
  /\ kpc[t] = "find"
  /\ kpc' = [kpc EXCEPT ![t] = IF v = NoFrame THEN Idle ELSE "evict"]
  /\ kloc' = [kloc EXCEPT ![t].victim = v]
  /\ UNCHANGED <<cmVars, held>>

(* Eviction that frees the page without moving the callers' references.   *)
EvictFreeKeepHeld(t) ==
  /\ Goto(t, "evict", "retry")
  /\ Kfree(kloc[t].victim)
  /\ UNCHANGED <<kloc, held>>

(* evictPage, lines 269-292: every page-table entry naming the victim is   *)
(* rewritten to the swap slot, then the page is kfree'd once.              *)
EvictFree(t) ==
  LET v == kloc[t].victim IN
  /\ Goto(t, "evict", "retry")
  /\ held' = [u \in Threads |-> [held[u] EXCEPT ![v] = 0]]
  /\ Kfree(v)
  /\ UNCHANGED kloc

(* kalloc, lines 209-220: the retry pops without checking for an empty     *)
(* list; an empty list is a NULL dereference.                              *)
KallocRetry(t) ==
  \/ /\ \E f \in Frames : KallocPop(f) /\ Got(t, f)
     /\ Goto(t, "retry", Idle)
     /\ UNCHANGED <<pagesInUse, freePages, kloc>>
  \/ /\ freelist = <<>>
     /\ Goto(t, "retry", "oops")
     /\ UNCHANGED <<cmVars, kloc, held>>

(* A kfree by a thread whose tables hold no reference on the page.         *)
FreeNoGuard(t, f) ==
  /\ kpc[t] = Idle
  /\ held' = [held EXCEPT ![t][f] = @ - 1]
  /\ Kfree(f)
  /\ UNCHANGED <<kpc, kloc>>

(* deallocuvm / freevm: kfree a page this thread's tables reference.       *)
Free(t, f) ==
  /\ kpc[t] = Idle
  /\ held[t][f] > 0
  /\ held' = [held EXCEPT ![t][f] = @ - 1]
  /\ Kfree(f)
  /\ UNCHANGED <<kpc, kloc>>

(* A reference taken without counting it in the core map.                 *)
ShareNoCount(t, u, f) ==
  /\ kpc[t] = Idle
  /\ held[t][f] > 0
  /\ refCount[f] < MaxRef
  /\ held' = [held EXCEPT ![u][f] = @ + 1]
  /\ UNCHANGED <<cmVars, kpc, kloc>>

(* fork: inrementPageRefCount for the child's copy of the entry.          *)
Share(t, u, f) ==
  /\ kpc[t] = Idle
  /\ held[t][f] > 0
  /\ refCount[f] < MaxRef
  /\ refCount' = [refCount EXCEPT ![f] = @ + 1]
  /\ held' = [held EXCEPT ![u][f] = @ + 1]
  /\ UNCHANGED <<cmUser, cmVa, freelist, pagesInUse, freePages, kpc, kloc>>

KNext ==
  \E t \in Threads :
    \/ KallocRead(t) \/ KallocWrite(t) \/ KallocLock(t)
    \/ EvictFind(t) \/ EvictFree(t) \/ KallocRetry(t)
    \/ \E f \in Frames : Free(t, f) \/ \E u \in Threads : Share(t, u, f)

KSpec == KInit /\ [][KNext]_vars

-----------------------------------------------------------------------------
TypeOK ==
  /\ CMTypeOK
  /\ kpc \in [Threads -> {Idle, "count", "lock", "find", "evict", "retry", "oops"}]
  /\ held \in [Threads -> [Frames -> Nat]]

(* The references the callers' page tables hold on each page.             *)
HeldRefs == [f \in Frames |-> SumFunction([t \in Threads |-> held[t][f]])]

(***************************************************************************)
(* Refinement: seen through the free list and the references the callers  *)
(* hold, kalloc/kfree/evictPage behave as the reference-counted pool of    *)
(* AbsAlloc.  A page handed out twice, freed while still referenced, or    *)
(* left allocated after eviction took every reference away, is a step the  *)
(* pool cannot take.                                                       *)
(***************************************************************************)
Pool == INSTANCE AbsAlloc WITH free <- ToSet(freelist), refs <- HeldRefs
PoolRefinement == Pool!ASpec

(***************************************************************************)
(* The observability counters of spec section 4.1: whenever no thread is  *)
(* inside kalloc, free_pages counts the free list and pages_in_use the    *)
(* rest.  The unlocked increments and the failure path of kalloc, which   *)
(* has already moved the counters, break it.                              *)
(***************************************************************************)
CountersExact ==
  (\A t \in Threads : kpc[t] = Idle) =>
    /\ freePages = Len(freelist)
    /\ pagesInUse = Cardinality(Frames) - Len(freelist)
=============================================================================
