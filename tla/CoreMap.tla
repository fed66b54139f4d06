------------------------------ MODULE CoreMap ------------------------------
(***************************************************************************)
(* The core map and free list of the physical page allocator               *)
(* (src/kernel/kalloc.c): one entry per physical page with its reference   *)
(* count, its owner and the virtual address it is mapped at, and the free  *)
(* list threaded through the entries.  This module holds the state and the *)
(* operations on it that every caller shares: kfree, the locked pop of     *)
(* kalloc, the victim scan of findPageToEvict and the reference-count      *)
(* helpers.  KAlloc and VM extend it with the threads that call them.      *)
(***************************************************************************)
EXTENDS Integers, SequencesExt

CONSTANTS
  Frames,   \* page numbers of the physical pages kalloc hands out
  Slots,    \* indices of the swap slots (swap_core_map, NDISKPAGES of them)
  VAddrs,   \* user virtual page addresses
  NoVa      \* core_map[i].va == 0 of a free or kernel page

ASSUME Frames \subseteq Nat /\ Frames # {}
ASSUME Slots \subseteq Nat
ASSUME NoVa \notin VAddrs

(* A page-table entry's address field names a page number; when the entry *)
(* is on disk the same bits hold a swap index, so the numbers a core-map   *)
(* lookup (pa2page) may be given are the frames and the slot indices.      *)
PageNums == Frames \cup Slots

VARIABLES
  refCount,    \* core_map[i].refCount
  cmUser,      \* core_map[i].pid > 2: a page of a user process (evictable)
  cmVa,        \* core_map[i].va
  freelist,    \* kmem.freelist, head first
  pagesInUse,  \* pages_in_use
  freePages    \* free_pages

cmVars == <<refCount, cmUser, cmVa, freelist, pagesInUse, freePages>>

(* mem_init: freerange kfree's the pages in ascending order, each pushed   *)
(* on the head of the list, then the counters are reset.                   *)
CMInit ==
  /\ refCount = [f \in PageNums |-> 0]
  /\ cmUser = [f \in PageNums |-> FALSE]
  /\ cmVa = [f \in PageNums |-> NoVa]
  /\ freelist = SetToSortSeq(Frames, LAMBDA a, b : a > b)
  /\ pagesInUse = 0
  /\ freePages = Cardinality(Frames)

IsFree(f) == f \in ToSet(freelist)

(***************************************************************************)
(* kfree(v): drop one reference; only when none is left is the page junk-  *)
(* filled, unowned and pushed on the free list.  A page whose count is     *)
(* already 0 is not decremented but still pushed again.                    *)
(***************************************************************************)
KfreeCount(f) ==
  LET rc == IF refCount[f] > 0 THEN refCount[f] - 1 ELSE refCount[f]
  IN  IF rc > 0
      THEN /\ refCount' = [refCount EXCEPT ![f] = rc]
           /\ UNCHANGED <<freelist, pagesInUse, freePages>>
      ELSE /\ pagesInUse' = pagesInUse - 1
           /\ freePages' = freePages + 1
           /\ freelist' = <<f>> \o freelist
           /\ refCount' = [refCount EXCEPT ![f] = 0]

(* Kfree frees the page rather than only dropping a reference.             *)
KfreeFrees(f) == refCount[f] <= 1

Kfree(f) ==
  /\ KfreeCount(f)
  /\ IF KfreeFrees(f)
     THEN /\ cmUser' = [cmUser EXCEPT ![f] = FALSE]
          /\ cmVa' = [cmVa EXCEPT ![f] = NoVa]
     ELSE UNCHANGED <<cmUser, cmVa>>

(* kalloc's unlocked counter update, done before the free list is looked   *)
(* at and whether or not a page is found.                                  *)
KallocCount ==
  /\ pagesInUse' = pagesInUse + 1
  /\ freePages' = freePages - 1

(* A pop that leaves the page's reference count as it was on the list.     *)
KallocPopNoRef(f) ==
  /\ freelist # <<>>
  /\ f = Head(freelist)
  /\ freelist' = Tail(freelist)
  /\ UNCHANGED refCount

(* The locked pop of kalloc: the head page, with a reference count of 1.   *)
KallocPop(f) ==
  /\ freelist # <<>>
  /\ f = Head(freelist)
  /\ freelist' = Tail(freelist)
  /\ refCount' = [refCount EXCEPT ![f] = 1]

(* findPageToEvict: the first core-map entry of a user process (pid > 2)   *)
(* with a positive reference count, or NoFrame.                            *)
NoFrame == -1
Evictable == {f \in Frames : cmUser[f] /\ refCount[f] > 0}
FindPageToEvict == IF Evictable = {} THEN NoFrame ELSE Min(Evictable)

(* add_phy_mem_map for a user page.                                        *)
AddPhyMemMap(f, va) ==
  /\ cmUser' = [cmUser EXCEPT ![f] = TRUE]
  /\ cmVa' = [cmVa EXCEPT ![f] = va]

(* remove_phy_mem_map for a user page.                                     *)
RemovePhyMemMap(f) ==
  /\ cmUser' = [cmUser EXCEPT ![f] = FALSE]
  /\ cmVa' = [cmVa EXCEPT ![f] = NoVa]

CMTypeOK ==
  /\ refCount \in [PageNums -> Int]
  /\ cmUser \in [PageNums -> BOOLEAN]
  /\ cmVa \in [PageNums -> VAddrs \cup {NoVa}]
  /\ freelist \in Seq(Frames)
  /\ pagesInUse \in Int
  /\ freePages \in Int

(***************************************************************************)
(* The allocator's own invariant (spec section 8): a page has reference    *)
(* count 0 exactly when it is on the free list, and no page is on the list *)
(* twice.  kfree pushing a page whose count was already 0, or a reference  *)
(* count raised or dropped behind the allocator's back, breaks it.         *)
(***************************************************************************)
FreeListExact ==
  /\ \A f \in Frames : refCount[f] = 0 <=> IsFree(f)
  /\ Len(freelist) = Cardinality(ToSet(freelist))
=============================================================================
