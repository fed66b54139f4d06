------------------------------ MODULE AbsAlloc ------------------------------
(***************************************************************************)
(* What the physical page allocator promises its callers: a pool of pages  *)
(* with reference counts.  A page is handed out only while it is free, and *)
(* with one reference; further references may be taken on an allocated    *)
(* page; dropping the last reference (or reclaiming all of them, as        *)
(* eviction does) returns the page to the pool.                            *)
(***************************************************************************)
EXTENDS Naturals

CONSTANT Frames

VARIABLES
  free,   \* pages in the pool
  refs    \* references held on each page

AInit ==
  /\ free = Frames
  /\ refs = [f \in Frames |-> 0]

Alloc(f) ==
  /\ f \in free
  /\ free' = free \ {f}
  /\ refs' = [refs EXCEPT ![f] = 1]

Share(f) ==
  /\ f \notin free
  /\ refs' = [refs EXCEPT ![f] = @ + 1]
  /\ UNCHANGED free

Release(f) ==
  /\ refs[f] > 0
  /\ refs' = [refs EXCEPT ![f] = @ - 1]
  /\ free' = IF refs[f] = 1 THEN free \cup {f} ELSE free

Reclaim(f) ==
  /\ refs[f] > 0
  /\ refs' = [refs EXCEPT ![f] = 0]
  /\ free' = free \cup {f}

ANext == \E f \in Frames : Alloc(f) \/ Share(f) \/ Release(f) \/ Reclaim(f)

ASpec == AInit /\ [][ANext]_<<free, refs>>
=============================================================================
