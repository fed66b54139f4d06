------------------------------ MODULE MCKAlloc ------------------------------
(* Model-checking instance of KAlloc: small sets of pages and threads.    *)
EXTENDS KAlloc

CONSTANTS t1, t2, va1

MCFrames == 1..3
MCVAddrs == {va1}
OneThread == {t1}
TwoThreads == {t1, t2}
=============================================================================
