-------------------------------- MODULE MCVM --------------------------------
(* Model values and small sets for checking VM with TLC.                   *)
EXTENDS VM

CONSTANTS p1, p2, p3, a, b

MCProcs == {p1, p2}
MCProcs3 == {p1, p2, p3}
MCInit == {p1}
MCVals == {a, b}
OneVal == {a}
=============================================================================
