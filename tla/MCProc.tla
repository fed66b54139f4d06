-------------------------------- MODULE MCProc --------------------------------
(* Small sets for checking Proc with TLC.                                  *)
EXTENDS Proc

(* Two inodes sys_open can find: an empty file and a one-page file.        *)
MCInodes == {1, 2}
NoInodes == {}
MCInodeSize == [i \in MCInodes |-> i - 1]
=============================================================================
