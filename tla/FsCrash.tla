------------------------------- MODULE FsCrash -------------------------------
(***************************************************************************)
(* Crash consistency of file creation and writing (fs.c, sysfile.c) under *)
(* the crash injection of bwrite (bio.c 116-121), driven by the crash test *)
(* lab5test_b.  The write-ahead log of fs.c is not in use: sys_open's      *)
(* calls of log_start_tx/log_end_tx are commented out, so every bwrite     *)
(* goes straight to disk and only the order of the writes protects the    *)
(* file system.  A reboot may happen before any bwrite once the test has  *)
(* armed crashn; it keeps the disk and loses memory.                       *)
(*                                                                         *)
(* The disk is abstracted to what the test tells apart: the bitmap as the *)
(* set of 20-block regions in use, the inode file as an array of dinodes   *)
(* (entry 0 is the inode file itself, entry 1 the root directory; sizes    *)
(* count dinodes, directory entries and blocks), the root directory's      *)
(* entries, and each region's blocks holding the index of the block the    *)
(* test wrote there ('a' + i in the code).                                 *)
(***************************************************************************)
EXTENDS Integers, FiniteSets

CONSTANTS
  NREG,        \* regions of 20 blocks setBitmapWithDinode can hand out
  NINO,        \* dinodes the inode file can hold in the model
  NDIR,        \* directory entries the root directory can hold
  NBLK,        \* blocks the test writes (3)
  MaxCrashes,  \* reboots before the test is left to finish
  big          \* the name "big.txt"

Regions == 1..NREG
NoRegion == 0              \* startblkno 0: no region was found
Inums == 0..NINO-1
INODEFILEINO == 0
ROOTINO == 1
T_DIR == 1
T_FILE == 2
Blks == 0..NBLK-1
NoVal == -1                \* a block the test never wrote

Dinode == [type : {0, T_DIR, T_FILE}, size : Nat, start : Regions \cup {NoRegion}]
NoDinode == [type |-> 0, size |-> 0, start |-> NoRegion]

VARIABLES
  bitmap,   \* disk: regions marked in the free-block bitmap
  ino,      \* disk: the dinodes of the inode file
  dir,      \* disk: the root directory's entries
  data,     \* disk: each region's blocks
  ifSize,   \* memory: icache.inodefile.size, set by init_inodefile
  pc,       \* memory: where the test program is
  loc,      \* memory: the open file's inum and the new file's region
  crashes,  \* reboots so far
  halt      \* "ub": a dinode read past the inode file's size

vars == <<bitmap, ino, dir, data, ifSize, pc, loc, crashes, halt>>
disk == <<bitmap, ino, dir, data>>

NoLoc == [inum |-> 0, start |-> NoRegion, blk |-> 0]

(* mkfs: the inode file holds itself and the root directory.              *)
Init ==
  /\ bitmap = {}
  /\ ino = [i \in Inums |->
              CASE i = INODEFILEINO -> [type |-> T_FILE, size |-> 2, start |-> NoRegion]
                [] i = ROOTINO      -> [type |-> T_DIR, size |-> 0, start |-> NoRegion]
                [] OTHER            -> NoDinode]
  /\ dir = [k \in 0..NDIR-1 |-> [name |-> big, inum |-> 0]]
  /\ data = [r \in Regions \cup {NoRegion} |-> [b \in Blks |-> NoVal]]
  /\ ifSize = 2
  /\ pc = "check1"
  /\ loc = NoLoc
  /\ crashes = 0
  /\ halt = "none"

(* dirlookup: the first entry below the root's size naming the file, or 0. *)
Lookup(name) ==
  LET ks == {k \in 0..NDIR-1 : k < ino[ROOTINO].size /\ dir[k].inum # 0
                               /\ dir[k].name = name}
  IN  IF ks = {} THEN 0 ELSE dir[CHOOSE k \in ks : \A j \in ks : k <= j].inum

(* iload through read_dinode: readi of the inode file fails past the size *)
(* init_inodefile last loaded, and the dinode copied is then garbage.      *)
Loadable(i) == i < ifSize

(* The file's blocks below its size hold what the test wrote there.        *)
Intact(i) == \A b \in Blks : b < ino[i].size => data[ino[i].start][b] = b

-----------------------------------------------------------------------------
(***************************************************************************)
(* check1 (lab5test_b.c 47-86), run on every boot with crashes disarmed:  *)
(* open big.txt; if it is there and not empty, its size must be whole     *)
(* blocks, at most three, holding the right bytes; three means done.      *)
(* Then crashsafe opens it with O_CREATE (sys_open 214-260 creates it when *)
(* namei finds nothing) and crashn arms the crash.                         *)
(***************************************************************************)
Check1 ==
  LET i == Lookup(big) IN
  /\ pc = "check1"
  /\ halt = "none"
  /\ IF i # 0 /\ ~Loadable(i)
     THEN /\ halt' = "ub"
          /\ UNCHANGED <<pc, loc>>
     ELSE /\ pc' = CASE i = 0                          -> "createBitmap"
                     [] ino[i].size = 0                -> "open"
                     [] ino[i].size > NBLK \/ ~Intact(i) -> "error"
                     [] ino[i].size = NBLK             -> "done"
                     [] OTHER                          -> "open"
          /\ loc' = [NoLoc EXCEPT !.inum = i]
          /\ UNCHANGED halt
  /\ UNCHANGED <<bitmap, ino, dir, data, ifSize, crashes>>

(* setBitmapWithDinode (fs.c 469-492) with setDinodeAtBlockIndex (494-503):*)
(* the first region whose 20 blocks are free is marked and its bitmap     *)
(* block written; with none free the dinode keeps startblkno 0.            *)
(* Mutant: the bitmap block's bwrite is dropped.                          *)
CreateBitmapNoMark ==
  LET free == Regions \ bitmap
      r    == IF free = {} THEN NoRegion ELSE CHOOSE x \in free : \A y \in free : x <= y
  IN
  /\ pc = "createBitmap"
  /\ loc' = [loc EXCEPT !.start = r]
  /\ pc' = "createIno"
  /\ UNCHANGED <<bitmap, ino, dir, data, ifSize, crashes, halt>>

CreateBitmap ==
  LET free == Regions \ bitmap
      r    == IF free = {} THEN NoRegion ELSE CHOOSE x \in free : \A y \in free : x <= y
  IN
  /\ pc = "createBitmap"
  /\ bitmap' = IF r = NoRegion THEN bitmap ELSE bitmap \cup {r}
  /\ loc' = [loc EXCEPT !.start = r]
  /\ pc' = "createIno"
  /\ UNCHANGED <<ino, dir, data, ifSize, crashes, halt>>

(* writei(inodeFile, &dinode, inodeFile->size, ...) (fs.c 297-313): the   *)
(* new dinode is written at the end of the inode file; its inum is that    *)
(* end (sysfile.c 245).                                                    *)
CreateIno ==
  LET n == ino[INODEFILEINO].size IN
  /\ pc = "createIno"
  /\ n < NINO
  /\ ino' = [ino EXCEPT ![n] = [type |-> T_FILE, size |-> 0, start |-> loc.start]]
  /\ loc' = [loc EXCEPT !.inum = n]
  /\ pc' = "createIfSize"
  /\ UNCHANGED <<bitmap, dir, data, ifSize, crashes, halt>>

(* Mutant: the inode file's own dinode is not written.                   *)
CreateIfSizeSkipped ==
  /\ pc = "createIfSize"
  /\ pc' = "createDirent"
  /\ UNCHANGED <<bitmap, ino, dir, data, ifSize, loc, crashes, halt>>

(* writei then writes the inode file's own dinode with the grown size     *)
(* (fs.c 314-338).                                                        *)
CreateIfSize ==
  /\ pc = "createIfSize"
  /\ ino' = [ino EXCEPT ![INODEFILEINO].size = loc.inum + 1]
  /\ pc' = "createDirent"
  /\ UNCHANGED <<bitmap, dir, data, ifSize, loc, crashes, halt>>

(* writei(rootDirectory, &entry, rootDirectory->size, ...): the entry,    *)
(* then the root's dinode with the grown size, then init_inodefile.        *)
CreateDirent ==
  LET k == ino[ROOTINO].size IN
  /\ pc = "createDirent"
  /\ k < NDIR
  /\ dir' = [dir EXCEPT ![k] = [name |-> big, inum |-> loc.inum]]
  /\ pc' = "createRootSize"
  /\ UNCHANGED <<bitmap, ino, data, ifSize, loc, crashes, halt>>

(* Mutant: sys_open without the init_inodefile that follows the create.    *)
CreateRootSizeNoReload ==
  /\ pc = "createRootSize"
  /\ ino' = [ino EXCEPT ![ROOTINO].size = @ + 1]
  /\ pc' = "open"
  /\ UNCHANGED <<bitmap, dir, data, ifSize, loc, crashes, halt>>

CreateRootSize ==
  /\ pc = "createRootSize"
  /\ ino' = [ino EXCEPT ![ROOTINO].size = @ + 1]
  /\ ifSize' = ino[INODEFILEINO].size
  /\ pc' = "open"
  /\ UNCHANGED <<bitmap, dir, data, loc, crashes, halt>>

(* sys_open 262-270, after the create or for a file check1 found: namei   *)
(* finds the entry and iload reads its dinode, panicking on type 0.  When *)
(* the open fails the writes fail and check2 reports the file missing.     *)
Open ==
  LET i == Lookup(big) IN
  /\ pc = "open"
  /\ halt = "none"
  /\ CASE i = 0            -> pc' = "error" /\ UNCHANGED <<loc, halt>>
       [] ~Loadable(i)     -> halt' = "ub" /\ UNCHANGED <<pc, loc>>
       [] ino[i].type = 0  -> halt' = "panic" /\ UNCHANGED <<pc, loc>>
       [] OTHER            -> /\ pc' = "writeData"
                              /\ loc' = [NoLoc EXCEPT !.inum = i]
                              /\ UNCHANGED halt
  /\ UNCHANGED <<bitmap, ino, dir, data, ifSize, crashes>>

(***************************************************************************)
(* write(fd, buf + 512*b, 512): writeFile (file.c 88-111) and writei       *)
(* (fs.c 276-338) at the file's offset b*512, which never passes the size *)
(* since the test writes from offset 0: the data block is written first,   *)
(* then the file's dinode with the grown size.                             *)
(***************************************************************************)
(* Mutant: writei's data block is never written (a lost bwrite).          *)
WriteDataLost ==
  /\ pc = "writeData"
  /\ loc.blk <= ino[loc.inum].size
  /\ pc' = "writeSize"
  /\ UNCHANGED <<bitmap, ino, dir, data, ifSize, loc, crashes, halt>>

WriteData ==
  LET i == loc.inum IN
  /\ pc = "writeData"
  /\ loc.blk <= ino[i].size
  /\ data' = [data EXCEPT ![ino[i].start][loc.blk] = loc.blk]
  /\ pc' = "writeSize"
  /\ UNCHANGED <<bitmap, ino, dir, ifSize, loc, crashes, halt>>

(* Mutant: the test's write loop runs one block too far.                  *)
WriteSizeOffByOne ==
  LET i == loc.inum IN
  /\ pc = "writeSize"
  /\ ino' = [ino EXCEPT ![i].size = IF loc.blk + 1 > @ THEN loc.blk + 1 ELSE @]
  /\ pc' = IF loc.blk + 1 <= NBLK THEN "writeData" ELSE "check2"
  /\ loc' = [loc EXCEPT !.blk = @ + 1]
  /\ UNCHANGED <<bitmap, dir, data, ifSize, crashes, halt>>

WriteSize ==
  LET i == loc.inum IN
  /\ pc = "writeSize"
  /\ ino' = [ino EXCEPT ![i].size = IF loc.blk + 1 > @ THEN loc.blk + 1 ELSE @]
  /\ pc' = IF loc.blk + 1 < NBLK THEN "writeData" ELSE "check2"
  /\ loc' = [loc EXCEPT !.blk = @ + 1]
  /\ UNCHANGED <<bitmap, dir, data, ifSize, crashes, halt>>

(* check2 (lab5test_b.c 88-114): the file is three blocks of the right    *)
(* bytes; the test then passes and exits.                                  *)
Check2 ==
  LET i == loc.inum IN
  /\ pc = "check2"
  /\ pc' = IF ino[i].size = NBLK /\ Intact(i) THEN "done" ELSE "error"
  /\ UNCHANGED <<bitmap, ino, dir, data, ifSize, loc, crashes, halt>>

(* bwrite with crashn armed (bio.c 116-121) reboots before it writes: the *)
(* disk stays, memory is lost, and iinit's init_inodefile reloads the      *)
(* inode file's size.  The test runs again from check1.                   *)
Reboot ==
  /\ \/ pc \in {"createIno", "createIfSize", "createDirent", "createRootSize",
              "writeData", "writeSize"}
     \/ pc = "createBitmap" /\ bitmap # Regions
  /\ crashes < MaxCrashes
  /\ crashes' = crashes + 1
  /\ ifSize' = ino[INODEFILEINO].size
  /\ pc' = "check1"
  /\ loc' = NoLoc
  /\ UNCHANGED <<bitmap, ino, dir, data, halt>>

(* The test has exited, or spins in error().                               *)
Finished == pc \in {"done", "error"} /\ UNCHANGED vars

Next ==
  \/ Check1 \/ CreateBitmap \/ CreateIno \/ CreateIfSize \/ CreateDirent
  \/ CreateRootSize \/ Open \/ WriteData \/ WriteSize \/ Check2
  \/ Reboot \/ Finished

Spec == Init /\ [][Next]_vars

-----------------------------------------------------------------------------
TypeOK ==
  /\ bitmap \subseteq Regions
  /\ ino \in [Inums -> Dinode]
  /\ dir \in [0..NDIR-1 -> [name : {big}, inum : Inums]]
  /\ data \in [Regions \cup {NoRegion} -> [Blks -> Blks \cup {NoVal}]]
  /\ ifSize \in 2..NINO
  /\ loc \in [inum : Inums, start : Regions \cup {NoRegion}, blk : 0..NBLK]
  /\ crashes \in 0..MaxCrashes
  /\ halt \in {"none", "ub", "panic"}

(***************************************************************************)
(* Whatever bwrite the machine reboots before, the disk passes check1: a  *)
(* directory entry for big.txt names a dinode inside the inode file, of    *)
(* type T_FILE, at most three blocks long, whose blocks below its size     *)
(* hold what was written there.  sys_open writes the dinode and the inode *)
(* file's size before the directory entry and the root's size, and writei *)
(* writes the data before the size.                                        *)
(***************************************************************************)
CrashConsistent ==
  LET i == Lookup(big) IN
  i # 0 => /\ i < ino[INODEFILEINO].size
           /\ ino[i].type = T_FILE
           /\ ino[i].size <= NBLK
           /\ Intact(i)

(***************************************************************************)
(* The kernel never reads a dinode past the inode file's in-memory size or *)
(* of type 0: init_inodefile is called after each create, so the new file *)
(* is loadable, and a reboot reloads the size.                             *)
(***************************************************************************)
NoUB == halt = "none"

(***************************************************************************)
(* The regions of the dinodes that creates have added to the inode file,   *)
(* leaked or not, are marked in the bitmap and pairwise distinct, across   *)
(* every reboot: setBitmapWithDinode writes the bitmap block before the    *)
(* dinode is written, so a create after a reboot never hands out a region  *)
(* a dinode written before it still names.                                 *)
(***************************************************************************)
RegionsExclusive ==
  LET created == {i \in Inums : ROOTINO < i /\ i < ino[INODEFILEINO].size
                                /\ ino[i].start # NoRegion}
  IN  \A i \in created :
        /\ ino[i].start \in bitmap
        /\ \A j \in created \ {i} : ino[i].start # ino[j].start

(***************************************************************************)
(* No file data ever lands on blocks 0-2 (boot block, superblock): every  *)
(* file gets a region of its own.  setBitmapWithDinode returns without     *)
(* error when no 20 free blocks are left, the dinode keeps startblkno 0,   *)
(* and writei then writes block startblkno + off/BSIZE; each reboot between *)
(* the bitmap write and the directory entry leaks a region for good.       *)
(***************************************************************************)
NoBootBlockWrite == \A b \in Blks : data[NoRegion][b] = NoVal
====
