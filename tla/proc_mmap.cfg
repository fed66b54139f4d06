CONSTANTS
  NPROC = 2
  NOFILE = 1
  NFILE = 2
  NPIPE = 0
  MaxBytes = 2
  MaxWrite = 1
  MaxForks = 3
  Inodes <- MCInodes
  InodeSize <- MCInodeSize
SPECIFICATION Spec
INVARIANT FileRefExact
CHECK_DEADLOCK FALSE
