CONSTANTS
  NPROC = 2
  NOFILE = 2
  NFILE = 2
  NPIPE = 1
  MaxBytes = 2
  MaxWrite = 1
  MaxForks = 1
  Inodes <- NoInodes
  InodeSize <- MCInodeSize
SPECIFICATION Spec
PROPERTY WaitReaps
CHECK_DEADLOCK FALSE
