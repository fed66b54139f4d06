CONSTANTS
  NPROC = 2
  NOFILE = 2
  NFILE = 2
  NPIPE = 1
  MaxBytes = 2
  MaxWrite = 1
  MaxForks = 2
  Inodes <- NoInodes
  InodeSize <- MCInodeSize
SPECIFICATION Spec
INVARIANT TypeOK FileRefExact PipeRefExact
PROPERTY ReaderReleased
CHECK_DEADLOCK FALSE
