CONSTANTS
  p1 = p1
  p2 = p2
  p3 = p3
  a = a
  b = b
  NoVa = NoVa
  Zero = Zero
  Junk = Junk
  Frames = {1, 2}
  Slots = {3, 4}
  VAddrs = {1, 2}
  MaxHeap = 2
  MaxForks = 0
  MultiCPU = FALSE
  Procs <- MCProcs
  InitProcs <- MCProcs
  Vals <- OneVal
SPECIFICATION Spec
INVARIANT MemoryIntegrity
CHECK_DEADLOCK FALSE
