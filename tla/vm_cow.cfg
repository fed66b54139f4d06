CONSTANTS
  p1 = p1
  p2 = p2
  p3 = p3
  a = a
  b = b
  NoVa = NoVa
  Zero = Zero
  Junk = Junk
  Frames = {1, 2, 3, 4}
  Slots = {5, 6}
  VAddrs = {1, 2}
  MaxHeap = 2
  MaxForks = 1
  MultiCPU = FALSE
  Procs <- MCProcs
  InitProcs <- MCInit
  Vals <- OneVal
SPECIFICATION Spec
INVARIANT MemoryIntegrity CowIsolation RefCountExact FreeListExact NoCrash
CHECK_DEADLOCK FALSE
