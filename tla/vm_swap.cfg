CONSTANTS
  p1 = p1
  p2 = p2
  p3 = p3
  a = a
  b = b
  NoVa = NoVa
  Zero = Zero
  Junk = Junk
  Frames = {1}
  Slots = {2, 3}
  VAddrs = {1, 2}
  MaxHeap = 2
  MaxForks = 0
  MultiCPU = FALSE
  Procs <- MCProcs
  InitProcs <- MCInit
  Vals <- MCVals
SPECIFICATION Spec
INVARIANT TypeOK MemoryIntegrity RefCountExact SlotRefExact FreeListExact NoCrash
CHECK_DEADLOCK FALSE
