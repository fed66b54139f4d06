CONSTANTS
  t1 = t1
  t2 = t2
  va1 = va1
  NoVa = NoVa
  Frames <- MCFrames
  Slots = {}
  VAddrs <- MCVAddrs
  Threads <- OneThread
  MaxRef = 2
  CounterBound = 5
SPECIFICATION KSpec
INVARIANT FreeListExact
CHECK_DEADLOCK FALSE
