CONSTANTS
  big = big
  NREG = 4
  NINO = 6
  NDIR = 4
  NBLK = 3
  MaxCrashes = 3
SPECIFICATION Spec
INVARIANT TypeOK CrashConsistent NoUB RegionsExclusive
