SPECIFICATION Spec
CONSTANTS
  t1 = t1
  t2 = t2
  c16 = c16
  c32 = c32
  s1 = s1
  s2 = s2
  s3 = s3
  Null = Null
  Garbage = Garbage
  Threads <- MCThreads
  Classes <- MCClasses
  Slabs <- MCSlabs
  BlocksIn <- MCBlocksIn
  MaxSlabs = 2
  Modulus = 6
  MaxStarts = 2
INVARIANTS
  HandedOutOnce
  NoBlockLost
  SlabsAccounted
SYMMETRY Symmetry
CHECK_DEADLOCK FALSE
