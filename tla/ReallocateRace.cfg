SPECIFICATION Spec
CONSTANTS
  t1 = t1
  t2 = t2
  a1 = a1
  a2 = a2
  s1 = s1
  pool1 = pool1
  pool2 = pool2
  None = None
  Null = Null
  Threads <- MCThreads
  Addresses <- MCAddresses
  Sizes <- MCSizes
  ClassOf <- MCClassOf
  Area <- MCArea
  Pools <- OnePool
  Budget = 3
  Capacity = 3
  TrackFlags <- AlwaysTracked
  Reallocates = TRUE
  KeepsPool = TRUE
INVARIANTS
  OwnedTracked
SYMMETRY Symmetry
