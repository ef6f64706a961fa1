SPECIFICATION Spec
CONSTANTS
  p1 = p1
  p2 = p2
  p3 = p3
  r1 = r1
  r2 = r2
  None = None
  Null = Null
  Pointers <- MCPointers
  Home <- FullHome
  Records <- MCRecords
  Capacity = 2
  Modulus = 2
INVARIANTS
  OneSlotPerPointer
  EveryPointerReachable
  ReportComplete
PROPERTIES
  ImplementsMap
