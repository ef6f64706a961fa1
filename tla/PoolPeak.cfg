SPECIFICATION ObservedSpec
CONSTANTS
  a1 = a1
  a2 = a2
  Allocations <- MCAllocations
  Sizes <- SizesSmall
  Budget = 0
  Modulus = 16
  MaxCalls = 2
INVARIANTS
  PeakCoversResident
