SPECIFICATION FairSpec
CONSTANTS
  a1 = a1
  a2 = a2
  Allocations <- MCAllocations
  Sizes <- SizesAll
  Budget = 3
  Modulus = 5
  MaxCalls = 3
INVARIANTS
  CurrentMatchesHolding
  WithinBudget
  PeakCoversLive
  QuiescentTotals
PROPERTIES
  PeakNeverFalls
  CallsReturn
