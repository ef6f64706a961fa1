SPECIFICATION RunTestsSpec
CONSTANTS
  Launches <- MCLaunches
  Programs <- MCPrograms
  DrainLimit = 1
  Darwin = TRUE
  MaxFaults = 1
  TestLists <- MCTestLists
  OptionSets <- MCOptionSets
  HardwareThreads = 2
  Workers <- MCWorkers
  Missing <- MCMissing
INVARIANTS LaunchStatusFinal Contained VerdictTruthful AllReported
PROPERTIES NoSignalAfterReap RunnerEnds
CHECK_DEADLOCK FALSE
