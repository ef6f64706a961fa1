SPECIFICATION FairSemaphoreSpec
CONSTANTS
  t1 = t1
  t2 = t2
  t3 = t3
  Threads <- MCThreads
  Descs <- MCDescs
  Releases <- MCReleases
  Modulus = 4
INVARIANTS
  NoWakeupLost
PROPERTIES
  TimedWaitsEnd
  ImplementsSemaphore
