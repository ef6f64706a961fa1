SPECIFICATION SystemSpec
CONSTANTS
  t1 = t1
  t2 = t2
  t3 = t3
  Threads <- MCThreads
  Capacity = 2
  Jobs = {1, 2, 3, 4}
  MaxDepth = 2
  Users <- Pair
  LogSinks <- MCLogSinks
  LogEvents <- MCLogEvents
  MaxLogSinkCount = 2
  MaxEvents = 2
  MaxSwitches = 2
  Main = "main"
  Blocks = {"b1", "b2"}
  Budget = 2
  MemoryDescs <- MCMemoryDescs
  Requests <- MCRequests
  ReportCapacity <- MCReportCapacity
  MaxContexts = 3
  TrackerCapacity = 1
  MaxCalls = 2
  MaxStarts = 2
  Launches = {1}
  MaxWrites = 2
  DrainLimit = 1
  MaxFaults = 1
  Objects = {"o1", "o2"}
  Natives = {"n1", "n2"}
  Infos <- MCInfos
  LongMax = 3
  Releases <- MCReleases
  SemaphoreDescs <- MCSemaphoreDescs
  Maxima <- MCMaxima
  MaxChunk = 4
  MaxProduced = 12
  ObjectCounts = {1, 2, 3}
  ObjectStrides = {8, 16}
  AddressSpace = 32
  LinearStart = 20
  LinearSize = 8
  Sizes = {1, 3, 10}
  Alignments = {1, 4, 16}
  MaxUsed = 4
  MaxLinear = 4
  MaxUint64 = 63
  NanosecondsPerSecond = 4
  NanosecondsPerMillisecond = 2
  MaxTimeT = 20
  MaxWaitMilliseconds = 25
  MaximumTimeoutMilliseconds = 12
  MaximumOutputBytes = 10
  TimeUnits <- MCTimeUnits
  ByteUnits <- MCByteUnits
  Arguments <- MCArguments
  MaxArguments = 3
INVARIANTS
  NoSignalLost
  EventsAccounted
  LeakReportTruthful
  CapturesReports
  CountsBalance
  JobContained
  ThreadsOwned
  JobsRunInOrder
  OutputKept
  BlocksDisjoint
  ConversionsExact
PROPERTIES
  TimedWaitsEnd
  ImplementsEvent
  PrimitivesKept
CHECK_DEADLOCK FALSE
