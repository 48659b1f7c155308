SPECIFICATION FairSpec
CONSTANTS
  t1 = t1
  t2 = t2
  Thread <- Threads
  AddrPages = 4
  Lazy <- FewPages
  Image <- PrefetchedImagePage
  Removable <- NoPages
  Unmappable <- NoPages
  MayExit = TRUE
  Absent = Absent
  Zero = Zero
  MayBreak <- FaultAndPrefetch
  QueueSize = 2
  BatchSize = 2
  HotPages <- NoFile
  HotReadable = TRUE
  EagerBatch = 2
  HistorySize = 4
  MaxStride = 2
  MaxTargets = 2
  PolicyQueue = 2
  MaxSeq = 2
  MaxStrideCount = 2
  DupDisable = 80
  DupHalve = 50
  Cooldown = 1
  Adaptive = FALSE
  InitialConfig <- SequentialConfig
  WindowFaults = 2
  MaxFaults = 4
  MaySignal = TRUE
INVARIANT
  ServedIsPresent
PROPERTIES
  ImplementsService
  FaultResolved
  SignalStops
  QueuedIsInstalled

