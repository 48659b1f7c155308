SPECIFICATION FairSpec
CONSTANTS
  t1 = t1
  t2 = t2
  Thread <- Threads
  AddrPages = 4
  Lazy <- FewPages
  Image <- FewImagePages
  Removable <- OnePage
  Unmappable <- OtherPage
  MayExit = TRUE
  Absent = Absent
  Zero = Zero
  MayBreak <- NoActor
  QueueSize = 1
  BatchSize = 2
  HotPages <- NoFile
  HotReadable = TRUE
  EagerBatch = 2
  HistorySize = 4
  MaxStride = 2
  MaxTargets = 2
  PolicyQueue = 1
  MaxSeq = 2
  MaxStrideCount = 2
  DupDisable = 80
  DupHalve = 50
  Cooldown = 1
  Adaptive = FALSE
  InitialConfig <- OneAheadConfig
  WindowFaults = 2
  MaxFaults = 2
  MaySignal = FALSE
PROPERTIES
  LifecycleCallsReturn

