SPECIFICATION Spec
CONSTANTS
  t1 = t1
  t2 = t2
  Thread <- Threads
  AddrPages = 5
  Lazy <- LazyPages
  Image <- ImagePages
  Removable <- NoPages
  Unmappable <- NoPages
  MayExit = FALSE
  Absent = Absent
  Zero = Zero
  MayBreak <- OnlyEager
  QueueSize = 3
  BatchSize = 2
  HotPages <- HotFile
  HotReadable = TRUE
  EagerBatch = 2
  HistorySize = 4
  MaxStride = 2
  MaxTargets = 2
  PolicyQueue = 3
  MaxSeq = 2
  MaxStrideCount = 2
  DupDisable = 80
  DupHalve = 50
  Cooldown = 1
  Adaptive = TRUE
  InitialConfig <- SequentialConfig
  WindowFaults = 2
  MaxFaults = 4
  MaySignal = TRUE
SYMMETRY Symmetry
INVARIANTS
  TypeOK
  BlockedIsHandled
  ServedIsPresent
  ContentCorrect
  NoLostWakeup
  QueueDistinct
  ThreadsJoined
  StopDrains
  EagerComplete
  WindowsCountOnce
  NoWorkerNoQueue
PROPERTIES
  OffMeansQuiet
