SPECIFICATION Spec
CONSTANTS
  t1 = t1
  t2 = t2
  Thread <- Threads
  AddrPages = 4
  Lazy <- FewPages
  Image <- FewImagePages
  Removable <- NoPages
  Unmappable <- OtherPage
  MayExit = FALSE
  Absent = Absent
  Zero = Zero
  MayBreak <- NoActor
  QueueSize = 2
  BatchSize = 2
  HotPages <- NoFile
  HotReadable = TRUE
  EagerBatch = 2
  HistorySize = 4
  MaxStride = 2
  MaxTargets = 2
  PolicyQueue = 2
  MaxSeq = 2
  MaxStrideCount = 2
  DupDisable = 80
  DupHalve = 50
  Cooldown = 1
  Adaptive = FALSE
  InitialConfig <- SequentialConfig
  WindowFaults = 2
  MaxFaults = 3
  MaySignal = FALSE
INVARIANT
  DumpContents
