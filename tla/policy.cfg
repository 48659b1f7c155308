SPECIFICATION Spec
CONSTANTS
  PolicyQueue = 64
  MaxSeq = 6
  MaxStrideCount = 3
  DupDisable = 80
  DupHalve = 50
  Cooldown = 3
  Windows <- SampleWindows
  InitialConfigs <- StartConfigs
PROPERTIES
  EnabledLooksAhead
  ProbeAfterCooldown
  PressureNarrows
  ReenabledOnceDrained
  DeepQueueTurnsOff
