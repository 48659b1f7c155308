SPECIFICATION Spec
CONSTANTS
  Workload <- Workloads
  Bad = Bad
  Absent = Absent
  Failed = Failed
  Plan <- Plans
  Outcome <- Outcomes
  Logs <- HandlerLogs
  SweepRow <- SweepRows
  MaxSweep = 3
INVARIANTS
  TypeOK
  PassIsMeasured
  QuestionsAreMeasured
  FailuresNeverHelp
  FiguresAgree
  SweepsMerged
