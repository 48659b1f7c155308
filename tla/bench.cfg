SPECIFICATION FairSpec
CONSTANTS
  Page <- Pages
  IdlePages <- Idle
  Layouts <- Maps
  Samples = 2
  Nothing = Nothing
  MaxFaults = 1
  MayDie = TRUE
INVARIANTS
  MajorityDecides
  ReadingIsComplete
  AnswerIsFresh
  NothingLeftRunning
PROPERTIES
  IterationEnds
