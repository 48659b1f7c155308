SPECIFICATION Spec
CONSTANTS
  Page <- Pages
  IdlePages <- Idle
  Layouts <- Maps
  Samples = 2
  Nothing = Nothing
  MaxFaults = 1
  MayDie = FALSE
INVARIANT
  BallotIsFresh
