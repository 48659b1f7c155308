SPECIFICATION Spec
CONSTANTS
  u1 = u1
  u2 = u2
  User <- Users
  Address <- Asked
  InitialCap = 4
  MaxCap = 8
  Multiplier = 5
  LoadFactor = 75
SYMMETRY Symmetry
INVARIANTS
  RoomLeft
  CountExact
PROPERTIES
  ImplementsSet
