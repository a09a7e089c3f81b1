SPECIFICATION Spec
SYMMETRY ValueSymmetry
CONSTANTS
  UintMod = 5
  MaxNodes = 4
  Capacity = 1
  Debug = TRUE
  Value = {v1, v2}
  Poison = Poison
  Junk = Junk
  Unset = Unset
  NotHeld = NotHeld
INVARIANTS
  TypeOK
  OnePlaceForEveryIndex
  ContentsKept
  CountIsLive
  HighWater
PROPERTIES
  MovesOnlyToGrow
  ImplementsNodePool
