SPECIFICATION Spec
SYMMETRY ValueSymmetry
CONSTANTS
  MaxNodes = 4
  Capacity = 2
  Debug = TRUE
  Value = {v1, v2}
  Zero = Zero
  Poison = Poison
  Junk = Junk
  Unset = Unset
  NotHeld = NotHeld
INVARIANTS
  TypeOK
  OnePlaceForEveryNode
  ContentsKept
  CountIsLive
  HighWater
  BucketsFollowPeak
  FreedStayPoisoned
PROPERTIES
  ImplementsNodePool
