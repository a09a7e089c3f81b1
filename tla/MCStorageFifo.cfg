SPECIFICATION Spec
SYMMETRY ValueSymmetry
CONSTANTS
  MaxNodes = 3
  Capacity = 2
  Debug = FALSE
  Value = {v1, v2}
  Zero = Zero
  Poison = Poison
  Junk = Junk
  Unset = Unset
  NotHeld = NotHeld
PROPERTIES
  ReusedInFifoOrder
