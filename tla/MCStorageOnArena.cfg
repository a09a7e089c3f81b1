SPECIFICATION SystemSpec
CONSTANTS
  Handle <- Blocks012
  PageBases <- Bases
  AddrMax = 29
  SizeT = 1
  MaxAlign = 2
  SizeMax = 127
  DefaultPageSize = 12
  PageSizes = {0, 16}
  Sizes = {}
  Alignments = {}
  Requests = {}
  KeepCounts = {0}
  Percents = {}
  Debug = TRUE
  Data <- StoredBytes
  Zero = Zero
  Poison = Poison
  Junk = Junk
  Src = Src
  MaxBuckets = 2
  Capacity = 2
  HeadSize = 1
  NodeSize = 1
  FreedShares = {1, 2, 32}
  FirstSlots = 2
  Value = {v1}
  Unset = Unset
  NotHeld = NotHeld
INVARIANTS
  SystemTypeOK
  FreedHeaderKept
  BodiesApart
  RInv
PROPERTIES
  ImplementsStorage
