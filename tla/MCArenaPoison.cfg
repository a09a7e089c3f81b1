SPECIFICATION VtableSpec
SYMMETRY HandleSymmetry
CONSTANTS
  Handle = {h1, h2}
  PageBases <- WideBases
  AddrMax = 15
  SizeT = 2
  MaxAlign = 4
  SizeMax = 31
  DefaultPageSize = 4
  PageSizes = {0}
  Sizes = {}
  Alignments = {}
  Requests <- SmallRequests
  KeepCounts = {0}
  Percents = {0}
  Debug = TRUE
  Data = {}
  Zero = Zero
  Poison = Poison
  Junk = Junk
  Src = Src
PROPERTIES
  WritesInsidePages
