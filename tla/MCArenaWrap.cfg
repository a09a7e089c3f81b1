SPECIFICATION VtableSpec
SYMMETRY HandleSymmetry
CONSTANTS
  Handle = {h1, h2}
  PageBases <- Bases
  AddrMax = 15
  SizeT = 1
  MaxAlign = 2
  SizeMax = 31
  DefaultPageSize = 6
  PageSizes = {0}
  Sizes = {}
  Alignments = {}
  Requests <- HugeRequests
  KeepCounts = {0}
  Percents = {0}
  Debug = TRUE
  Data = {}
  Zero = Zero
  Poison = Poison
  Junk = Junk
  Src = Src
INVARIANTS
  OversizedHaveTheirPage
