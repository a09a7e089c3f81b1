SPECIFICATION NativeSpec
SYMMETRY HandleSymmetry
CONSTANTS
  Handle = {h1, h2}
  PageBases <- Bases
  AddrMax = 15
  SizeT = 1
  MaxAlign = 2
  SizeMax = 31
  DefaultPageSize = 4
  PageSizes = {0}
  Sizes = {1, 2}
  Alignments = {1, 4}
  Requests = {}
  KeepCounts = {0, 2}
  Percents = {50}
  Debug = FALSE
  Data = {}
  Zero = Zero
  Poison = Poison
  Junk = Junk
  Src = Src
INVARIANTS
  Aligned
