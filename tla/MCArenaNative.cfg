SPECIFICATION NativeSpec
SYMMETRY HandleSymmetry
CONSTANTS
  Handle = {h1, h2}
  PageBases <- ThreeBases
  AddrMax = 13
  SizeT = 1
  MaxAlign = 2
  SizeMax = 31
  DefaultPageSize = 3
  PageSizes = {0}
  Sizes = {1, 2}
  Alignments = {4}
  Requests = {}
  KeepCounts = {0}
  Percents = {60}
  Debug = TRUE
  Data = {}
  Zero = Zero
  Poison = Poison
  Junk = Junk
  Src = Src
INVARIANTS
  TypeOK
  IInv
  CursorInPage
  BlocksBehindCursor
  BlocksApart
  ContentsKept
  LastIsOnTop
PROPERTIES
  AlignedWherePlaced
  WritesInsidePages
  ImplementsRegion
