SPECIFICATION Spec
CONSTANTS
  c1 = c1
  c2 = c2
  f1 = f1
  f2 = f2
  a = a
  b = b
  NoFid = NoFid
  Client = {c1, c2}
  Fid = {f1}
  Name = {a, b}
  Byte = {0, 1}
  Word = 8
  OverflowChecks = TRUE
  Component <- TreeComponents
  Walks <- TreeWalks
  OpenMode = {1}
  NewStat <- TreeStats
  Offset = {0}
  Count = {0}
  Buffer <- TreeBuffers
  SeedFile = {a}
  SeedData <- NoData
  MaxDepth = 2
VIEW View
SYMMETRY TreeSymmetry
INVARIANTS TypeOK TreeIntact
PROPERTIES CreateNeverClobbers RenameKeepsEveryInode PathsComeAndGo NewFidsAreLive
