SPECIFICATION Spec
CONSTANTS
  c1 = c1
  c2 = c2
  f1 = f1
  f2 = f2
  a = a
  b = b
  NoFid = NoFid
  Client = {c1, c2}
  Fid = {f1, f2}
  Name = {a, b}
  Byte = {0, 1}
  Word = 8
  OverflowChecks = FALSE
  Component <- DataComponents
  Walks <- DataWalks
  OpenMode = {0, 1}
  NewStat <- DataStats
  Offset = {0, 1, 7}
  Count = {1}
  Buffer <- DataBuffers
  SeedFile = {a, b}
  SeedData <- DataSeed
  MaxDepth = 2
VIEW View
SYMMETRY FidSymmetry
PROPERTIES OnlyResizePanics ErrorsChangeNothing PoisonFreezesTheTree WritesNeedWriteMode OpenModesAreGranted
