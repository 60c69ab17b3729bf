SPECIFICATION LiveSpec
CONSTANTS
  c1 = c1
  c2 = c2
  f1 = f1
  a = a
  NoFid = NoFid
  Free = Free
  Client = {c1, c2}
  Fid = {f1}
  Name = {a}
  Byte = {0, 1}
  Word = 8
  OverflowChecks = TRUE
  Component <- AllComponents
  Walks <- AllWalks
  OpenMode = {2}
  NewStat <- AllStats
  Offset = {0, 7}
  Count = {1}
  Buffer <- AllBuffers
  SeedFile = {a}
  SeedData <- NoData
  MaxDepth = 1
  Message <- FlowMessages
  SocketRoom = 1
PROPERTIES GuardComesBack NobodyWaitsForNothing StallsSpareTheTable
