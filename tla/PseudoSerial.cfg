SPECIFICATION LiveSpec
CONSTANTS
  c1 = c1
  c2 = c2
  f1 = f1
  f2 = f2
  NoFid = NoFid
  Programs <- SerialPrograms
  OverflowChecks = TRUE
  Client = {c1, c2}
  Fid = {f1}
  Name = {"7", "ctl", "tcp"}
  MaxNames = 2
  Hosts <- SmallHosts
PROPERTIES NobodyWaitsForEver
