SPECIFICATION Spec
CONSTANTS
  c1 = c1
  c2 = c2
  f1 = f1
  f2 = f2
  NoFid = NoFid
  Programs <- AllPrograms
  OverflowChecks = TRUE
  Client = {c1, c2}
  Fid = {f1, f2}
  Name = {"7", "status", "fd", "0", "ctl", "tcp", "null"}
  MaxNames = 2
  Hosts <- SmallHosts
VIEW View
SYMMETRY Symmetry
INVARIANT TypeOK
PROPERTIES AnswersShowTheLiving ErrorsKeepFids PanicsAreKnown PoisonSilencesTheTree
CHECK_DEADLOCK FALSE
