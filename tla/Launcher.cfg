CONSTANTS
  sh = sh
  c1 = c1
  c2 = c2
  path1 = path1
  path2 = path2
  slashed = slashed
  ProcfsPort = ProcfsPort
  SrvfsPort = SrvfsPort
  Nobody = Nobody
  Shell = {sh}
  Command = {c1, c2}
  Path = {path1, path2, slashed}
  Slashed = {slashed}
  Plan <- MixedPlans
SPECIFICATION LiveSpec
INVARIANTS TypeOK NothingOutlivesTheLaunch MountsAreHeld MuteChildrenInherit RemovalStaysOutside
PROPERTIES ShellsServeLaunches
CHECK_DEADLOCK FALSE
