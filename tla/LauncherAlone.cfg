CONSTANTS
  sh = sh
  c1 = c1
  c2 = c2
  path1 = path1
  path2 = path2
  slashed = slashed
  ProcfsPort = ProcfsPort
  SrvfsPort = SrvfsPort
  Nobody = Nobody
  Shell = {}
  Command = {c1}
  Path = {path1, path2, slashed}
  Slashed = {slashed}
  Plan <- AlonePlans
SPECIFICATION LiveSpec
PROPERTIES LaunchesTheCommand
CHECK_DEADLOCK FALSE
