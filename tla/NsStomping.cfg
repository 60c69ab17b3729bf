SPECIFICATION Spec
CONSTANTS
  b1 = b1
  b2 = b2
  n1 = n1
  n2 = n2
  v = v
  proc = proc
  srv = srv
  tmp = tmp
  s1 = s1
  s2 = s2
  a1 = a1
  ap = ap
  as = as
  Target = {proc, srv, tmp}
  Source = {s1, s2}
  NoSource = s1
  Addr = {a1, ap, as}
  NoAddr = NoAddr
  ProcfsTarget = proc
  SrvfsTarget = srv
  ProcfsAddr = ap
  SrvfsAddr = as
  Proc = {b1, b2, n1}
  Shell = {n1}
  Wants <- BindsAndShell
  Flags <- NoFlags
  MayFail = FALSE
  MaxMoves = 0
  Viewer = {}
INVARIANT NoStomping
CHECK_DEADLOCK FALSE
