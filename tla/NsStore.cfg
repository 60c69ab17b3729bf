SPECIFICATION Spec
CONSTANTS
  b1 = b1
  b2 = b2
  n1 = n1
  n2 = n2
  v = v
  proc = proc
  srv = srv
  tmp = tmp
  s1 = s1
  s2 = s2
  a1 = a1
  ap = ap
  as = as
  Target = {proc, srv, tmp}
  Source = {s1, s2}
  NoSource = s1
  Addr = {a1, ap, as}
  NoAddr = NoAddr
  ProcfsTarget = proc
  SrvfsTarget = srv
  ProcfsAddr = ap
  SrvfsAddr = as
  Proc = {b1, n1, n2, v}
  Shell = {n1, n2}
  Wants <- MixedWants
  Flags <- MixedFlags
  MayFail = TRUE
  MaxMoves = 1
  Viewer = {v}
INVARIANTS TypeOK NoInventedEntries AutoMountsYield PlanIsPieces NothingLostAlone FoundIsKept
PROPERTY RepairedAlone
CHECK_DEADLOCK FALSE
