CONSTANTS
  m1 = m1
  m2 = m2
  m3 = m3
  s1 = s1
  s2 = s2
  s3 = s3
  None = None
  Muxes = {m1, m2, m3}
  Initial = m1
  Services = {s1, s2, s3}
  Tid <- MCTid
  Pat <- MCPat
  Nit <- MCNit
  Sdt <- MCSdt
  PmtPid <- MCPmtPid
  NitInPat = {m1, m3}
  AV <- MCAV
  MaxLost = 0
SPECIFICATION Spec
INVARIANTS AllPartsOfNitSeen
CHECK_DEADLOCK FALSE
