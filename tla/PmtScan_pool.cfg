CONSTANTS
  o = o
  p1 = p1
  p2 = p2
  p3 = p3
  p4 = p4
  NoPid = NoPid
  Count = 3
  Others = {o}
  Pids = {p1, p2, p3, p4}
  PidOf <- OwnPids
  Limit = 1
  Slots = 3
  MaxReads = 1
SPECIFICATION FairSpec
INVARIANTS PoolSound OpenIsForwarded TablesAfterPmts
PROPERTIES PhaseEnds
CHECK_DEADLOCK FALSE
