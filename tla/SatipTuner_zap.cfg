CONSTANTS
  s1 = s1
  s2 = s2
  t1 = t1
  t2 = t2
  p1 = p1
  p2 = p2
  None = None
  Servers = {s1, s2}
  Transponders = {t1, t2}
  Pids = {}
  TearAndPlay = {}
  ForceLock = {}
  PlayPids = {}
  Answers = {"ok", "fail"}
  MaxRequests = 1
SPECIFICATION Spec
INVARIANTS TypeOK NoLostZap TeardownAtIssuer IdleMeansReleased AttachedIsCurrent
CHECK_DEADLOCK FALSE
