CONSTANTS
  s1 = s1
  s2 = s2
  t1 = t1
  t2 = t2
  p1 = p1
  p2 = p2
  None = None
  Servers = {s1}
  Transponders = {t1, t2}
  Pids = {p1}
  TearAndPlay = {s1}
  ForceLock = {s1}
  PlayPids = {}
  Answers = {"ok"}
  MaxRequests = 1
SPECIFICATION FairSpec
INVARIANTS AddsNotLost PidSetsConsistent
PROPERTIES ReleaseHonoured ZapServed
CHECK_DEADLOCK FALSE
