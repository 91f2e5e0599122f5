CONSTANTS
  r1 = r1
  r2 = r2
  r3 = r3
  p1 = p1
  p2 = p2
  p3 = p3
  u1 = u1
  Dev = Dev
  None = None
  Receivers = {r1, r2, r3}
  Pids = {p1, p2, p3}
  PidsOf <- MCPidsOf
  Scrambled = {r3}
  Users = {u1}
  Slots = 2
  Handles = 2
SPECIFICATION FairSpec
INVARIANTS PidsSound
PROPERTIES ReceiveWhenActivated ThreadEnds
