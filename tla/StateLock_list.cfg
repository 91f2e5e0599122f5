CONSTANTS
  t1 = t1
  t2 = t2
  k1 = k1
  k2 = k2
  k3 = k3
  None = None
  Threads = {t1, t2}
  Keys = {k1, k2, k3}
  Owner <- MCOwner
  IgnoreFirst = {k2}
  MaxState = 1
SPECIFICATION FairSpec
INVARIANTS LockSound NoMissedChange
PROPERTIES ReaderServed
