CONSTANTS
  t1 = t1
  t2 = t2
  t3 = t3
  c1 = c1
  c2 = c2
  low = low
  high = high
  NoTransponder = NoTransponder
  Off = Off
  V13 = V13
  None = None
  Tuners = {t1, t2}
  Transponders = {c1, c2}
  Band <- MCBand
  Broken = {}
  MaxPriority = 2
  DiSEqC = TRUE
SPECIFICATION Spec
INVARIANTS CableSound
PROPERTIES NotDisturbed LockIsFresh
SYMMETRY MCSymmetry
