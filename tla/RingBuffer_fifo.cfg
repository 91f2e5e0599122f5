CONSTANTS
  Size = 7
  Margin = 3
  MaxBytes = 16
SPECIFICATION Spec
INVARIANTS TypeOK LentIntact NeverStuck
PROPERTIES MarginPromise Refinement
CHECK_DEADLOCK FALSE
