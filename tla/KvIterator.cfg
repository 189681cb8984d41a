SPECIFICATION Spec
CONSTANTS
  MaxKey = 3
  Iterator = {i1, i2}
INVARIANTS
  TypeOK
  HandlesAreOwned
  WalksAreComplete
  ReadsAreCurrent
  RangeIsExact
  EqualIteratorsStepBackAlike
PROPERTY
  NoKeyIsMetTwice
SYMMETRY Symmetry
\* the transaction is over after a failed check
CHECK_DEADLOCK FALSE
