SPECIFICATION Spec
CONSTANTS
  Byte = 4
  MapKey <- MCKey
  Iterator = {i1, i2}
INVARIANTS
  WalksReachTheEnd
\* the transaction is over after a failed check
CHECK_DEADLOCK FALSE
