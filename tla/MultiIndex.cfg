SPECIFICATION Spec
CONSTANTS
  Instance = {a}
  Word = 4
  MaxSec = 2
  MaxStores = 2
  MaxDepth = 2
INVARIANTS
  TypeOK
  IndexMirrorsRows
  CacheIsCurrent
  AvailableKeyIsFree
\* the transaction is over after a failed check
CHECK_DEADLOCK FALSE
