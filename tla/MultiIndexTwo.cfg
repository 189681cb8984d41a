SPECIFICATION Spec
CONSTANTS
  Instance = {a, b}
  Word = 3
  MaxSec = 2
  MaxStores = 1
  MaxDepth = 1
INVARIANTS
  IndexMirrorsRows
\* the transaction is over after a failed check
CHECK_DEADLOCK FALSE
