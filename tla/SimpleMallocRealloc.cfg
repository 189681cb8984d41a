SPECIFICATION Spec
CONSTANTS
  HeapBase = 1
  Page = 4
  InitPages = 1
  MaxPages = 3
  Classes <- MCShort
  MaxChunks = 2
  Word = 32
  AlignWrap = 4
  Request = {1, 2, 4}
  Alignment = {1}
INVARIANTS
  ReallocReadsAreHarmless
\* the transaction is over after a failed check or a trap
CHECK_DEADLOCK FALSE
