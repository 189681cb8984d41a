SPECIFICATION Spec
CONSTANTS
  HeapBase = 1
  Page = 6
  InitPages = 1
  MaxPages = 2
  Classes <- MCClasses
  MaxChunks = 2
  Word = 32
  AlignWrap = 4
  Request = {1, 2, 31}
  Alignment = {1, 2}
INVARIANTS
  TypeOK
  NoOverlap
  ChunksAreMerged
  InMemory
  BlocksFit
PROPERTY
  OnlyTheSmallestIsDropped
\* the transaction is over after a failed check or a trap
CHECK_DEADLOCK FALSE
