SPECIFICATION SpecByKey
CONSTANTS
  PrimaryKey = {p1, p2}
  Index = {i1, i2}
  SecondaryKey = {k1, k2}
  Payload = {d}
  NoRow = NoRow
  NoKey = NoKey
INVARIANT
  ErasedRowsLeaveNoEntry
