SPECIFICATION Spec
CONSTANTS
  PrimaryKey = {p1, p2}
  Index = {i1, i2}
  SecondaryKey = {k1, k2, k3}
  Payload = {d}
  NoRow = NoRow
  NoKey = NoKey
INVARIANTS
  TypeOK
  IndicesMirrorRows
  WalkInvariant
PROPERTY
  ImplementsTableSpec
SYMMETRY Symmetry
