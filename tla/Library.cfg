SPECIFICATION LibrarySpec
CONSTANTS
  Byte = 4
  MapKey <- MCKey
  Iterator = {i1, i2}
  NaN = NaN
  Nul = Nul
  RopeText <- MCText
  MaxNodes = 6
  NoValue = NoValue
  PublicKey = {k1, k2, k3}
  Letters = {a, b}
  Variable = {x, y}
  Setting = {v1, v2, v3}
  MaxStores = 3
  Word = 8
  MaxBuffer = 3
  Extension = {1, 2}
  Payload = {"v", "w"}
  DefaultPayload = "v"
  MovedPayload = "moved"
  RawPayload = "raw"
  MaxStream = 2
  Actions = {transfer, issue}
  Skip = {0, 499, 500, 1250}
  Expire = 1
  MaxBlocks = 5
  MaxEvents = 2
  NameByte = 3
  Indices = 3
  TableKey <- MCTableKey
  RowType <- MCRowType
  RowBytes <- MCRowBytes
  RowKey = {"k", "l"}
  RowValue <- MCRowValue
  RawBytes <- MCRawBytes
  Payer = {"self", "user"}
  Self = "self"
  Other = "other"
  OtherBytes <- MCOtherBytes
  RowLists <- MCElements
  Wrapper = {"w", "x"}
  MaxStatic = 1
  MaxAsks = 4
  Handlers <- MCHandlers
  Legacy <- MCLegacy
  Codeless = "c"
  Arguments <- MCArguments
  Users <- MCUsers
  Width = 4
  MaxSends = 2
  InitialHeap = 1
  InitialSize = 6
  Page = 8
  Reserve = 2
  MaxPages = 3
  MaxHeaps = 3
  HeapRequest = {0, 1, 4, 9}
  SbrkSize = {1, 6}
  MaxHeld = 4
  MaxAllocs = 5
INVARIANTS
  ReadsAreCurrent
  SliceIsExact
  PlainUpperBoundIsNext
  NumbersAreExact
  RowsAreKept
  TextsAreWhole
  StaysInBuffer
  TransactionsAreTimely
  FilesAreFaithful
  ExtensionsHoldValues
  HeapsAreTiled
  TraceIsTransparent
  ActionsArriveAsSent
PROPERTY
  ImplementsCell
\* transactions are over after a failed check, and calls after their answer
CHECK_DEADLOCK FALSE
