SPECIFICATION MCSpec
CONSTANTS
  Units <- MCUnits
  Aliased <- MCAliased
  BaseName <- MCBaseName
  Byte = "int8"
  Fields <- MCFields
  Labels <- MCLabels
  Base <- MCBase
  Underlying <- MCUnderlying
  Contracts <- MCContracts
  Reserved = {"Part__1", "say__it"}
  AbiVersion = 10
  MaxStack = 30
  ValidNames = {"self", "other", "third", "hi", "bye"}
  MaxFrames = 4
  KnownMessages = {"Known"}
INVARIANTS
  AbiDescribesProgram
  ReadOnlyIsSound
  CallsArrive
  StackSuffices
PROPERTIES
  BuildsRun
CHECK_DEADLOCK FALSE
