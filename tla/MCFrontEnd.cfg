SPECIFICATION FeSpec
CONSTANTS
  NumHalves = 16
  Compressed <- MCCompressed
  Kind <- MCKind
  Targets <- MCTargets
  BootAddr = 0
  UpperPrefetch = TRUE
  Mtvec = 14
  DebuggerPcs = {1, 6}
  BootWrites = FALSE
INVARIANTS
  ExecutedInOrder
PROPERTIES
  FrontEndLives
