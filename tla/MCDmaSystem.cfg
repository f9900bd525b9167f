SPECIFICATION Spec
CONSTANTS
  WordMod = 256
  SramBase = 64
  SramSize = 144
  UartBase = 4
  MaxDescriptors = 2
  DescAddrs <- MCDescAddrs
  Templates <- MCTemplates
  Heads <- MCHeads
  Transfers <- MCTransfers
  Memory0 <- MCMemory
  ErrWords <- MCErrWords
  MaxStarts = 2
  MaxAborts = 1
  PrepareWhileBusy = FALSE
INVARIANTS
  OutcomeExclusive
  PayloadExact
  WritesConfined
  TakenAsGiven
PROPERTIES
  HandbackTruth
  BusyEnds
  EndReported
CHECK_DEADLOCK FALSE
