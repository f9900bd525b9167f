SPECIFICATION Spec
CONSTANTS
  WordMod = 256
  SramBase = 64
  SramSize = 144
  UartBase = 4
  MaxDescriptors = 3
  DescAddrs <- MCDescAddrs
  Templates <- MCChain
  Heads <- MCHeads
  Transfers <- MCTransfers
  Memory0 <- MCMemory
  ErrWords = {}
  MaxStarts = 1
  MaxAborts = 0
  PrepareWhileBusy = FALSE
PROPERTIES
  UnreadOutcomeKept
CHECK_DEADLOCK FALSE
