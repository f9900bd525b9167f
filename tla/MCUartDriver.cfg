SPECIFICATION Spec
CONSTANTS
  Products = {"m0", "m2"}
  TxRing = 2
  RxRing = 1
  TxDepth = 2
  RxDepth = 2
  TxWatermark = 0
  WriteLengths = {1, 3}
  MaxTx = 5
  MaxRx = 4
INVARIANTS
  TxSound
  RxAccounted
PROPERTIES
  NoWakeupLost
CHECK_DEADLOCK FALSE
