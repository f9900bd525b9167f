SPECIFICATION Spec
CONSTANTS
  Keys = {"S", "q", "b", "r", "w", "d"}
  QueueLen = 2
  MaxKeys = 3
  MaxExpire = 2
INVARIANTS
  StreamSound
PROPERTIES
  KeysServed
CHECK_DEADLOCK FALSE
