SPECIFICATION MCSpec
CONSTANTS
  Handoffs = 2
  RingSize = 3
  FifoDepth = 1
  Watermark = 0
  SpiLen = 2
  Polls = 1
  Late = {"sem_done"}
  Devices = {"none", "spi", "gpio", "uart"}
  Callers = {"t1", "t2"}
  Transfers <- MCTransfers
  Slaves = {"s0", "s1"}
  PortPins = {0, 1}
  AllPins = {0, 1, 2}
  Depth = 2
  CallbackEnables = FALSE
  SpiShared = FALSE
  ConfigureAnytime = FALSE
INVARIANTS
  SpiAnswers
  UpdatesKept
PROPERTIES
  ConsoleSends
  ImageEnds
CHECK_DEADLOCK FALSE
