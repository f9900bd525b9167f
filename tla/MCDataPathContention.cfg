SPECIFICATION Spec
CONSTANTS
  NumBanks = 2
  Addrs <- MCAddrs
  Data <- MCData
  InitMem <- MCInitMem
  LoadBypass = FALSE
  Workloads <- MCContention
  SbaStores <- MCSbaStores
  SbaData = {1}
  DmaWords = {0}
  SbaUncoordinated = FALSE
INVARIANTS
  PendingIsHeld
