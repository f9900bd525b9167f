SPECIFICATION Spec
CONSTANTS
  NumBanks = 2
  Addrs <- MCAddrs
  Data <- MCData
  InitMem <- MCInitMem
  LoadBypass = FALSE
  Workloads <- MCWorkloads
  SbaStores <- MCSbaStores
  SbaData = {1}
  DmaWords = {1}
  SbaUncoordinated = FALSE
INVARIANTS
  LoadsSeeProgram
  PendingIsHeld
PROPERTIES
  BackendAdvances
