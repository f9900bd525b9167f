SPECIFICATION MCSpec
CONSTANTS
  Clients <- MCClients
  Loaded = {"wdt_smoke", "low_power", "sleeper", "dozer", "gater", "guard"}
  Pulse = 4
  Gap = 1
  Timeout = 16
  Pre = 10
  Period = 3
  BootModes = {"bypass", "jtag", "uart"}
  Depth = 4
  File <- MCFile
  ByteGap = 2
  Typed = {2, 3}
  Typing = 5
  Scripts <- MCScripts
  ScriptsOf <- MCScriptsOf
  ClkWait = 8
  TckWait = 8
  MaxResets = 1
  ResetTogether = TRUE
  DelayTicks = 3
INVARIANTS
  FedInTime
  BootedImage
  AnswersMatch
  PmpIsCurrents
PROPERTIES
  WakeResumes
  SessionsEnd
  ResumesWhereItWas
  ChainCompletes
CHECK_DEADLOCK FALSE
