SPECIFICATION MCSpec
CONSTANTS
  Clients <- MCClients
  Loaded = {"alarmed"}
  Pulse = 4
  Gap = 1
  Timeout = 16
  Pre = 10
  Period = 3
  BootModes = {}
  Depth = 4
  File <- MCFile
  ByteGap = 2
  Typed = {2, 3}
  Typing = 5
  Scripts <- MCScripts
  ScriptsOf <- MCScriptsOf
  ClkWait = 8
  TckWait = 8
  MaxResets = 1
  ResetTogether = TRUE
  DelayTicks = 3
PROPERTIES
  WakeResumes
CHECK_DEADLOCK FALSE
