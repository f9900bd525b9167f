SPECIFICATION MCSpec
CONSTANTS
  Images = {"timer_clint", "irq_timer_uart", "wfi_tickless", "dma_irq_wfi",
            "dma_descriptor_irq_wfi"}
  Base = 4
  MaxTime = 8
  Interval = 2
  FftPoints = 8
  FftLog2 = 3
  Modulus = 7
  Root <- MCRoot
  FftInputs <- MCInputs
  NumBanks = 2
  Addrs <- MCAddrs
  Data <- MCData
  InitMem <- MCInitMem
  LoadBypass = FALSE
  Stores <- MCStores
  WaitLimit = 5
INVARIANTS
  HalvesAgree
  FftIsDft
  WaitBounded
PROPERTIES
  TicksShown
  AtomicSpec
  Served
CHECK_DEADLOCK FALSE
