SPECIFICATION MCSpec
CONSTANTS
  PolledLen = 2
  AsyncLen = 2
  Programs = {"none", "any", "hello_uart", "timer_apb_poll", "dma_system_sram",
              "dma_uart_tx", "dma_descriptor_chain", "fpu_dma_sram"}
  Levels = {0, 1}
  Thresholds = {0, 1}
INVARIANTS
  AssertsHold
  ClaimedOnce
PROPERTIES
  WorkersFinish
  InterruptsServed
  ExamplesPass
CHECK_DEADLOCK FALSE
