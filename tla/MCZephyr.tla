------------------------------ MODULE MCZephyr ------------------------------
(* Two hand-offs over a ring buffer of three bytes and a FIFO of one; or,  *)
(* when the image is at rest, its drivers in the hands of any application. *)
EXTENDS Zephyr, ZephyrDrivers

MCTransfers == {[tx |-> <<<<1>>, <<>>, <<2>>>>, rx |-> <<3>>],
                [tx |-> <<<<3, 4>>>>, rx |-> <<1>>],
                [tx |-> <<>>, rx |-> <<1, 1>>],
                [tx |-> <<>>, rx |-> <<>>]}

AtRest ==
  /\ pc = [t \in Threads |-> "report"] /\ wait = [t \in Threads |-> "ended"]
  /\ saying = [t \in Threads |-> 0]
  /\ sem = [sem_a |-> 1, sem_b |-> 0, sem_done |-> 0, spi_done |-> 0]
  /\ mutex = "none" /\ shared = Handoffs /\ queue = <<>>
  /\ loop = [a |-> Handoffs, b |-> Handoffs] /\ count = Handoffs
  /\ ring = <<>> /\ txIrqEn = FALSE /\ fifo = <<>> /\ engine = <<>>
  /\ accepted = 0 /\ sent = 0 /\ served = TRUE /\ pending = {} /\ isr = "none"
  /\ gpio = [out |-> {}, dir |-> {}]
  /\ timer = [on |-> FALSE, reached |-> FALSE, expired |-> FALSE]
  /\ wdt = [running |-> FALSE, passed |-> FALSE, flag |-> FALSE]
  /\ spi = [active |-> FALSE, index |-> 0, irqEn |-> FALSE, busy |-> FALSE,
            done |-> FALSE, data |-> 0, rx |-> <<>>]
  /\ called = Sources /\ polls = 0 /\ verdict = "pass" /\ result = "pass"

MCInit == DrvInit /\ IF device = "none" THEN Init ELSE AtRest

MCNext == \/ Next /\ UNCHANGED drvVars
          \/ DrvNext /\ UNCHANGED vars

MCSpec == MCInit /\ [][MCNext]_<<vars, drvVars>> /\ Fairness
=============================================================================
