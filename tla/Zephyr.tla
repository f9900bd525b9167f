------------------------------- MODULE Zephyr -------------------------------
(***************************************************************************)
(* The Zephyr image (sw/rtos/zephyr): main with its four device tests, the *)
(* threads A and B and their hand-offs, the interrupt-driven console under *)
(* printk, and the drivers of the UART, Timer0, the watchdog, the SPI      *)
(* controller and the GPIO.                                                *)
(*                                                                         *)
(* The ready thread of the highest priority runs; a semaphore given to a   *)
(* waiting thread is taken when that thread runs.  What is done under      *)
(* irq_lock is one action, and so is an interrupt service routine, except  *)
(* that of the console, during which the line goes on sending.  A line of  *)
(* text is two calls of the console's hook: the text, and the newline.  A  *)
(* thread does not go on while an interrupt is pending: the few            *)
(* instructions until it is taken are not modelled.                        *)
(* Bytes are numbered as the ring buffer accepts them, modulo two, which   *)
(* shows a byte lost, repeated or overtaken.  Counters nobody reads        *)
(* (uart_console_tx_dropped) are left out.                                 *)
(***************************************************************************)
EXTENDS Integers, Sequences, FiniteSets

CONSTANTS Handoffs,     \* HANDOFF_COUNT
          RingSize,     \* ERISCV_UART_IRQ_CONSOLE_TX_BUFFER_SIZE
          FifoDepth, Watermark,  \* the UART's transmit FIFO and its default level
          SpiLen,       \* bytes of the SPI test
          Polls,        \* times main looks at the console before it gives up
          Late          \* the waits that may run out: sources and semaphores

ASSUME ZephyrAssumption ==
  /\ {Handoffs, RingSize, FifoDepth, SpiLen, Polls} \subseteq Nat \ {0}
  /\ Watermark \in 0 .. FifoDepth

Prio == [main |-> 0, a |-> 1, b |-> 2]   \* a smaller number runs first
Threads == DOMAIN Prio
Id == [uart |-> 1, timer |-> 2, spi |-> 3, wdt |-> 4]  \* PLIC sources
Sources == DOMAIN Id
Pins == 0 .. 2
After(byte, i) == (byte + i) % 2

VARIABLES
  pc, wait,   \* where a thread is; "ready", what it waits for, or "ended"
  saying,     \* calls of the console's hook that a thread has still to make
  sem,        \* semaphore counts
  mutex, shared, queue,  \* handoff_mutex, mutex_handoff, handoff_msgq
  loop, count,           \* handoff of each thread; handoff_count
  ring, txIrqEn, fifo, engine,  \* the console and the UART
  accepted, sent,        \* the last byte accepted, and sent
  served,     \* uart_console_tx_irq_count # 0
  pending, isr,          \* the PLIC; "none" or where the console's ISR is
  gpio, timer, wdt, spi, \* peripherals with the data of their drivers
  called,     \* the callbacks that have run
  polls,      \* times main looked at the console
  verdict, result        \* what main will report; eriscv_zephyr_result

kern == <<sem, mutex, shared, queue, loop, count>>
uart == <<ring, txIrqEn, fifo, engine, accepted, sent, served>>
irqs == <<pending, isr>>
devs == <<gpio, timer, wdt, spi, called>>
ends == <<polls, verdict, result>>
vars == <<pc, wait, saying, kern, uart, irqs, devs, ends>>

-----------------------------------------------------------------------------
(* The kernel.                                                             *)

Ready(t) == wait[t] = "ready"
Runs(t) == /\ isr = "none" /\ pending = {} /\ Ready(t)
           /\ \A u \in Threads : Ready(u) => Prio[t] <= Prio[u]
At(t, where) == Runs(t) /\ pc[t] = where /\ saying[t] = 0

Goto(t, where) == pc' = [pc EXCEPT ![t] = where]
Go(t, where) == Goto(t, where) /\ UNCHANGED <<wait, saying>>
Say(t) == saying' = [saying EXCEPT ![t] = 2]
Sleep(t, why) == wait' = [wait EXCEPT ![t] = why]
Wake(why) == [t \in Threads |-> IF wait[t] = why THEN "ready" ELSE wait[t]]

\* k_sem_take: go on with the semaphore, or sleep until it is given.
Take(t, here, s, next) ==
  /\ At(t, here)
  /\ IF sem[s] = 1 THEN sem' = [sem EXCEPT ![s] = 0] /\ Goto(t, next) /\ UNCHANGED wait
     ELSE Sleep(t, s) /\ UNCHANGED <<sem, pc>>
  /\ UNCHANGED <<saying, mutex, shared, queue, loop, count, uart, irqs, devs, ends>>

Given(s) == sem' = [sem EXCEPT ![s] = 1]

Lock(t, next) ==
  /\ At(t, "lock")
  /\ IF mutex = "none" THEN mutex' = t /\ Goto(t, next) /\ UNCHANGED wait
     ELSE Sleep(t, "mutex") /\ UNCHANGED <<mutex, pc>>
  /\ UNCHANGED <<saying, sem, shared, queue, loop, count, uart, irqs, devs, ends>>

\* A thread that finds something wrong says so and returns.
Fails(t, code) == /\ result' = code /\ Sleep(t, "ended")
                  /\ UNCHANGED <<pc, saying, polls, verdict>>

-----------------------------------------------------------------------------
(* The console and the UART's driver.                                      *)

TxReady == Len(fifo) < FifoDepth
TxComplete == engine = <<>> /\ fifo = <<>>
IrqPending == txIrqEn /\ Len(fifo) <= Watermark
IrqTxReady == txIrqEn /\ TxReady
TxBusy == ring # <<>> \/ ~TxComplete

\* uart_console_enqueue, for some bytes: what does not fit is dropped.
Enqueue(n) ==
  LET room == RingSize - Len(ring)
      kept == IF n <= room THEN n ELSE room
  IN /\ ring' = ring \o [i \in 1 .. kept |-> After(accepted, i)]
     /\ accepted' = After(accepted, kept)

\* uart_console_out; a newline is two bytes.
ConsoleOut(t) ==
  /\ Runs(t) /\ saying[t] > 0
  /\ Enqueue(IF saying[t] = 1 THEN 2 ELSE 1)
  /\ txIrqEn' = TRUE
  /\ saying' = [saying EXCEPT ![t] = @ - 1]
  /\ UNCHANGED <<pc, wait, kern, fifo, engine, sent, served, irqs, devs, ends>>

UartSends ==
  /\ engine # <<>>
  /\ sent' = engine[1]
  /\ engine' = IF fifo = <<>> THEN <<>> ELSE <<Head(fifo)>>
  /\ fifo' = IF fifo = <<>> THEN <<>> ELSE Tail(fifo)
  /\ UNCHANGED <<pc, wait, saying, kern, ring, txIrqEn, accepted, served,
                 irqs, devs, ends>>

\* The PLIC: all priorities are equal, and then the lowest source comes first.
Claims(source) == /\ isr = "none" /\ source \in pending
                  /\ \A s \in pending : Id[source] <= Id[s]
                  /\ pending' = pending \ {source}

\* eriscv_uart_isr and the console's callback, up to the loop of the drain.
UartIsr ==
  /\ Claims("uart")
  /\ isr' = IF IrqPending /\ IrqTxReady THEN "drain" ELSE "none"
  /\ served' = (served \/ (IrqPending /\ IrqTxReady))
  /\ UNCHANGED <<pc, wait, saying, kern, ring, txIrqEn, fifo, engine, accepted,
                 sent, devs, ends>>

\* Mutant: the interrupt is disabled whenever the loop ends.
DrainDisables ==
  /\ isr = "drain" /\ isr' = "none"
  /\ txIrqEn' = FALSE
  /\ UNCHANGED <<ring, fifo, engine>>

\* The loop of uart_console_tx_drain ends: no room, or nothing to send.
DrainEnds ==
  /\ isr = "drain" /\ isr' = "none"
  /\ ~IrqTxReady \/ ring = <<>>
  /\ txIrqEn' = (txIrqEn /\ ~TxReady)
  /\ UNCHANGED <<ring, fifo, engine>>

\* One turn of it: a byte from the ring buffer through uart_fifo_fill.
DrainByte ==
  /\ isr = "drain" /\ IrqTxReady /\ ring # <<>>
  /\ ring' = Tail(ring)
  /\ IF TxComplete THEN engine' = <<Head(ring)>> /\ UNCHANGED fifo
     ELSE fifo' = Append(fifo, Head(ring)) /\ UNCHANGED engine
  /\ UNCHANGED <<isr, txIrqEn>>

ConsoleIsr ==
  /\ DrainByte \/ DrainEnds
  /\ UNCHANGED <<pc, wait, saying, kern, accepted, sent, served,
                 pending, devs, ends>>

-----------------------------------------------------------------------------
(* GPIO: the pins that drive, and those that drive high.                   *)

\* eriscv_gpio_pin_configure as an output that is low.
ConfigureLow(g, pin) == [out |-> g.out \ {pin}, dir |-> g.dir \cup {pin}]
SetMasked(g, mask, value) == [g EXCEPT !.out = (@ \ mask) \cup (value \cap mask)]
SetBits(g, mask) == SetMasked(g, mask, mask)
ClearBits(g, mask) == SetMasked(g, mask, {})
Toggle(g, mask) == [g EXCEPT !.out = (@ \ mask) \cup (mask \ @)]

Smoke(g) ==
  LET low == ConfigureLow(ConfigureLow(ConfigureLow(g, 0), 1), 2)
      set == ClearBits(SetBits(low, {0, 2}), {2})
  IN Toggle(Toggle(SetMasked(set, Pins, {0, 2}), {0}), {0})

-----------------------------------------------------------------------------
(* The other drivers and their peripherals.                                *)

\* eriscv_timer_set_top_value.
SetTop == timer' = [timer EXCEPT !.on = TRUE, !.reached = FALSE]
StopTimer == timer' = [timer EXCEPT !.on = FALSE, !.reached = FALSE]

TimerReaches ==
  /\ timer.on /\ ~timer.reached
  /\ timer' = [timer EXCEPT !.reached = TRUE, !.expired = TRUE]
  /\ UNCHANGED <<gpio, wdt, spi>>

\* The flag is cleared before the count, which sets it again in between.
TimerIsr ==
  /\ timer' = [timer EXCEPT !.expired = timer.on /\ timer.reached, !.reached = FALSE]
  /\ called' = called \cup {"timer"}
  /\ UNCHANGED <<wait, sem, gpio, wdt, spi>>

\* wdt_install_timeout and wdt_setup; wdt_feed and wdt_disable.
WdtStart == /\ ~wdt.running
            /\ wdt' = [wdt EXCEPT !.running = TRUE, !.passed = FALSE]
WdtEnd == wdt' = [wdt EXCEPT !.running = FALSE, !.passed = FALSE]

WdtPretimeout ==
  /\ wdt.running /\ ~wdt.passed
  /\ wdt' = [wdt EXCEPT !.passed = TRUE, !.flag = TRUE]
  /\ UNCHANGED <<gpio, timer, spi>>

WdtIsr ==
  /\ wdt' = [wdt EXCEPT !.flag = FALSE]
  /\ called' = called \cup {"wdt"}
  /\ UNCHANGED <<wait, sem, gpio, timer, spi>>

\* Mutant: the transfer is started with the interrupt disabled.
TransceivePolled ==
  spi' = [spi EXCEPT !.active = TRUE, !.index = 0, !.busy = TRUE, !.done = FALSE,
                     !.rx = <<>>]

\* eriscv_spi_transceive_async.
Transceive == spi' = [spi EXCEPT !.active = TRUE, !.index = 0, !.irqEn = TRUE,
                                 !.busy = TRUE, !.done = FALSE, !.rx = <<>>]

\* The n-th byte on the bus is answered by n.
SpiShifts ==
  /\ spi.busy
  /\ spi' = [spi EXCEPT !.busy = FALSE, !.done = TRUE, !.data = @ + 1]
  /\ UNCHANGED <<gpio, timer, wdt>>

\* eriscv_spi_isr, with eriscv_spi_complete and the callback at the end.
SpiIsr ==
  /\ IF ~spi.active \/ ~spi.done THEN UNCHANGED <<wait, sem, spi, called>>
     ELSE LET last == spi.index + 1 = SpiLen
          IN /\ spi' = [spi EXCEPT !.done = FALSE, !.rx = Append(@, spi.data),
                          !.index = @ + 1, !.active = ~last, !.busy = ~last]
             /\ IF last THEN /\ called' = called \cup {"spi"} /\ Given("spi_done")
                             /\ wait' = Wake("spi_done")
                ELSE UNCHANGED <<called, sem, wait>>
  /\ UNCHANGED <<gpio, timer, wdt>>

Moves(peripheral) ==
  /\ \/ peripheral = "timer" /\ TimerReaches
     \/ peripheral = "wdt" /\ WdtPretimeout
     \/ peripheral = "spi" /\ SpiShifts
  /\ UNCHANGED <<pc, wait, saying, kern, uart, irqs, called, ends>>

DeviceIsr(source) ==
  /\ Claims(source)
  /\ \/ source = "timer" /\ TimerIsr
     \/ source = "wdt" /\ WdtIsr
     \/ source = "spi" /\ SpiIsr
  /\ UNCHANGED <<pc, saying, mutex, shared, queue, loop, count, uart, isr, ends>>

Line(source) ==
  CASE source = "uart" -> IrqPending
    [] source = "timer" -> timer.expired /\ timer.on
    [] source = "wdt" -> wdt.flag /\ wdt.running
    [] source = "spi" -> spi.done /\ spi.irqEn

PlicSamples(source) ==
  /\ source \notin pending /\ Line(source)
  /\ source = "uart" => isr = "none"
  /\ pending' = pending \cup {source}
  /\ UNCHANGED <<pc, wait, saying, kern, uart, isr, devs, ends>>

-----------------------------------------------------------------------------
(* Threads A and B.                                                        *)

AWrites ==
  /\ At("a", "write")
  /\ shared' = loop["a"] + 1
  /\ mutex' = "none"
  /\ Goto("a", "put") /\ wait' = Wake("mutex")
  /\ UNCHANGED <<saying, sem, queue, loop, count, uart, irqs, devs, ends>>

APuts ==
  /\ At("a", "put")
  /\ IF queue # <<>> THEN Fails("a", "000b") /\ UNCHANGED queue
     ELSE /\ queue' = <<loop["a"] + 1>>
          /\ Goto("a", "give") /\ Say("a") /\ UNCHANGED <<wait, ends>>
  /\ UNCHANGED <<sem, mutex, shared, loop, count, uart, irqs, devs>>

AGives ==
  /\ At("a", "give")
  /\ count' = count + 1 /\ loop' = [loop EXCEPT !["a"] = @ + 1]
  /\ Given("sem_b") /\ wait' = Wake("sem_b")
  /\ IF loop["a"] + 1 < Handoffs THEN Goto("a", "take") /\ UNCHANGED saying
     ELSE Goto("a", "end") /\ Say("a")
  /\ UNCHANGED <<mutex, shared, queue, uart, irqs, devs, ends>>

AEnds ==
  /\ At("a", "end")
  /\ Sleep("a", "ended")
  /\ UNCHANGED <<pc, saying, kern, uart, irqs, devs, ends>>

BChecks ==
  /\ At("b", "check")
  /\ IF shared # loop["b"] + 1 THEN Fails("b", "000c") /\ UNCHANGED mutex
     ELSE /\ mutex' = "none" /\ Goto("b", "get") /\ wait' = Wake("mutex")
          /\ UNCHANGED <<saying, ends>>
  /\ UNCHANGED <<sem, shared, queue, loop, count, uart, irqs, devs>>

BGets ==
  /\ At("b", "get")
  /\ IF queue # <<loop["b"] + 1>> THEN Fails("b", "000c") /\ UNCHANGED queue
     ELSE /\ queue' = <<>>
          /\ Goto("b", "give") /\ Say("b") /\ UNCHANGED <<wait, ends>>
  /\ UNCHANGED <<sem, mutex, shared, loop, count, uart, irqs, devs>>

BGives ==
  /\ At("b", "give")
  /\ loop' = [loop EXCEPT !["b"] = @ + 1]
  /\ Given("sem_a") /\ wait' = Wake("sem_a")
  /\ IF loop["b"] + 1 < Handoffs THEN Goto("b", "take") /\ UNCHANGED saying
     ELSE Goto("b", "end") /\ Say("b")
  /\ UNCHANGED <<mutex, shared, queue, count, uart, irqs, devs, ends>>

BEnds ==
  /\ At("b", "end")
  /\ Given("sem_done") /\ wait' = [Wake("sem_done") EXCEPT !["b"] = "ended"]
  /\ UNCHANGED <<pc, saying, mutex, shared, queue, loop, count, uart, irqs, devs, ends>>

ThreadA == \/ Take("a", "take", "sem_a", "lock") \/ Lock("a", "write")
           \/ AWrites \/ APuts \/ AGives \/ AEnds
ThreadB == \/ Take("b", "take", "sem_b", "lock") \/ Lock("b", "check")
           \/ BChecks \/ BGets \/ BGives \/ BEnds

-----------------------------------------------------------------------------
(* main.                                                                   *)

\* Say how it went, store it, return.
Concludes(code) == /\ verdict' = code /\ Goto("main", "report") /\ Say("main")
                   /\ UNCHANGED <<wait, polls, result>>

Reports ==
  /\ At("main", "report")
  /\ result' = verdict /\ Sleep("main", "ended")
  /\ UNCHANGED <<pc, saying, kern, uart, irqs, devs, polls, verdict>>

MainGoes(next) == Go("main", next) /\ UNCHANGED ends

GpioTest ==
  /\ At("main", "gpio")
  /\ gpio' = Smoke(gpio)
  /\ IF gpio' = [out |-> {0, 2}, dir |-> Pins] THEN MainGoes("timer") ELSE Concludes("0006")
  /\ UNCHANGED <<kern, uart, irqs, timer, wdt, spi, called>>

\* The busy wait for a callback ends with it, or with the patience of main.
Waits(here, source, next, code) ==
  /\ At("main", here)
  /\ IF source \in called THEN MainGoes(next) ELSE source \in Late /\ Concludes(code)

TimerTest ==
  /\ At("main", "timer")
  /\ SetTop /\ MainGoes("timer wait")
  /\ UNCHANGED <<kern, uart, irqs, gpio, wdt, spi, called>>

TimerWait ==
  /\ Waits("timer wait", "timer", "wdt", "0007")
  /\ StopTimer
  /\ UNCHANGED <<kern, uart, irqs, gpio, wdt, spi, called>>

WdtTest ==
  /\ At("main", "wdt")
  /\ WdtStart /\ MainGoes("wdt wait")
  /\ UNCHANGED <<kern, uart, irqs, gpio, timer, spi, called>>

WdtWait ==
  /\ Waits("wdt wait", "wdt", "spi", "0008")
  /\ WdtEnd
  /\ UNCHANGED <<kern, uart, irqs, gpio, timer, spi, called>>

SpiTest ==
  /\ At("main", "spi")
  /\ Transceive /\ MainGoes("spi wait")
  /\ UNCHANGED <<kern, uart, irqs, gpio, timer, wdt, called>>

SpiCheck ==
  /\ At("main", "spi check")
  /\ IF spi.rx = [i \in 1 .. SpiLen |-> i] THEN MainGoes("console")
     ELSE Concludes("spi answer")
  /\ UNCHANGED <<kern, uart, irqs, devs>>

ConsoleWait ==
  /\ At("main", "console")
  /\ IF served /\ ~TxBusy THEN MainGoes("handoffs")
     ELSE IF polls < Polls
     THEN /\ polls' = polls + 1 /\ Sleep("main", "tick")
          /\ UNCHANGED <<pc, saying, verdict, result>>
     ELSE Concludes("0005")
  /\ UNCHANGED <<kern, uart, irqs, devs>>

Judge ==
  /\ At("main", "judge")
  /\ Concludes(IF count = Handoffs THEN "pass" ELSE "handoffs")
  /\ UNCHANGED <<kern, uart, irqs, devs>>

Main == \/ GpioTest \/ TimerTest \/ TimerWait \/ WdtTest \/ WdtWait \/ SpiTest
        \/ Take("main", "spi wait", "spi_done", "spi check") \/ SpiCheck
        \/ ConsoleWait \/ Take("main", "handoffs", "sem_done", "judge")
        \/ Judge \/ Reports

\* The tick ends the sleep of a millisecond, or the patience of a k_sem_take.
Tick ==
  /\ isr = "none"
  /\ \/ wait["main"] = "tick" /\ wait' = Wake("tick") /\ UNCHANGED <<pc, saying, ends>>
     \/ /\ wait["main"] \in {"spi_done", "sem_done"} \cap Late
        /\ wait' = [wait EXCEPT !["main"] = "ready"]
        /\ pc' = [pc EXCEPT !["main"] = "report"] /\ Say("main")
        /\ verdict' = IF wait["main"] = "spi_done" THEN "0009" ELSE "0003"
        /\ UNCHANGED <<polls, result>>
  /\ UNCHANGED <<kern, uart, irqs, devs>>

-----------------------------------------------------------------------------
Init ==
  /\ pc = [main |-> "gpio", a |-> "take", b |-> "take"]
  /\ wait = [t \in Threads |-> "ready"]
  /\ saying = [main |-> 2, a |-> 0, b |-> 0]
  /\ sem = [sem_a |-> 1, sem_b |-> 0, sem_done |-> 0, spi_done |-> 0]
  /\ mutex = "none" /\ shared = 0 /\ queue = <<>>
  /\ loop = [a |-> 0, b |-> 0] /\ count = 0
  /\ ring = <<>> /\ txIrqEn = FALSE /\ fifo = <<>> /\ engine = <<>>
  /\ accepted = 0 /\ sent = 0 /\ served = FALSE
  /\ pending = {} /\ isr = "none"
  /\ gpio = [out |-> {}, dir |-> {}]
  /\ timer = [on |-> FALSE, reached |-> FALSE, expired |-> FALSE]
  /\ wdt = [running |-> FALSE, passed |-> FALSE, flag |-> FALSE]
  /\ spi = [active |-> FALSE, index |-> 0, irqEn |-> FALSE, busy |-> FALSE,
            done |-> FALSE, data |-> 0, rx |-> <<>>]
  /\ called = {} /\ polls = 0 /\ verdict = "none" /\ result = "none"

Step(t) == \/ ConsoleOut(t)
           \/ t = "main" /\ Main
           \/ t = "a" /\ ThreadA
           \/ t = "b" /\ ThreadB

Isr(source) == IF source = "uart" THEN UartIsr ELSE DeviceIsr(source)

System == \/ \E source \in Sources :
               Moves(source) \/ PlicSamples(source) \/ Isr(source)
          \/ UartSends \/ ConsoleIsr \/ Tick

Next == (\E t \in Threads : Step(t)) \/ System

\* Hardware, interrupts and threads go on; the interrupts that Timer0 repeats
\* leave main time to see that they come.
Fairness == /\ SF_vars(Step("main"))
            /\ WF_vars(Step("a") \/ Step("b")) /\ WF_vars(System)

Spec == Init /\ [][Next]_vars /\ Fairness

-----------------------------------------------------------------------------
(* Type invariant: kernel objects, registers and counters keep their       *)
(* ranges; the ring buffer and the FIFO their sizes.                       *)
TypeOK ==
  /\ saying \in [Threads -> 0 .. 2]
  /\ DOMAIN sem = {"sem_a", "sem_b", "sem_done", "spi_done"}
  /\ \A s \in DOMAIN sem : sem[s] \in 0 .. 1
  /\ mutex \in Threads \cup {"none"} /\ shared \in 0 .. Handoffs /\ Len(queue) <= 1
  /\ count \in 0 .. Handoffs
  /\ Len(ring) <= RingSize /\ Len(fifo) <= FifoDepth /\ Len(engine) <= 1
  /\ pending \subseteq Sources /\ isr \in {"none", "drain"}
  /\ gpio \in [out : SUBSET Pins, dir : SUBSET Pins]
  /\ spi.index \in 0 .. SpiLen /\ polls \in 0 .. Polls

(* Whatever the console accepts is on its way in the order of acceptance,  *)
(* each byte once: no interleaving of printk in three threads with the     *)
(* draining ISR loses, repeats or overtakes one.                           *)
ConsoleInOrder ==
  LET underway == engine \o fifo \o ring
  IN /\ \A i \in DOMAIN underway : underway[i] = After(sent, i)
     /\ accepted = After(sent, Len(underway))

(* A and B never find the mutex's data, or the queue of one message, in a  *)
(* state that makes them give up, although A puts without waiting and may  *)
(* preempt B anywhere; main passes only when all hand-offs are done; and   *)
(* nothing but a timeout makes it fail.                                    *)
HandoffsHold ==
  /\ result \in {"none", "pass", "0003", "0005", "0007", "0008", "0009"}
  /\ result = "pass" => /\ loop = [a |-> Handoffs, b |-> Handoffs]
                        /\ queue = <<>> /\ mutex = "none"

(* README.md, Limitations: printk's ring buffer is drained by interrupts.  *)
(* What is in it is sent: no enabling of the interrupt is lost.            *)
ConsoleDrains == (ring # <<>>) ~> (ring = <<>> /\ TxComplete)

(* What is printed comes out, in order.                                    *)
ConsoleSends == []ConsoleInOrder /\ ConsoleDrains

(* main comes to a verdict, which no hand-off has spoilt, and the threads  *)
(* to their ends.                                                          *)
ImageEnds == <>(/\ result # "none" /\ HandoffsHold
                /\ wait["a"] = "ended" /\ wait["b"] = "ended")
=============================================================================
