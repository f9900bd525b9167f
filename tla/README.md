# Formal model of the eRISCV-M2 microcontroller

eRISCV MCU is a family of RISC-V microcontrollers in SystemVerilog (M0, M1, M2) with
its software: drivers, examples, two FreeRTOS images, a Zephyr image and a monitor. This
directory holds TLA+ specifications of the largest product, **M2** (`src/eriscv-m2`), of the
peripherals it shares with the others (`src/peripherals`) and of the software of the three
products, the TLC runs that check them on small instances and the TLAPS proofs about them.
Hardware file names below are relative to `src/eriscv-m2/rtl` unless they start with `src/`.

## 1. The system

| component | source | state it keeps | operations | interacts with |
|---|---|---|---|---|
| DMA channel | `soc/dma/dma_controller.sv` | 16-state machine, working addresses, descriptor, CTRL/STATUS | register writes, descriptor fetch, payload read/write, UART byte, write-back, abort | System SRAM port, UART holding register, CPU registers, interrupt |
| System SRAM | `soc/mem/system_sram_fabric.sv`, `system_sram_arbiter.sv`, `system_sram.sv` | per bank: arbiter, output register; load-response register | admit, access, answer | CPU D-bus, DMA channel |
| MEM stage and EX/MEM boundary | `riscv_core/mem_stage.sv`, `ex_stage.sv`, `pipeline_control.sv`, `muldiv_unit.sv` | packet, `mem_pending_q`, held local response, multiply/divide count | request, answer, stall, advance | D-bus, local data port |
| D-bus interconnect | `soc/bus/dbus_interconnect.sv` | `response_target_q` | route, answer | all targets |
| local data SRAM (DTCM) | `soc/mem/data_mem_arbiter.sv`, `data_mem.sv` | owner and validity of the answer | three-way arbitration: debugger, D-bus, EX | MEM stage, EX stage, SBA |
| APB bridge | `soc/bus/dbus_to_apb.sv` | state, one queued request | setup, access, answer | peripherals |
| System Bus Access | `soc/debug/sba_dmi.sv` | sbaddress0, sbdata0, sbbusy, sberror | DMI reads and writes | DTCM |
| IF stage | `riscv_core/if_stage.sv`, `soc/mem/instr_mem.sv` | prefetch and half-word registers, fetch PC | fetch, redirect, hold, halt | ID stage, IMEM |
| decode, prediction, forwarding | `riscv_core/id_stage.sv`, ... | ID/EX packet, predictor tables | decode, predict | IF, EX |
| CSRs, traps, PMP, WFI, debug entry | `riscv_core/csr_file.sv`, `trap_control.sv`, `riscv_core.sv` | CSRs, pending control events | trap, return, sleep, halt | all stages, PLIC, debug module |
| PLIC, CLINT | `soc/plic.sv`, `soc/clint.sv` | pending, claimed, mtime/mtimecmp | claim, complete, compare | core, peripherals |
| debug module and JTAG | `soc/debug/*.sv` | DMI registers, request/response toggles in two clock domains | DMI access, abstract commands, halt, resume | core, SBA, boot |
| boot | `soc/boot/*.sv` | parser, command arbiter, load address, release of fetch | load IMEM, start the core | UART line, DMI, IMEM |
| clock/reset/wake, watchdog | `src/peripherals/clk_rst`, `src/peripherals/watchdog` | clock enables, wake status, reset pulses and cause, sleep handshake, count | sleep, wake, reset, feed, lock | core, peripherals |
| UART, SPI, GPIO, timer | `src/peripherals` | shift registers, FIFOs, counters | APB registers | PLIC, DMA channel |
| UART driver, trap handler | `src/eriscv-m2/sw/lib/uart.c`, `trap.c`, `src/eriscv-m0/sw/bsp/drivers/uart.c` | two rings, a drop count | async write, getc, tx_pending, handler | UART, PLIC |
| BSP helpers and polled drivers | `sw/include/eriscv_mcu.h`, `sw/lib`, `sw/rtos/freertos/drivers` | none of their own | claims, enables, polls, DMA starts, 64-bit timer | registers |
| FreeRTOS monitor (M0) | `src/eriscv-m0/sw/demos/freertos_monitor` | event queue, mutex, notifications, stream counters | six commands, sample interrupt, worker | UART driver, Timer0, kernel |
| FreeRTOS qualification image | `src/eriscv-m2/sw/rtos/freertos` | four tasks, queue, mutex, done bits, SPI transfer | hand-offs, time slice, SPI transfers | SPI, Timer0, PLIC, kernel |
| FreeRTOS user mode | `src/eriscv-m2/sw/rtos/freertos_umode` | saved frames, PMP region, notification masks | system calls, switch, preemption | kernel, PMP |
| Zephyr image and drivers | `src/eriscv-m2/sw/rtos/zephyr` | console ring, semaphores, message queue, driver state | printk, hand-offs, SPI/GPIO/UART/counter/watchdog calls | kernel, peripherals |
| WFI images, arithmetic examples | `src/eriscv-m2/sw/examples` | tick counters, arrays of the transform | sleep loops, handlers, FFT | CLINT, DMA, UART |

The hard part of this code is not in one block but in the handshakes: a request
on the D-bus is a pulse of one cycle, an answer is a pulse of one cycle, several
targets answer at different latencies over shared multiplexers, a multi-cycle
operation in EX can freeze a packet whose answer has already come, and three
masters (core, DMA channel, debugger) meet at the memories. For the DMA channel
it is the abort: it may come on any edge, together with an acceptance, an answer,
an error or a UART byte, and software must afterwards find an outcome, byte
count and descriptor that agree. On the instruction side it is the number of places
in which "the next instruction" can be: the request counter, an outstanding
request, a redirect that waits, a held packet, a buffered half and IF/ID.

On the control side it is the number of parties that may act on the core at once: the sleep
handshake crosses the pipeline while a wake event comes, a debugger talks over a clock crossing
of which either side may be reset, the boot loader shares its line with a console. In the software it is what a
handler may do between two register accesses of the code it interrupts, and what a task may
do between two of another.

What makes each modelled component correct:

* DMA channel: what System SRAM holds is at every moment the old content with
  exactly the counted bytes copied; one outcome that software can read; the truth in the descriptors
  it hands back; an end to everything.
* System SRAM: an atomic memory with a fair and bounded wait.
* Data path: loads see the program's stores, whichever targets answer and
  however late; each request is made once and is held by someone until answered.
* Instruction side: EX gets the instructions of the program in order, each once
  and whole, whatever is predicted, stalled, interrupted, halted or resumed.
* Drivers: bytes in order and accounted for; no wakeup lost; nobody's bit lost from a
  register that several read, change and write back; a completion belongs to its transfer.
* Images: their assertions hold in every interleaving, their tasks end, their counters add up.
* Interrupt controller: each claim belongs to one claimer, each enabled interrupt is served.
* Clock, reset, wake: an enabled event during sleep brings the program on, and a watchdog that is
  fed at its warning does not fire.
* Debug link: what the host asked for is done once and answered with its own answer.
* Boot: the core is released into the whole image, and the image stays.
* User mode: a task goes on from its own frame behind its own PMP region.

## 2. Modules

```
DmaController ── DmaSystem ──┬── MCDmaSystem              (TLC)
                             └── DmaSystem_proofs         (TLAPS), the channel alone first
SystemSramFabric ── SystemSram ──┬── MCBareMetal           (TLC), refines AtomicMemory
      │                          └── SystemSram_proofs     (TLAPS), the same refinement
      └── DataPath ──┬── MCDataPath                        (TLC)
                     └── DataPath_proofs                   (TLAPS)
IfStage ── FrontEnd ──┬── MCFrontEnd                       (TLC)
                      └── FrontEnd_proofs                  (TLAPS)
SystemControl ───────────────┐
BootSubsystem ── JtagDebug ──┼── MCControl                 (TLC)
FreertosUmode ───────────────┘
UartDriver ── MCUartDriver                                 (TLC)
UartDriver, ZephyrDrivers ── Drivers_proofs                (TLAPS)
FreertosMonitor ──┬── MCFreertosMonitor                    (TLC)
                  └── FreertosMonitor_proofs               (TLAPS)
FreertosDemo ──┬── MCFreertosDemo                          (TLC)
Bsp ───────────┴── FreertosDemo_proofs                     (TLAPS)
Zephyr ────────┬── MCZephyr                                (TLC)
ZephyrDrivers ─┘
BareMetal ─────┐
Fft ───────────┼── MCBareMetal                             (TLC)
SystemSram ────┘
SystemControl, JtagDebug, FreertosUmode, BareMetal ── Control_proofs   (TLAPS)
```

In the hardware modules a step is one rising edge; wires are operators over the registers
(unprimed), `_q` registers are variables. `JtagDebug` has two clocks, whose edges come in any
order. In the software modules a step is what the code does between two accesses to something
that somebody else may change meanwhile: an access to a register, a critical section, a handler
that cannot be interrupted. Kernels (FreeRTOS, Zephyr) are external: the modules
model what their documentation promises of the calls that the code makes.

The four MC modules that join two or three specifications do **not** let them interact: `MCInit` picks
one and puts the others at rest (`AtRest`, `NotLoaded`, ...), in a state in which they have no step or have
ended. They share a run because they are small, not because they share state; fairness is that of each on its own. The compositions with
shared state are `DmaSystem`, `SystemSram`, `DataPath`, `FrontEnd` and `JtagDebug` (which
extends `BootSubsystem`).

Software that several products carry as the same text, or with other names only, is modelled once; `map`
names the copy that was read.

* **DmaController** — the channel alone. `state`, `ctl`, `xfer`, `desc` and `csr`
  group `state_q`, the abort/active/error flags, the working registers, the
  descriptor registers and CTRL/STATUS. A register write of the CPU is the
  parameter `cfg` of every action, since it is taken on the same edge as the step
  of the state machine; as in the code the assignments of the state machine come
  after those of the register write and win. `DmaNext` allows any register write,
  any answer and any readiness of the UART: the proofs are about it.
* **DmaSystem** — the channel with System SRAM (`mem`, `bus`), the UART's holding
  register (`sent`), the PLIC's gateway of the channel (`handler`) and software. Software follows
  `src/eriscv-m2/sw/lib/dma.c` (each start call clears STATUS and writes the parameters in order, no start
  while busy) and the descriptor contract
  (`src/eriscv-m2/docs/eriscv-m2-dma-descriptor-spec.md`): fields first, OWN last. The driver's interrupt handler reads
  STATUS and clears all of it on any later edge, whatever the channel does meanwhile, also while it drains an abort.
  `given`, `job`, `sent` and `told` (the handler has read the ERROR of the transfer that still runs) are history variables.
* **SystemSramFabric** — arbiters, banks, response multiplexers and the
  load-response register as operators and one clock-edge action over the ports'
  values. **SystemSram** closes it with two masters that keep the valid/ready
  protocol (the DMA channel may withdraw a request, as it does for an abort).
  **AtomicMemory** is what it promises: each access happens at one instant.
* **DataPath** — MEM stage, EX/MEM boundary, multiply/divide unit, interconnect,
  DTCM arbiter, APB bridge, CLINT port, SBA, and System SRAM (the same
  `SystemSramFabric`) with the DMA channel as its second master. The program is
  arbitrary: whenever EX is free any instruction of the workload may enter.
* **IfStage** — the fetch stage and the response register of the instruction memory.
  Addresses count halfwords; a halfword of memory is its own address, so a wrongly
  assembled instruction shows. The five `Deliver…`/`Flush…` disjuncts are the branches of
  the code's priority chain, `Request` the counter and request lifecycle.
* **FrontEnd** — the fetch stage in the core: predictor guesses, ID/EX, EX/MEM and
  MEM/WB as far as control flow goes, redirects, serialised control events (interrupt
  entry, MRET, WFI), sleep, halt and resume. `mode` groups the run-state flip-flops of
  `riscv_core.sv`. What holds the pipeline (a data access, a multi-cycle operation, a
  load-use bubble, the memory's other ports) is an input of the cycle. `golden` is a history
  variable: the state of a machine that executes one instruction at a time.

* **UartDriver** — both variants of the interrupt-driven driver (`product`): M2's, which
  sends everything through the ring, and M0's and M1's with a direct path into the FIFO. Each
  register access of a call or of the handler is a step; the line, the FIFOs and the PLIC source
  move between any two of them. Bytes are numbered, so order, loss and duplication show.
* **FreertosMonitor** — the M0 monitor: `Dispatch` and what follows it for each of the six
  commands, the worker, the timer task and the interrupt handler. The kernel is the running rule `Runs` (highest
  ready priority, with inheritance), a queue, a mutex and notifications.
* **FreertosDemo** — the qualification image: one action per statement group of the four tasks, the
  SPI driver's transfer and its handler, the tick hook with its time slice flag. `fault` is a failed `configASSERT`.
* **FreertosUmode** — `Script` is the sequence of system calls of each user task;
  the handler saves a frame, runs the service, may block or be preempted inside, and restores.
  `frame` holds which kind of frame of which task the control block names.
* **Bsp** — the helpers and polled drivers as pieces of code (`Load`, `Store`, `Then`) that a
  program and a trap handler run access by access, over the PLIC (gateway, priority, threshold, claim,
  complete), Timer0, the SPI controller, the UART and the DMA channel as the drivers see them. `Example` is the code of
  the examples; the program `"any"` makes any call at any time.
* **BareMetal** — the WFI images, with the clock advancing between any two accesses; mtime and
  mtimecmp are two digits to the base `Base`.
* **Fft** — the in-place radix-2 transform over the complex numbers modulo a small prime, with
  `Dft`, the definition, beside it. Rounding is left out; the permutation, the order of the
  butterflies and the table stride are what is checked. `RootAssumption` is what the table's generator sees to: half a turn
  is -1.
* **Zephyr** — main with its four device tests, threads A and B, and the console under
  printk. **ZephyrDrivers** — the SPI, GPIO and UART drivers under any calls of two threads and of
  callbacks in interrupts.
* **SystemControl** — the clock, reset and wake controller and the watchdog, cycle by cycle, under
  `Clients`: programs that call the helpers of `eriscv_mcu.h` in any order, and the images
  `wdt_smoke` and `app_low_power`. `ClockEdge` is one cycle of the root clock, the core makes at most one access in it.
* **BootSubsystem** — both boot transports, parser, arbiter and the controller that writes the
  instruction memory and releases fetch. **JtagDebug** — the DTM, the toggle synchronizers in both directions,
  the debug module with abstract commands, a hart, and a host that follows a script with the waits of the
  testbench's agent; the reset of the board or of the TAP may come at any edge.

## 3. Runs

| run | what it shows | states |
|---|---|---|
| `dma` | the channel's properties below, two starts, one abort and the interrupt handler at any edge | 418 k |
| `dma_event` | *violated*: the handler of an event clears the end of the chain unread | |
| `datapath` | the data path's properties below | 115 k |
| `datapath_contention` | *violated*: CPU request lost at a busy System SRAM bank | |
| `frontend` | the instruction side's properties below | 39 k |
| `uart` | both UART drivers: order, accounting, no lost wakeup | 122 k |
| `monitor` | three keys, two expirations: counters, exclusion, every key answered | 275 k |
| `demo` | the qualification image; the PLIC and the polled drivers in any program and in the examples | 94 k |
| `zephyr` | the Zephyr image; its drivers under any calls | 148 k |
| `baremetal` | the WFI images and the 64-bit helpers; the transform; System SRAM refines `AtomicMemory`, every request answered | 48 k |
| `control` | sleep, wake, reset, watchdog; debug and boot over JTAG and UART; user-mode tasks | 86 k |
| `control_edge` | *violated*: a pin edge does not wake the core from automatic sleep | |

Each run finishes in about two minutes or less with two workers.

**Bounds.** `MaxStarts` = 2 lets a second transfer follow an aborted or failed one
and find its leftovers; `MaxAborts` = 1 since a second abort while one is pending
changes nothing but the restart of a write-back, which one abort reaches. Transfers of one and
two words (five bytes for the UART: one word boundary and a partial word) have a
first, a middle and a last step. `WordMod` = 256 keeps wrap-around of addresses
reachable. Three descriptors with `MaxDescriptors` = 2 reach the chain limit, a
cycle, a malformed link and a failing fetch (`dma_event` has a limit of three and a chain that ends well). Two banks with two words in one and
one in the other show conflict, no conflict and the choice of the response
bank; stores change one word once (`ImplementsAtomicMemory` is proved for any stores). `WaitLimit` saturates a history counter above the bound that is checked.
In `DataPath` one word per target is enough to confuse an answer; targets are used in pairs
(`Workloads`, chosen in `Init`), because a confusion needs two; multiplications of one and
two busy cycles reach every phase of the accesses, whose latencies are one to
five cycles. `SbaData`, `DmaWords` and the two values in `Data` tell old from new.
The program of `MCFrontEnd` has sixteen halfwords: 32-bit instructions aligned, cut across
words and chained across one another, 16-bit ones in both halves, and branches, jumps and
returns that land on each of these; the trap handler is at the very end, so that the
prefetcher runs over the end of the memory. Every guess of the predictor is possible in every
cycle. `UpperPrefetch` is TRUE, the product's default.

For the software: `UartDriver` has rings of two and one bytes and FIFOs of two, so that five
bytes out and four in fill, drain and overrun each of them and a call of three bytes has to wait;
`FreertosMonitor` types three keys, enough to start, meet and stop a mode, into a queue
of two, the smallest in which a sample can take the place of a command; `FreertosDemo` and `Zephyr` transfer two
bytes, a first and a last; Zephyr's ring holds three bytes over a FIFO of one, and two hand-offs
make each semaphore be taken after it was given by the other thread. `ZephyrDrivers` has two
callers, one nested call from a callback (`Depth` = 2), three pins of which one is not the port's.
`BareMetal` counts to the base four (a carry is a fourth of all steps) up to eight, two carries. The FFT has eight points, the
fewest with three different stages, and takes an impulse or none in the real part and in the imaginary one: both sides
of `FftIsDft` are linear in the input, so these inputs determine them.
`SystemControl` shortens the reset pulse from 16 cycles to `Pulse` = 4, which is still longer than the
synchronizers; `Gap` = 1 cycle of computation per step; `Pre` = 10 is the least warning in which a program that is
asleep, or in the other handler, can still feed in time; smaller values violate `FedInTime`, as they would on the chip.
`JtagDebug` waits eight edges of either clock between two scans, as the testbench's agent does
(`src/eriscv-m2/dv/soc/tb/tb_jtag_dmi_agent.svh:93-94`); seven and two are the least with which `AnswersMatch` holds. `ByteGap` = 2
clock edges between two bytes stand for at least ten bit times: the parser needs one. One reset (`MaxResets` = 1) at
any edge; two were checked as well, on `JtagDebug` alone.

**Environment assumptions**, most of them a constant so that a run can drop it:
software prepares descriptors only while the channel is idle
(`PrepareWhileBusy` = FALSE); the debugger starts an access only
while the program is not at the DTCM (`SbaUncoordinated` = FALSE); and in the passing data-path workload the
DMA channel uses the other bank (`DmaWords`; `datapath_contention` puts it into the CPU's).
On the instruction side the instruction memory serves its data port only in a cycle in which
the load or store that uses it stalls MEM, and its boot port not at all (`BootWrites` = FALSE). A halt request stays up until the hart has halted, and
a debugger acts on the hart only when nothing is under way in it any more; before it resumes
it may write DPC (one of `DebuggerPcs`) or leave it. The instruction
memory answers after one cycle, as it is configured, so `drop_resp_q` is never set.
In `FreertosMonitor` the sample period is long: a worker that may run has taken up one sample before the next comes (guard of `TimerExpires`).
A memory error may be answered for some words (`ErrWords`): System SRAM itself
never answers with an error for a valid address, but the channel handles it.
One thread at a time owns the SPI device of `ZephyrDrivers` (`SpiShared` = FALSE), its callbacks do not enable
UART interrupts (`CallbackEnables` = FALSE), and pins are configured before they are used
(`ConfigureAnytime` = FALSE); `DriversAssumption` also keeps the names of threads apart from those of the ISR and of nobody. The transfers that software asks for and the descriptors that it writes keep off the
descriptor slots and do not run into their own source (`SoftwareAssumption`). A jump has one target, and FENCE.I and
WFI are 32-bit instructions, as the ISA has them (`FormatAssumption`). A host scans reads and writes, and NOPs
only to fetch answers (`ScriptsAssumption`). A reset of the board resets the TAP too (`ResetTogether` = TRUE), as the FPGA wrapper
connects it; a reset of the TAP alone is always possible. Section 4 says what happens without each of these.

**Fairness.** `SystemSram`, `DataPath` and `SystemControl` assume only that the clock runs
(weak fairness of the edge), `JtagDebug` that both clocks run and the host goes on. `DmaSystem` assumes that its memory port admits and answers — what
`Served` of the `baremetal` run establishes for the port it is
connected to — and that the UART drains. `FrontEnd` assumes that stalls, bubbles and
memory contention do not hold the core for ever while it could move by itself
(`Fairness`): the data path's `BackendAdvances` is the counterpart. Nothing is assumed of
interrupts, requests of the debugger, or the release of fetch. In the software modules the processor goes on with whatever runs,
the line sends and the peripherals finish what they have begun, the tick comes again and again
and a handler that can be entered again and again is entered (strong fairness where critical sections come between); nothing is assumed of callers, keys, samples or bytes that
arrive. Where tasks of equal priority share the processor, the tick's round robin makes each of them run, though another may hold the
processor again and again (strong fairness per task).
`CHECK_DEADLOCK FALSE` is set for the runs in which the system may have nothing left to do: bounded starts, and programs
that end.

### Properties

* `dma`: `PayloadExact` (`CopyExact`, `UartStream`), `WritesConfined` — payload, the rest of
  System SRAM and the byte stream, at every edge, also during aborts and errors.
  `HandbackTruth` — OWN cleared, status and byte count true whenever a
  descriptor is given back; `BusyEnds` — every transfer, chain and abort ends; `EndReported` — with exactly one outcome, DONE
  only for complete transfers, except that an aborted direct transfer ends with none if the handler has read its ERROR and cleared it
  while the channel drained; `OutcomeExclusive` — at no moment both, with clears on any edge; `TakenAsGiven` — a descriptor is processed as published.
* `datapath`: `LoadsSeeProgram` — every load gets the last store to its address, whatever
  else answers; `PendingIsHeld` — no lost request; `BackendAdvances` — the backend never stops for good.
* `frontend`: `ExecutedInOrder` — what reaches EX is the next instruction of the program, cut from the
  right halfwords. `FrontEndLives` (`FetchProgress`, `HaltCompletes`) — the running core is fed again and again, a halt request halts the hart.
* `uart`: `TxSound` — order, and `tx_pending` = 0 only when all is sent; `RxAccounted` — delivered, waiting,
  dropped and lost bytes add up, in order; `NoWakeupLost` (`TxDrains`, `RxServed`).
* `monitor`: `StreamSound` — samples are queued or counted as dropped (except while `w` clears the counters), a benchmark never runs beside the stream,
  a command finds room in the queue; `KeysServed` — every key is answered although a task may sleep with the mutex.
* `demo`: `AssertsHold`, `WorkersFinish` — the image; `ClaimedOnce`, `InterruptsServed` — claims and completions of program and handler,
  under changing enables and priorities; `ExamplesPass`.
* `zephyr`: `ConsoleSends` — three threads' output, in order, all of it; `ImageEnds` — the verdict and the hand-offs;
  `SpiAnswers` — each transfer gets its own slave's answers; `UpdatesKept` — no bit is lost in read-modify-write.
* `baremetal`: `HalvesAgree` — a 64-bit value in halves never shows one nobody meant; `TicksShown` — no tick lost; `FftIsDft` — the transform ends with the DFT of its input;
  `AtomicSpec` (refinement), `Served`, `WaitBounded` — System SRAM is one memory for both masters, who wait three cycles at most.
* `control`: `WakeResumes`, `FedInTime`; `AnswersMatch`, `SessionsEnd`, `BootedImage`; `ResumesWhereItWas`, `PmpIsCurrents`, `ChainCompletes`.

Stated in the modules, checked while they were written and in no run now, because a stronger one in a run depends on
them or because they are typing: the `TypeOK`s, `AbortStopsPayload`, `AnswersExpected`, `BridgeIdle` and `SbaReadsBack`
(these four, and most of the `TypeOK`s, are proved for all instances), `ResetReleases` and `LockedRuns` (proved as well), `SysImagesEnd`.

## 4. Findings

Three disagreements have a run that TLC must find violated:

1. **A CPU request can be lost at System SRAM** (`datapath_contention`,
   `soc.sv:505`): the ready of the fabric is not connected to the core, whose request
   is a pulse. A request that meets a bank which serves the DMA channel is lost and the core waits
   for ever. `PendingIsHeld` is the safety form.
2. **A pin edge does not wake the core from automatic sleep** (`control_edge`,
   `src/peripherals/clk_rst/clk_rst_ctrl.sv:260`): with `WFI_SLEEP_EN`, an edge of an enabled pin turns the core's clock on and pulses
   `cpu_wake_o`. In the next cycle the core leaves WFI, but `cpu_wfi_i` is still up and the edge is gone, so the controller sees a WFI in automatic mode
   without an event and stops the clock again. This happens to every edge of one cycle without a pending interrupt, whether the core had been asleep
   for long or was just falling asleep (TLC's trace is of the first kind); only another event in that very cycle saves it. A level (the timer, the watchdog) is still there
   and wakes the core once more. In request mode the request is consumed by the wakeup, and `WakeResumes` holds (`control`).
3. **The handler of a DMA event clears an outcome that it has not read** (`dma_event`, `src/eriscv-m2/sw/lib/dma.c:107`): the descriptor contract
   (`src/eriscv-m2/docs/eriscv-m2-dma-descriptor-spec.md:72-75`) has software clear an event with `DESC_IRQ`, and DONE come later. The handler reads STATUS, then clears
   DONE, ERROR and DESC_IRQ together. If the chain ends between the two accesses, its outcome is gone: the hook is told of the event only, no interrupt
   comes for the end, and a poll finds an idle channel without an outcome.

### Known divergences without a run

Each is stated in a module, or follows from a constant, and can be reproduced by the change named.

| what | how to see it |
|---|---|
| A torn descriptor: OWN set last does not protect a descriptor that is published while it is being fetched (`soc/dma/dma_controller.sv:306`). | `dma` with `PrepareWhileBusy = TRUE`: `TakenAsGiven` |
| ERROR is set before the write-back of an aborted descriptor; the descriptor contract orders them the other way round (`dma_controller.sv:222`). | `dma`, invariant `ErrorAfterWriteBack` |
| An access is repeated: `mem_pending_q` is clear after the answer while a younger multi-cycle operation keeps the packet in EX/MEM (`mem_stage.sv:247`). Harmless for memories, not for a FIFO or a claim register. | `datapath` with `Workloads <- MCPeripheral`, invariant `IssuedOnce` |
| A CPU request can be lost to the debugger at the DTCM (`data_mem_arbiter.sv:69`). | `datapath` with `Workloads <- MCDebugged`, `SbaUncoordinated = TRUE`: `PendingIsHeld` |
| DPC is not the next instruction after a halt during an interrupt entry: a redirect that still waits is not in `pc_q` (`if_stage.sv:175`). The testbench writes DPC before each resume (`src/eriscv-m2/dv/soc/tb/tb_debug_scenarios.svh:128`) and does not meet it. | `frontend`, property `DpcIsNext` |
| Halted with an instruction under way: the drain condition overlooks a fetch response of the same cycle (`riscv_core.sv:314`). | `frontend`, invariant `HaltDrains` |
| An instruction executes twice when the boot port writes while the core runs (`pipeline_control.sv:96`). | `frontend` with `BootWrites = TRUE`: `ContentionOnlyStalls` |
| A task's completion is lost: `task_done_bits` is changed by load and store in four tasks (`src/eriscv-m2/sw/rtos/freertos/main.c:71-73`, its `README.md:8-10`); the consumer then polls for ever. | `demo`, invariant `DoneRecorded` |
| The final gate of the user-mode chain can report a failure: user3 may exit while those who notified it, preempted after the give, have not yet recorded what they did (`src/eriscv-m2/sw/rtos/freertos_umode/main.c:211`). | `control`, invariant `GatePasses` |
| The stream's counters disagree after a `w` that a sample of a timer armed by `r` meets while it clears them one by one (`src/eriscv-m0/sw/demos/freertos_monitor/main.c:458-460`). | `monitor`, invariant `CountersAgree` |
| The two DMA images sleep for ever if the interrupt comes between the check of the loop and WFI (`src/eriscv-m2/sw/examples/dma_irq_wfi/main.c:35`; `sw/README.md:49` "wakes WFI"). They rely on the transfer outlasting the few instructions before WFI; a debugger's halt in between, or a shorter transfer, makes it happen. | `baremetal` with the two DMA images only, `MaxTime = 10`, `Interval = 1`, property `DmaWakes` |
| The second and third wait of `timer_apb_poll` end at once: nothing clears STATUS.expired (`sw/README.md:43` "one-shot"). | `demo`, invariant `TimerWaits` |
| Two threads on one Zephyr SPI device: the driver checks that no transfer is active and lets the lock go before it starts its own (`zephyr/.../drivers/spi.c:142-147`). | `zephyr` with `SpiShared = TRUE`: `SpiAnswers` |
| A UART callback that enables an interrupt in the handler: a thread between its read and its write of CTRL takes that back (`zephyr/.../drivers/uart.c:48-55`). | `zephyr` with `CallbackEnables = TRUE`: `EnablesKept` |
| `pin_configure` reads and writes the port without the lock (`zephyr/.../drivers/gpio.c:42-57`). | `zephyr` with `ConfigureAnytime = TRUE`: `PinsAsSet` |
| `poll_out` waits to see the transmitter busy: a thread that is preempted for the time of a byte waits for ever (`zephyr/.../drivers/uart.c:76`). | `zephyr`, invariant `PollOutEnds` |
| DTMCS announces no idle cycles (`soc/debug/jtag_dtm.sv:130`), but a host that waits less than seven edges of the clock and two of TCK between two scans reads an old answer or replaces its own request. | `control` with smaller `ClkWait`, `TckWait`: `AnswersMatch` |

One requirement on the integration: with `ResetTogether = FALSE` a reset of the board without one of the TAP
violates `AnswersMatch`, since the toggles of the two sides then disagree (`soc/debug/dmi_cdc.sv:44`). The board wrapper meets it by deriving
TRST from the reset of the system (`src/eriscv-m2/fpga/vcu108/rtl/eriscv_m2_vcu108_wrapper.sv:132`).

Seen while modelling, below what the modules' properties speak of:

* The UART mode of the DMA channel is a live CTRL bit (`soc/dma/dma_controller.sv:353`): a write to CTRL in the middle of
  a transfer changes where its next word goes. Software does not write CTRL then, except for an abort.
* OWN is given back in the first of the three write-back words (`dma_controller.sv:454`): software that polls OWN instead of
  STATUS may read the status and the byte count of before. The driver polls STATUS.
* A data access to the instruction memory is dropped when the boot loader writes in the same cycle (`soc/mem/instr_mem.sv:68`).
* `dma_wait` with the interrupt enabled reports OK for an ERROR that the handler has cleared, after the end or, for an aborted direct
  transfer, before it (the exception in `EndReported`): the hook is then the only one who knows.
* `irq_timer_uart` never sets RX_IRQ_EN, so the echo that `sw/README.md:46` promises never comes.
* The Zephyr counter driver calls its callback twice per expiry; stopping and starting the counter loses its interrupt enable.
* The Zephyr watchdog's callback may come after `wdt_disable`; its window is never effective, as CTRL.WINDOW is never set.
* `enter_sleep` does not clear a stale wake status, and its store clears `WFI_SLEEP_EN`; an edge between
  the sleep request and WFI is recorded but does not cancel the sleep; a clear of WAKE_STATUS in the
  cycle of a hit is lost.
* An access to a domain that is stopped or in reset is silently lost.
* The watchdog's STATUS.expired does not survive the reset it announces.
* Accesses to a hole of the CLINT are never answered (`soc/clint.sv:61`): the core waits for ever.

## 5. Proofs

TLAPS proves the following for every value of the constants that satisfies the named
assumptions of the modules. Each inductive invariant was checked by TLC on a run's
instance before it was proved. "States" names the property of a run that the theorem
states for all instances.

| module | theorem | states | beyond the modules' assumptions |
|---|---|---|---|
| `DmaSystem_proofs` | `RangeAllowedExact`, `TypeCorrect`, `AbortEffective` | | |
| | `OneOutcome` | `OutcomeExclusive` | |
| | `ImplementsDmaSpec`, `SystemTypes` | | |
| | `SystemOutcome` | `OutcomeExclusive` | |
| | `EndTold` | `EndReported` | |
| | `PayloadCopied`, `WritesInBounds` | `PayloadExact`, `WritesConfined` | `~PrepareWhileBusy` |
| | `DescriptorsAsGiven`, `HandbackIsTrue` | `TakenAsGiven`, `HandbackTruth` | `~PrepareWhileBusy` |
| `SystemSram_proofs` | `TypeCorrect`, `AnswersReach` | | |
| | `WaitIsBounded` | `WaitBounded` | |
| | `ImplementsAtomicMemory` | `AtomicSpec` | |
| `DataPath_proofs` | `TypeCorrect`, `QueueUnused`, `DebuggerReads` | | |
| | `LoadsCorrect` | `LoadsSeeProgram` | |
| | `NoRequestLost` | `PendingIsHeld` | `Coordinated` |
| `FrontEnd_proofs` | `TypeCorrect` | | `~BootWrites` |
| | `InOrder` | `ExecutedInOrder` | `~BootWrites` |
| `Drivers_proofs` | `TypeCorrect` | | |
| | `TransmitsInOrder`, `ReceivesAll` | `TxSound`, `RxAccounted` | |
| | `UpdatesStay` | `UpdatesKept` | `~CallbackEnables`, `~ConfigureAnytime` |
| | `TransfersAnswered` | `SpiAnswers` | `~SpiShared` |
| `FreertosDemo_proofs` | `TypeCorrect` | | |
| | `AssertionsHold` | `AssertsHold` | |
| | `ClaimsApart` | `ClaimedOnce` | |
| `FreertosMonitor_proofs` | `TypeCorrect` | | |
| | `StreamStaysWhole` | `StreamSound` | `QueueLen >= 2` |
| `Control_proofs` | `TypeCorrect` | | |
| | `OwnRegion`, `OwnFrame` | `PmpIsCurrents`, `ResumesWhereItWas` | |
| | `HalvesAlwaysAgree` | `HalvesAgree` | |
| | `SysTypesCorrect`, `ClockOutlivesReset`, `LockHolds` | | |
| | `WarningIsServed` | `FedInTime` | `Pre >= 3 * Gap + 7`, `Timeout >= Pre + Gap + 1`, programs `Watched` or `Unwatched` |
| | `HostHearsItsAnswer` | `AnswersMatch` | `ResetTogether`, `ClkWait >= 7`, `TckWait >= 2` |
| | `TransformTypes`, `TransformPasses` | | |
| | `TransformIsDft` | `FftIsDft` | |
| | `TransformInBounds` | (of no run) `FftInBounds` | |
| | `UartLoadsTheFile` | `BootedImage` in boot mode "uart" | |
| | `ImageIsBooted` | `BootedImage` | `ResetTogether`, `ClkWait >= 7`, `TckWait >= 2`, `HostsLoad` |

The hypotheses of the last column are those under which the property holds at all: section 4 lists, for
each, the change of constant with which TLC finds it violated. `~PrepareWhileBusy` is what every
program of `src/eriscv-m2/sw/examples` does: descriptors are written before the channel is started.
The one exception is `ImageIsBooted`, which takes the first three from `HostHearsItsAnswer`, on which it rests: TLC finds
`BootedImage` violated with `ClkWait = 2`, but not with `ResetTogether = FALSE`, `ClkWait = 6` or `TckWait = 0`.

**DMA channel.** `OutcomeExclusive` is not inductive: at the end of a write-back DONE is set if
the descriptor error flag is down, and that ERROR is then down as well has to be
known. `Inv` adds `ErrorHasCause` and the typing; the lemma
`BusyWrite` says what a register write can do to a busy channel, `IdleCsr` to an idle one, and
`InvStep` goes through the actions one by one. It is about `DmaSpec`, the channel under any inputs.
`ImplementsDmaSpec` maps each step of `DmaSystem` to one of those, so that these theorems hold there too.

**DMA channel with memory and software.** `IInv` has two halves, proved one after the other. `Channel` holds whatever software
does: which request is on the bus in which state (`Asked`), what a register copy of the job still has
to do with the job (`Registers`, `CopyAt`, `StreamAt`), in-range addresses (`Path`), and that an abort of a direct transfer has its ERROR still up or was told
(`AbortTold`, which `EndTold` rests on; `InterruptChannel` and `BusyEdge` carry it over the interrupt and over clears on any edge). `Contract` needs the
promise of software: every descriptor in memory and every fetched part of one agrees with what was published
(`Ownership`), the word in the channel is the source's word as it was before (`Carried`), and the two properties
`CopyExact` and `UartStream`. That the source is unchanged although the channel writes is the crux: it rests on
`Apart`, a transfer runs neither into its own source nor into the descriptors.

**System SRAM.** `Fabric` ties the phase of a bank's arbiter to the phase of the master that owns it, and the load-response
register to the one load that may be in it; `Turn` says when a waiting master was passed over. The refinement performs
the abstract access in the step in which the bank does; `OneAtAWord` is why the two masters' accesses to a word are ordered.

**Data path.** `IInv` says of the one packet in EX/MEM where its request is and that the answer under way holds the
program's value: in the MEM stage's hold register, the DTCM's answer register, the bridge, the CLINT port or a bank's
output (`LocalAnswers`, `BridgeWorks`, `ClintWorks`, `BankWorks`, `LoadKept`), and of the memories that they hold the program's stores but for one that is on its way
(`Memory`). This is enough for `LoadsCorrect`, with the debugger and the DMA channel as they please. `NoRequestLost` needs more, `HInv`: the DTCM's port is
free for the packet (`PortFree`), the DMA channel stays in its banks (`OwnBanks`), and what is waited for is
on its way (`OnItsWay`).

**Instruction side.** `Delivers(Expected)` is the heart: from the instruction after the one in EX, the stream of the program continues through IF/ID,
the hold register, the upper-half buffer, the outstanding request and the request counter, each of which may be empty; or
there is a waiting redirect to that place and nothing else. `Serialised` (a trap, MRET or WFI is alone in the pipeline) and `Returns` (`mepc` is where
the reference machine will return, or the trap that sets it is still to commit) carry it over control events.

**UART driver.** Bytes are numbered, so the invariants are about ascending sequences: line, shift register, FIFO and ring joined are the accepted numbers in order
(`TxState`); delivered, ring and FIFO joined rise, have arrived, and are as many as the arrivals less the dropped and the lost ones (`RxState`). `Turns` says
where program and handler may be together, and that a caller who saw the driver idle has found an empty ring.

**Zephyr drivers.** `DrvInv`: who is between the read and the write of the GPIO port holds the lock, and the port is as it was read (`PortLocked`); who configures a
pin (`ConfiguresAlone`) or updates the UART's interrupts (`UpdatesAlone`) is the only caller in the driver. The UART's ISR is not kept out of the update, so what the caller has
read may be stale; it is enough that it holds at least what is to stay enabled, since callbacks only disable.

For the SPI, `SpiProtocol`: who is in a call is alone with the device; a transfer under way has the answers to its first `index` bytes in its buffers (`Underway`), and the next byte is
on the wire or its answer in the data register (`Awaits`), so a flag or an interrupt left from an earlier transfer never counts. That a byte's index finds its buffer and its place there,
for any list of buffers of any sizes, is `PlaceOf`, and that the buffers joined are the bytes in order `FlattenIs`. Both are inductions over the list. The library's induction
theorems have an operator as parameter; `Induct` says the same of a set, and follows from the well-foundedness of `<`. It also gives the
existence of the functions that `Before` and the library's `FlattenSeq` define recursively (`CountsExist`, `JoinsExist`).

**Qualification image and BSP.** `IInv` relates the places of the four tasks: the consumer looks into the empty queue before the trigger gets past its first delay (`ConsumerFirst`), one expiry of the timer makes one event and one notification (`EventOnce`), the mutex has the holder whose place says so (`HeldBy`), and the controller's registers, the driver's record and the bytes received agree with the place of the
transfer (`Transfers`). `BspIInv` follows the pieces of code that program and handler still have to run: only the claim protocol's own accesses touch the PLIC (`Plain`), and
each phase of a claim goes with one form of remaining code (`InPhase`).

**Monitor.** The counters of the stream agree because of the priorities: while the console, with the mutex in its hands, works on a command up to its effect, the worker
waits for its empty queue or has only the sample that has come since (`Quiet`). `WorkerWaits` is the core: the console runs only when the worker does not want to (`ConsoleRuns`),
and a worker that waits for the mutex waits for a holder, to whom it lends its priority (`Scheduled`). So the counters are cleared with nothing in hand (`Counted`), and at most one sample is in the queue
when a command is sent: two places are enough, `main.c` has sixteen. `OneBenchmark` follows the one benchmark through its text, the queue and the worker.

**User mode.** `Types`, `CallPlaces` (where in a system call which service can be), the PMP property itself, and `Frames`: a task that does not run has
been left with the frame of its place.

**Debug link.** `LinkInv` follows a request by the edges of the clock it still needs: before the crossing
(`Travels`), in it (`Crosses`), done (`Performed`), and its answer by the edges of TCK (`Announced`). After a reset of the TAP the toggles of the two sides may disagree, and the crossing performs a NOP that
nobody sent; `Unrest` counts the edges until it is at rest again, at most seven, which is where the bound on `ClkWait` comes from. That nothing which is not a NOP is performed twice or is somebody else's (`Honest`)
holds in all phases.

**Boot.** `Reading` and `Sent` are recursive functions of the file; that they exist and what they are (`ReadingIs`, `SentIs`, `WholeIs`: where
each byte of each entry is on the line) is by induction over the file, with `Induct` and `Recursion`. `ReadTo` says that the words of the first entries are in the memory
and the address of the next is due, counting the word still in the write port (`Flushed`); `LineDoes`, that the command of an entry takes this to the next. Over the UART a command is registered for one
edge of the clock before it is carried out, so `Underway` looks at the registers as they will be after it, and `TakenByte` goes through the bytes of an
entry with the parser (`InLine`). Through the window the same induction is over the script (`Stage`, `AccessDoes`); the host knows how far it is (`CarriedOut`), but after a reset of the TAP a request
of the session before may still be performed in the new one (`Unanswered`), at a place of the script that it fits. `HostsLoad` is the hypothesis on the scripts: hold, address and increment, address 0, one access per
entry, none of them repeated, and then neither the address nor the data register is written again; script `boot` of `MCControl` is such a one.

**64-bit registers in halves.** `ImageInv`: what a caller has read are the high digit of a time and the low digit of a later one, with no carry between them if the
second look at the high digit agrees (`HalfRead`); while a compare value is being set, the high digit is all ones, which no time reaches, and otherwise it is the value asked for (`HalfSet`).
`OneCaller` keeps main and handler from being in a helper at once. The arithmetic of digits is in `DigitsAre` and `HiMonotone`.

**Clocks, resets and watchdog.** `SysInv` holds for every program that calls the helpers with values of their parameters' types (`ClientsAssumption`).
A domain that is not in its reset pulse needs two edges of its clock to leave reset: those it has had and those it is still promised are two together (`Booted`), and the boot of the core
takes longer than that (`Booting`). `CycleStep` reduces everything the core does to one access that fits its register; `SysClockStep` then needs no case of a program.
A watchdog that is locked is out of its reset and stays so (`Locked`), and one that runs keeps its clock: `ClockOutlivesReset` states `ResetReleases`, and `LockHolds` states `LockedRuns`.

`WarningIsServed` is about two kinds of programs: those that set the watchdog up as `guard` in `MCControl` does, lock it and serve its interrupt, and then
call any helper in any order; and those that never enable it. `Left` counts the cycles from each place, asleep or awake, to the feed in the
handler: three stretches of `Gap` cycles and seven steps at the most. `Guarding` says that a pending warning leaves that many cycles (`LeftShrinks`: every step uses
up one), and that a warning that comes before the handler has completed finds the counter high enough for the next round, which is what the second hypothesis is for.
Both bounds are sharp: with `Gap` = 1, `Pre` = 9 or `Pre` = 10 with `Timeout` = 11 makes TLC find `FedInTime` violated.

**Transform.** `FftInv` says what is in the arrays between any two iterations. While indices are reversed, a place whose own or whose partner's turn has come holds
the input of its partner (`Reversing`; that reversing twice is nothing, `ReverseTwice`, is an induction over the bits). In stage `s` each place holds its value in the transform of a
part of the inputs: those `FftPoints / 2^(s + 1)` apart, for a block of `2^(s + 1)` places, if its butterfly comes before the one the loops stand at, and else those of the stage before (`InStage`, `Before`, `Block`).
A part is a sum by a recursive function (`Part`), and the step from one stage to the next is that a sum is the sum of its even terms and of its odd ones (`SumSplits`), that the factors
of the second half of the frequencies are those of the first with the sign changed (`HalfTurn`), and that the bit above the offset says which half of the inputs a block has (`ReverseOdd`).
The same counters of the stage say where the butterfly's two places and its factor are (`ButterflyPlaces`), hence `FftInBounds`: it accesses no place outside its arrays and tables. No run lists it: TLC stops by itself at a read outside the arrays.
Under this are the laws of the arithmetic: the pairs of numbers modulo `Modulus` are a ring with an i (`AddLaws`, `TimesLaws`, `UnitLaws`). The assumptions on the constants are
`FftPoints = 2^FftLog2`, a modulus of at least two (a prime is not needed) and `RootAssumption`.

**Only model-checked.** Liveness (`BusyEnds`, `Served`, `BackendAdvances`, `FrontEndLives`, `NoWakeupLost`, `KeysServed`, `WorkersFinish`, `InterruptsServed`, `ExamplesPass`, `ConsoleSends`, `ImageEnds`,
`TicksShown`, `WakeResumes`, `SessionsEnd`, `ChainCompletes`) and ENABLED are beyond the prover.
Every safety invariant and action property of a passing run is stated by a theorem. No recursive operator is used; `Fft`, `BootSubsystem` and `ZephyrDrivers` use recursive functions.

## 6. What is not modelled, and the plan

`PROJECT.json` lists every part with its status; what is left out, and why:

* *Hardware of M0 and M1*: earlier members of the family; M2 contains their blocks. Their software is modelled.
* *FPU*: vendored arithmetic; its adapter freezes EX/MEM as the multiplier does.
* *Data path*: byte enables and lanes (all accesses are words), PMP faults and traps at the MEM stage, APB
  slave errors, SBA access sizes and auto-increment, the PLIC, DMA-register and IMEM targets of the D-bus.
* *DMA*: in `DmaSystem`, writes of CTRL other than aborts while the channel is busy (`DmaController` and its theorems have any write at any time).
* *Instruction side*: the PMP barrier, single step, EBREAK and trigger entry, DRET, synchronous exceptions; decoding
  and forwarding, which are functions of one instruction and the subject of the compliance suites.
* *Debug*: the TAP's sixteen states (a scan is its capture and its update), registers other than those of the scripts,
  `dmi_mm_bridge` (simulation only).
* *Clock and watchdog*: the busy override, sleep under debug halt, the feed window, the GPIO bits one by one.
* *Software*: the text of messages, line editing, the arithmetic of benchmarks and filters, polled `getc`, Zephyr calls that
  the image and the modelled applications do not make, compliance ports. Startup code and linker scripts
  are straight-line. `fpu_fft1024_vectors.h` and the other tables are data; of the headers of registers, what the code uses is in the modules that use it.
* The kernels of FreeRTOS and Zephyr: external, not part of this repository's sources.

Planned, most important first:

1. `ImageIsBooted` without `ResetTogether`, from a weaker invariant of the link in which a request may be lost.
