-------------------------------- MODULE Bsp --------------------------------
(***************************************************************************)
(* The calls of the board support package (eriscv_mcu.h, sw/lib/dma.c,     *)
(* sw/lib/trap.c, and rtos/freertos/drivers/plic.c) over the PLIC, the DMA *)
(* channel, Timer0, the GPIO pins and the state of the FPU.                *)
(*                                                                         *)
(* A call is the sequence of register accesses it makes; an interrupt may  *)
(* come between any two.  A program is a sequence of calls: an example of  *)
(* sw/examples, or "any": whatever calls about interrupts, in any order.   *)
(* The UART's handler is that of UartDriver; here it lowers the line.      *)
(* Left out are arguments that a call refuses, and the 10000 polls after   *)
(* which dma_wait gives up: the transfers of the examples end before.      *)
(***************************************************************************)
EXTENDS Integers, Sequences

CONSTANTS Programs,   \* "none", "any", or examples
          Levels,     \* priorities
          Thresholds  \* thresholds

Uart == 1
Dma == 5
Sources == {Uart, Dma}
Callees == {"program", "trap"}

ASSUME BspAssumption == Levels \subseteq 0 .. 7 /\ Thresholds \subseteq 0 .. 7

VARIABLES
  program,
  code,     \* the accesses that the program, and the trap handler, still make
  loaded,   \* what each has just read, for the access that follows
  result,   \* the variable of this name of the examples
  held,     \* the source each has claimed and not completed, or 0
  machine,  \* interrupts are enabled; whether a trap is being handled
  plic,     \* priorities, threshold, enabled, pending and in-service sources
  eip,      \* plic_meip_q, the registered output of the PLIC
  uartIrq, msip,
  dmac,     \* STATUS and irq_enable of the channel; the copy has been made
  timer0,   \* Timer0: on, expired, and the interval asked for has passed
  pins,     \* GPIO: directions and output of the first pin
  fpu       \* mstatus.FS and fflags

Nothing == <<"none", 0>>
bspVars == <<program, code, loaded, result, held, machine, plic, eip, uartIrq,
             msip, dmac, timer0, pins, fpu>>

-----------------------------------------------------------------------------
(* The accesses, and the calls they make up.                               *)

Load(reg) == <<<<"load", reg>>>>
Store(reg, value) == <<<<"store", reg, value>>>>
StoreOr(reg, bits) == <<<<"or", reg, bits>>>>
StoreAndNot(reg, bits) == <<<<"andnot", reg, bits>>>>
Then(what) == <<<<"then", what>>>>   \* go on as loaded says

PlicSetPriority(source, priority) ==
  Store("priority", [source |-> source, is |-> priority])
PlicSetEnabled(source, enabled) ==
  Load("enable") \o IF enabled THEN StoreOr("enable", {source})
                    ELSE StoreAndNot("enable", {source})
PlicSetThreshold(threshold) == Store("threshold", threshold)
PlicClaim == Load("claim")
PlicComplete(source) == Store("claim", source)
PlicInitSource(source, priority) ==
  PlicSetPriority(source, priority) \o PlicSetEnabled(source, TRUE)
    \o PlicSetThreshold(0)

EnableMachineIrqs == Store("mie", TRUE)
DisableMachineIrqs == Store("mie", FALSE)
ClintSetMsip(raised) == Store("msip", raised)

GpioSetDirection(bits) == Store("gpio dir", bits)
GpioWrite(value) == Store("gpio out", value)

TimerStart == Store("timer count", 0) \o Store("timer ctrl", TRUE)
TimerExpired == Load("timer status") \o Then("until expired")

FpEnable == Store("fs", "initial")
FpClearFflags == Store("fflags", {})
FpReadFflags == Load("fflags")
FpReadFcsr == Load("fflags")
FpReadMstatus == Load("fs")
FpCompute(raises) == <<<<"compute", "fpu", raises>>>>

DmaStatus == Load("dma status")
DmaClearStatus == Store("dma status", {})
DmaStartCall == DmaStatus \o Then("start unless busy")
DmaUartTxStart == DmaStatus \o Then("start unless busy")
DmaStartDescriptor == DmaStatus \o Then("start unless busy")
DmaWait == Then("wait if started")
DmaIrqEnable(priority) ==
  PlicSetPriority(Dma, priority) \o PlicSetEnabled(Dma, TRUE) \o PlicSetThreshold(0)
DmaIrqDisable == PlicSetEnabled(Dma, FALSE)
DmaIrqHandler == DmaStatus \o DmaClearStatus
UartIrqHandler == Store("uart irq", FALSE)

\* eriscv_mcu_machine_external_irq_handler: claim, the source's handler, and
\* complete.
ExternalIrqHandler == PlicClaim \o Then("dispatch")

\* A wrong handler completes the UART only.
DispatchUart(source) ==
  CASE source = Uart -> UartIrqHandler \o PlicComplete(source)
    [] source = Dma -> DmaIrqHandler
    [] OTHER -> <<>>

Dispatch(source) ==
  CASE source = Uart -> UartIrqHandler \o PlicComplete(source)
    [] source = Dma -> DmaIrqHandler \o PlicComplete(source)
    [] OTHER -> <<>>

\* eriscv_mcu_trap_handler with the interrupt that is taken.
TrapHandler(cause) ==
  IF cause = "external" THEN ExternalIrqHandler ELSE ClintSetMsip(FALSE)

-----------------------------------------------------------------------------
(* The programs.                                                           *)

AnyCall ==
  {PlicInitSource(Uart, p) : p \in Levels} \cup {DmaIrqEnable(p) : p \in Levels}
    \cup {PlicSetThreshold(t) : t \in Thresholds}
    \cup {DmaIrqDisable, EnableMachineIrqs, DisableMachineIrqs,
          ClintSetMsip(TRUE), ExternalIrqHandler}

HelloUart == GpioSetDirection(1) \o GpioWrite(1)

TimerApbPoll ==
  GpioSetDirection(1) \o GpioWrite(0)
    \o TimerStart \o TimerExpired \o GpioWrite(1)
    \o TimerStart \o TimerExpired \o GpioWrite(0)
    \o TimerStart \o TimerExpired \o GpioWrite(1)

DmaSystemSram == GpioSetDirection(1) \o DmaStartCall \o DmaWait
                   \o Then("compare") \o DmaClearStatus \o Then("report")

DmaUartTx == GpioSetDirection(1) \o DmaUartTxStart \o DmaWait \o Then("report")

DmaDescriptorChain == GpioSetDirection(1) \o DmaStartDescriptor \o DmaWait
                        \o Then("compare") \o Then("report")

FpuChecks == FpEnable \o FpCompute({}) \o FpClearFflags \o FpCompute({"dz"})
               \o FpReadFflags \o Then("divided by zero")
               \o FpReadFcsr \o Then("divided by zero")
               \o FpReadMstatus \o Then("dirty")

FpuDmaSram == GpioSetDirection(1) \o DmaStartCall \o DmaWait
                \o DmaStatus \o Then("done") \o Then("compare") \o Then("fpu")
                \o DmaClearStatus \o Then("report")

Example == [hello_uart |-> HelloUart, timer_apb_poll |-> TimerApbPoll,
            dma_system_sram |-> DmaSystemSram, dma_uart_tx |-> DmaUartTx,
            dma_descriptor_chain |-> DmaDescriptorChain, fpu_dma_sram |-> FpuDmaSram]

-----------------------------------------------------------------------------
(* The PLIC.                                                               *)

IrqOf(source) == IF source = Uart THEN uartIrq
                 ELSE dmac.irqEn /\ dmac.status \cap {"done", "error"} # {}

Eligible == {s \in (plic.pending \cap plic.on) \ plic.serving :
               plic.priority[s] > plic.threshold}
Goes(s, t) == \/ plic.priority[s] > plic.priority[t]
              \/ plic.priority[s] = plic.priority[t] /\ s <= t
Highest == IF Eligible = {} THEN 0
           ELSE CHOOSE s \in Eligible : \A t \in Eligible : Goes(s, t)

Claimed == IF Highest = 0 THEN plic
           ELSE [plic EXCEPT !.pending = @ \ {Highest}, !.serving = @ \cup {Highest}]

\* Wrong: a completion releases every source.
CompletedAll(source) == [plic EXCEPT !.serving = {}]
Completed(source) == [plic EXCEPT !.serving = @ \ {source}]

PlicClock ==
  /\ plic' = [plic EXCEPT !.pending =
                @ \cup {s \in Sources : IrqOf(s) /\ s \notin plic.serving}]
  /\ eip' = (Highest # 0)
  /\ UNCHANGED <<program, code, loaded, result, held, machine, uartIrq, msip, dmac,
                 timer0, pins, fpu>>

-----------------------------------------------------------------------------
(* The accesses.                                                           *)

Runs(c) == code[c] # <<>> /\ (c = "program" => ~machine.trap)
Access(c) == code[c][1]
Does(c) == Access(c)[1]
Of(c) == Access(c)[2]
Value(c) == Access(c)[3]
Last(c) == loaded[c][2]
Proceeds(c, more) == code' = [code EXCEPT ![c] = more \o Tail(@)]
Forgets(c) == loaded' = [loaded EXCEPT ![c] = Nothing]

Register(reg) ==
  CASE reg = "enable" -> plic.on
    [] reg = "claim" -> Highest
    [] reg = "dma status" -> dmac.status
    [] reg = "timer status" -> timer0.expired
    [] reg = "fflags" -> fpu.flags
    [] reg = "fs" -> fpu.fs

Loads(c) ==
  /\ Runs(c) /\ Does(c) = "load"
  /\ loaded' = [loaded EXCEPT ![c] = <<Of(c), Register(Of(c))>>]
  /\ IF Of(c) = "claim"
     THEN plic' = Claimed /\ held' = [held EXCEPT ![c] = Highest]
     ELSE UNCHANGED <<plic, held>>
  /\ Proceeds(c, <<>>)
  /\ UNCHANGED <<program, result, machine, eip, uartIrq, msip, dmac, timer0, pins, fpu>>

StoresPlic(c, reg, value) ==
  /\ plic' = CASE reg = "priority" -> [plic EXCEPT !.priority[value.source] = value.is]
               [] reg = "threshold" -> [plic EXCEPT !.threshold = value]
               [] reg = "enable" -> [plic EXCEPT !.on = value]
               [] reg = "claim" -> Completed(value)
  /\ held' = IF reg = "claim" THEN [held EXCEPT ![c] = 0] ELSE held
  /\ UNCHANGED <<machine, uartIrq, msip, dmac, timer0, pins, fpu>>

\* STATUS of the channel and of Timer0 are cleared by writing ones.
StoresDevice(reg, value) ==
  /\ machine' = IF reg = "mie" THEN [machine EXCEPT !.mie = value] ELSE machine
  /\ msip' = IF reg = "msip" THEN value ELSE msip
  /\ uartIrq' = IF reg = "uart irq" THEN value ELSE uartIrq
  /\ dmac' = CASE reg = "dma status" -> [dmac EXCEPT !.status = @ \cap {"busy"}]
               [] reg = "dma ctrl" -> [dmac EXCEPT !.status = {"busy"}, !.copied = FALSE,
                                                   !.irqEn = value]
               [] OTHER -> dmac
  /\ timer0' = CASE reg = "timer count" -> [timer0 EXCEPT !.passed = FALSE]
                 [] reg = "timer ctrl" -> [timer0 EXCEPT !.on = value]
                 [] reg = "timer status" -> [timer0 EXCEPT !.expired = FALSE]
                 [] OTHER -> timer0
  /\ pins' = CASE reg = "gpio dir" -> [pins EXCEPT !.dir = value]
               [] reg = "gpio out" -> [pins EXCEPT !.out = value]
               [] OTHER -> pins
  /\ fpu' = CASE reg = "fs" -> [fpu EXCEPT !.fs = value]
              [] reg = "fflags" -> [fpu EXCEPT !.flags = value]
              [] OTHER -> fpu
  /\ UNCHANGED <<plic, held>>

PlicRegisters == {"priority", "threshold", "enable", "claim"}

Stores(c) ==
  /\ Runs(c) /\ Does(c) \in {"store", "or", "andnot"}
  /\ LET value == CASE Does(c) = "store" -> Value(c)
                    [] Does(c) = "or" -> Last(c) \cup Value(c)
                    [] Does(c) = "andnot" -> Last(c) \ Value(c)
     IN IF Of(c) \in PlicRegisters THEN StoresPlic(c, Of(c), value)
        ELSE StoresDevice(Of(c), value)
  /\ Proceeds(c, <<>>) /\ Forgets(c)
  /\ UNCHANGED <<program, result, eip>>

\* An arithmetic instruction: with FS off it would trap.
Computes ==
  /\ Runs("program") /\ Does("program") = "compute" /\ fpu.fs # "off"
  /\ fpu' = [fs |-> "dirty", flags |-> fpu.flags \cup Value("program")]
  /\ Proceeds("program", <<>>)
  /\ UNCHANGED <<program, loaded, result, held, machine, plic, eip, uartIrq, msip,
                 dmac, timer0, pins>>

Polls == DmaStatus \o Then("wait")

\* A wrong wait: it polls once.
WaitedOnce(status) ==
  [more |-> <<>>, is |-> IF "error" \in status THEN "eio" ELSE "ok"]

\* dma_wait with the status it has read.
Waited(status) ==
  IF "busy" \in status THEN [more |-> Polls, is |-> result]
  ELSE [more |-> <<>>, is |-> IF "error" \in status THEN "eio" ELSE "ok"]

\* The three start calls with the status they have read.
Started(status) ==
  IF "busy" \in status THEN [more |-> <<>>, is |-> "ebusy"]
  ELSE [more |-> DmaClearStatus \o Store("dma ctrl", FALSE), is |-> "ok"]

FailsUnless(holds) ==
  [more |-> <<>>, is |-> IF result = "ok" /\ ~holds THEN "eio" ELSE result]

Decided(what, value) ==
  CASE what = "dispatch" -> [more |-> Dispatch(value), is |-> result]
    [] what = "until expired" ->
         [more |-> IF value THEN <<>> ELSE TimerExpired, is |-> result]
    [] what = "start unless busy" -> Started(value)
    [] what = "wait if started" ->
         [more |-> IF result = "ok" THEN Polls ELSE <<>>, is |-> result]
    [] what = "wait" -> Waited(value)
    [] what = "compare" -> FailsUnless(dmac.copied)
    [] what = "done" -> FailsUnless("done" \in value)
    [] what = "fpu" -> [more |-> IF result = "ok" THEN FpuChecks ELSE <<>>, is |-> result]
    [] what = "divided by zero" -> FailsUnless("dz" \in value)
    [] what = "dirty" -> FailsUnless(value = "dirty")
    [] what = "report" ->
         [more |-> GpioWrite(IF result = "ok" THEN 1 ELSE 2), is |-> result]

Decides(c) ==
  /\ Runs(c) /\ Does(c) = "then"
  /\ LET d == Decided(Of(c), Last(c))
     IN Proceeds(c, d.more) /\ Forgets(c) /\ result' = d.is
  /\ UNCHANGED <<program, held, machine, plic, eip, uartIrq, msip, dmac,
                 timer0, pins, fpu>>

-----------------------------------------------------------------------------
(* Calls, traps and devices.                                               *)

Calls ==
  /\ program = "any" /\ code["program"] = <<>> /\ ~machine.trap
  /\ \E call \in AnyCall : code' = [code EXCEPT !["program"] = call]
  /\ UNCHANGED <<program, loaded, result, held, machine, plic, eip, uartIrq, msip,
                 dmac, timer0, pins, fpu>>

Traps ==
  /\ machine.mie /\ ~machine.trap
  /\ \/ eip /\ code' = [code EXCEPT !["trap"] = TrapHandler("external")]
     \/ ~eip /\ msip /\ code' = [code EXCEPT !["trap"] = TrapHandler("software")]
  /\ machine' = [machine EXCEPT !.trap = TRUE]
  /\ UNCHANGED <<program, loaded, result, held, plic, eip, uartIrq, msip, dmac,
                 timer0, pins, fpu>>

Returns ==
  /\ machine.trap /\ code["trap"] = <<>>
  /\ machine' = [machine EXCEPT !.trap = FALSE]
  /\ UNCHANGED <<program, code, loaded, result, held, plic, eip, uartIrq, msip, dmac,
                 timer0, pins, fpu>>

DmacEnds ==
  /\ "busy" \in dmac.status
  /\ dmac' = [dmac EXCEPT !.status = {"done"}, !.copied = TRUE]
  /\ UNCHANGED <<program, code, loaded, result, held, machine, plic, eip, uartIrq,
                 msip, timer0, pins, fpu>>

TimerReaches ==
  /\ timer0.on /\ (~timer0.passed \/ ~timer0.expired)
  /\ timer0' = [timer0 EXCEPT !.passed = TRUE, !.expired = TRUE]
  /\ UNCHANGED <<program, code, loaded, result, held, machine, plic, eip, uartIrq,
                 msip, dmac, pins, fpu>>

\* Other calls of "any" program have given the devices work to do.
DevicesAsk ==
  /\ program = "any"
  /\ \/ uartIrq' = TRUE /\ UNCHANGED dmac
     \/ dmac' = [dmac EXCEPT !.status = {"done"}] /\ UNCHANGED uartIrq
  /\ UNCHANGED <<program, code, loaded, result, held, machine, plic, eip, msip, timer0,
                 pins, fpu>>

BspInit ==
  /\ program \in Programs
  /\ code = [program |-> IF program \in DOMAIN Example THEN Example[program] ELSE <<>>,
             trap |-> <<>>]
  /\ loaded = [c \in Callees |-> Nothing] /\ result = "ok"
  /\ held = [c \in Callees |-> 0]
  /\ machine = [mie |-> FALSE, trap |-> FALSE]
  /\ plic = [priority |-> [s \in Sources |-> 0], threshold |-> 0, on |-> {},
             pending |-> {}, serving |-> {}]
  /\ eip = FALSE /\ uartIrq = FALSE /\ msip = FALSE
  /\ dmac = [status |-> {}, irqEn |-> program = "any", copied |-> FALSE]
  /\ timer0 = [on |-> FALSE, expired |-> FALSE, passed |-> FALSE]
  /\ pins = [dir |-> 0, out |-> 0]
  /\ fpu = [fs |-> "off", flags |-> {}]

Executes(c) == Loads(c) \/ Stores(c) \/ Decides(c)
Handles == Executes("trap") \/ Returns
Continues == Executes("program") \/ Computes

BspNext == \/ Calls \/ Traps \/ Handles \/ Continues \/ PlicClock \/ DmacEnds
           \/ TimerReaches \/ DevicesAsk

BspFairness ==
  /\ WF_bspVars(Traps) /\ WF_bspVars(Handles) /\ SF_bspVars(Continues)
  /\ WF_bspVars(PlicClock) /\ WF_bspVars(DmacEnds) /\ WF_bspVars(TimerReaches)

BspSpec == BspInit /\ [][BspNext]_bspVars /\ BspFairness

-----------------------------------------------------------------------------
(* Type invariant.                                                         *)
BspTypeOK ==
  /\ program \in Programs
  /\ held \in [Callees -> Sources \cup {0}]
  /\ plic.priority \in [Sources -> Levels] /\ plic.threshold \in Thresholds \cup {0}
  /\ UNION {plic.on, plic.pending, plic.serving} \subseteq Sources
  /\ dmac.status \subseteq {"busy", "done", "error"}

(* Two claims may be open at once, the program's and that of a handler     *)
(* which interrupts it: never of one source, and each is in service until  *)
(* the completion of its own claim, whatever the program does to the       *)
(* enables and the priorities in between.                                  *)
ClaimedOnce ==
  /\ plic.serving = {held[c] : c \in Callees} \ {0}
  /\ held["program"] # 0 => held["program"] # held["trap"]

Wanted(s) == /\ IrqOf(s) /\ machine.mie /\ s \in plic.on
             /\ plic.priority[s] > plic.threshold

(* An interrupt that is enabled is served, or one that goes before it is,  *)
(* however the program and the handler claim and complete: no source stays *)
(* pending, or in service, for ever.                                       *)
InterruptsServed ==
  \A s \in Sources :
    Wanted(s) ~> (~Wanted(s) \/ \E t \in Sources : held["trap"] = t /\ Goes(t, s))

(* The examples come to their end and show what their main says is a pass. *)
ExamplesPass ==
  program \in DOMAIN Example ~> (code["program"] = <<>> /\ pins = [dir |-> 1, out |-> 1])

(* sw/README.md:43, "one-shot" intervals: a wait for Timer0 ends when the  *)
(* interval has passed.  This does not hold: no call clears STATUS.expired *)
(* and the second and third waits of timer_apb_poll end at once.           *)
TimerWaits ==
  \A c \in Callees :
    code[c] # <<>> /\ Does(c) = "then" /\ Of(c) = "until expired" /\ Last(c)
      => timer0.passed
=============================================================================
