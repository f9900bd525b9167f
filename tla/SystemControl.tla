--------------------------- MODULE SystemControl ---------------------------
(***************************************************************************)
(* The clock, reset and wake controller (peripherals/clk_rst), the         *)
(* watchdog (peripherals/watchdog) and the software that uses them: the    *)
(* helpers of eriscv_mcu.h and of the FreeRTOS drivers, the images         *)
(* wdt_smoke and app_low_power, and clients that call the helpers in any   *)
(* order.                                                                  *)
(*                                                                         *)
(* A step is a cycle of the root clock.  The core makes at most one access *)
(* to a register in it; between two it may compute for up to Gap cycles.   *)
(* A pin source is its falling edge behind the synchronizer, of one cycle. *)
(* The domains SPI, timer and GPIO are alike: "gpio" stands for them.  A   *)
(* busy peripheral, which only keeps its clock, debug halts, and the feed  *)
(* window, which no software opens, are left out.                          *)
(***************************************************************************)
EXTENDS Integers, Sequences

CONSTANTS Clients,     \* further programs, by name
          Loaded,      \* the programs that may be loaded
          Pulse,       \* cycles of a reset, 16
          Gap,         \* cycles the core may compute between two steps
          Timeout, Pre,  \* the watchdog's, as the programs set them
          Period       \* cycles until the timer's interrupt

ASSUME SystemControlAssumption ==
  /\ {Pulse, Timeout, Pre, Period} \subseteq Nat \ {0} /\ Gap \in Nat
  /\ Pre < Timeout

Domains == {"uart", "gpio", "wdt"}
Never == -1
BootCycles == 4        \* the two reset synchronizers before the core

VARIABLES
  program, step,       \* the program; the calls of its start that were made
  at, back, call, got, \* where the core is; where a handler returns to; the
                       \* helper that is running, and what it has loaded
  gap,                 \* cycles for which the core has computed
  due, plic, edges,    \* cycles to the timer; the watchdog's source; pin edges
  cause, hold,         \* reset_cause_q, sys_reset_count_q
  clk, auto,           \* clk_en_q, wfi_sleep_en_q
  wakeEn, wakeStatus,  \* wake_en_q, wake_status_q
  sleepReq, sleep, coreEn, wake,  \* sleep_req_q, sleep_q, core_clk_en_o, cpu_wake_o
  pulse, release, synced,  \* the resets of the domains and their synchronizers
  wdt                  \* the registers of the watchdog

core == <<program, step, at, back, call, got, gap>>
soc == <<due, plic, edges, cause, hold, clk, auto, wakeEn, wakeStatus,
         sleepReq, sleep, coreEn, wake, pulse, release, synced, wdt>>
sysVars == <<core, soc>>

-----------------------------------------------------------------------------
(* The helpers.  A call is how it is made, the register and the data: a    *)
(* store, bits set or cleared by a load and a store, or a way to WFI.      *)

ClkEnable(mask) == <<"set", "CLK_EN", mask>>
ClkDisable(mask) == <<"clear", "CLK_EN", mask>>
PeripheralReset(mask) == <<"store", "PERI_RST", mask>>
WfiSleepEnable(enable) == <<"store", "SLEEP_CTRL", IF enable THEN "auto" ELSE "none">>
EnterSleep == <<"doze", "SLEEP_CTRL", "request">>
WakeEnable(mask) == <<"set", "WAKE_EN", mask>>
WakeDisable(mask) == <<"clear", "WAKE_EN", mask>>
WakeStatusClear(mask) == <<"store", "WAKE_STATUS", mask>>
SoftReset == <<"store", "SOFT_RST", {}>>
WdtSetTimeout(cycles) == <<"store", "TIMEOUT", cycles>>
WdtSetPretimeout(cycles) == <<"store", "PRETIMEOUT", cycles>>
WdtEnable == <<"store", "CTRL", [on |-> TRUE, irq |-> TRUE]>>
WdtDisable == <<"store", "CTRL", [on |-> FALSE, irq |-> FALSE]>>
WdtFeed == <<"store", "FEED", {}>>
WdtLock == <<"store", "LOCK", {}>>
WdtClearPretimeout == <<"store", "STATUS", {}>>
SetTimer == <<"store", "MTIMECMP", Period>>
Wfi == <<"wfi">>

\* What a program may call: a helper, with a mask of domains or of sources, or
\* a number of cycles.
Sources == {"uart", "gpio", "mtip", "wdt"}
Timeouts == 0 .. Timeout
HelperCall ==
  {ClkEnable(m) : m \in SUBSET Domains} \cup {ClkDisable(m) : m \in SUBSET Domains}
    \cup {PeripheralReset(m) : m \in SUBSET Domains}
    \cup {WakeEnable(m) : m \in SUBSET Sources} \cup {WakeDisable(m) : m \in SUBSET Sources}
    \cup {WakeStatusClear(m) : m \in SUBSET Sources}
    \cup {WdtSetTimeout(n) : n \in Timeouts} \cup {WdtSetPretimeout(n) : n \in Timeouts}
    \cup {WfiSleepEnable(TRUE), WfiSleepEnable(FALSE), EnterSleep, SoftReset, WdtEnable,
          WdtDisable, WdtFeed, WdtLock, WdtClearPretimeout, SetTimer, Wfi}

ASSUME ClientsAssumption ==
  \A p \in Loaded \ {"wdt_smoke", "low_power"} :
    Clients[p] \in [start : Seq(HelperCall), free : SUBSET HelperCall,
                   pins : SUBSET {"uart", "gpio"},
                   irqs : SUBSET {"mtip", "wdt"}, resets : BOOLEAN]

(* Programs: the calls of their start, then any of the free ones.          *)

WdtSmoke ==
  [start |-> <<WdtSetTimeout(Timeout), WdtSetPretimeout(Pre), WdtEnable,
               WdtFeed, WdtFeed, WdtFeed>>,
   free |-> {}, pins |-> {}, irqs |-> {}, resets |-> FALSE]

\* eriscv_mcu_soc_init, then main: the timer, and WFI in the idle thread.
LowPower ==
  [start |-> <<WfiSleepEnable(TRUE), SetTimer>>,
   free |-> {Wfi}, pins |-> {}, irqs |-> {"mtip"}, resets |-> FALSE]

Program == CASE program = "wdt_smoke" -> WdtSmoke
             [] program = "low_power" -> LowPower
             [] OTHER -> Clients[program]

Started == step > Len(Program.start)
Calls == IF Started THEN Program.free ELSE {Program.start[step]}

-----------------------------------------------------------------------------
(* What the hardware makes of a cycle.  An access is a register and the    *)
(* data stored to it.                                                      *)

Nothing == <<"none", {}>>
Stored(acc, reg, old) == IF acc[1] = reg THEN acc[2] ELSE old

ClkOn(d) == \/ d \in clk \/ pulse[d] > 0 \/ release[d] > 0
            \/ d = "wdt" /\ wdt.on
            \/ d = "uart" /\ "uart" \in wakeEn
ClkStatus == {d \in Domains : ClkOn(d)}
Asserted(d) == hold > 0 \/ pulse[d] > 0
InReset(d) == Asserted(d) \/ synced[d] < 2

WdtIrq == wdt.pending /\ wdt.irq
WdtFires == wdt.on /\ wdt.count = 0
Mtimer == due = 0
IrqPin == Mtimer \/ plic = "visible"   \* cpu_irq_pending_i

WakeRaw == edges \cup (IF Mtimer THEN {"mtip"} ELSE {})
                 \cup (IF WdtIrq THEN {"wdt"} ELSE {})
Hits == WakeRaw \cap wakeEn
Awakes == Hits # {} \/ IrqPin

\* A hit that is captured wins over the store that clears the register.
WakeStatusNext(acc) ==
  IF Hits # {} /\ (sleepReq \/ sleep \/ (at = "wfi" /\ auto))
    THEN wakeStatus \cup Hits
    ELSE wakeStatus \ (IF acc[1] = "WAKE_STATUS" THEN acc[2] ELSE {})

\* SLEEP_CTRL: the request, and with it or alone the mode.
Requests(acc) == acc[1] = "SLEEP_CTRL" /\ acc[2] = "request"
AutoNext(acc) == IF acc[1] = "SLEEP_CTRL" THEN acc[2] = "auto" ELSE auto

Enters == ~sleep /\ at = "wfi" /\ (sleepReq \/ auto)

\* Wrong: the request is not consumed by the entry.
HandshakeKeepsRequest(acc) ==
  /\ sleep' = (~Awakes /\ (sleep \/ Enters))
  /\ coreEn' = IF sleep \/ Enters THEN Awakes ELSE coreEn
  /\ wake' = (Awakes /\ (sleep \/ Enters))
  /\ sleepReq' = IF Enters /\ Awakes THEN FALSE ELSE sleepReq \/ Requests(acc)

Handshake(acc) ==
  /\ sleep' = (~Awakes /\ (sleep \/ Enters))
  /\ coreEn' = IF sleep \/ Enters THEN Awakes ELSE coreEn
  /\ wake' = (Awakes /\ (sleep \/ Enters))
  /\ sleepReq' = IF Enters \/ (sleep /\ Awakes) THEN FALSE ELSE sleepReq \/ Requests(acc)

ResetRequests(acc) ==
  IF acc[1] = "PERI_RST" THEN acc[2] \ (IF wdt.locked THEN {"wdt"} ELSE {}) ELSE {}

\* Cycles for which a reset domain keeps its clock.
ReleaseCycles == 2

DomainResets(acc) ==
  /\ pulse' = [d \in Domains |-> IF d \in ResetRequests(acc) THEN Pulse
                                 ELSE IF pulse[d] > 0 THEN pulse[d] - 1 ELSE 0]
  /\ release' = [d \in Domains |-> IF d \in ResetRequests(acc) THEN 0
                                   ELSE IF pulse[d] = 1 THEN ReleaseCycles
                                   ELSE IF release[d] > 0 THEN release[d] - 1 ELSE 0]

Synchronizers ==
  synced' = [d \in Domains |-> IF Asserted(d) THEN 0
                               ELSE IF ClkOn(d) /\ synced[d] < 2 THEN synced[d] + 1
                               ELSE synced[d]]

WdtReset == [on |-> FALSE, irq |-> FALSE, timeout |-> Timeout, pre |-> 0,
             count |-> Timeout, pending |-> FALSE, locked |-> FALSE]

PreHit == /\ wdt.on /\ wdt.irq /\ wdt.count > 0
          /\ wdt.pre \in 1 .. wdt.timeout - 1 /\ wdt.count - 1 = wdt.pre

Counted == IF wdt.on /\ wdt.count > 0 THEN wdt.count - 1 ELSE wdt.count

\* Wrong: a feed after the warning comes too late.
FedUnlessPending(acc) == acc[1] = "FEED" /\ ~wdt.pending

Fed(acc) == acc[1] = "FEED"

\* A clock edge of the watchdog with an access that reaches it.
WdtEdge(acc) ==
  LET ctrl == acc[1] = "CTRL" /\ ~wdt.locked
      enables == ctrl /\ acc[2].on /\ ~wdt.on
      clears == acc[1] = "STATUS" /\ ~wdt.locked /\ ~PreHit
      set(reg, old) == IF wdt.locked THEN old ELSE Stored(acc, reg, old)
  IN [on |-> IF ctrl THEN acc[2].on ELSE wdt.on,
      irq |-> IF ctrl THEN acc[2].irq ELSE wdt.irq,
      timeout |-> set("TIMEOUT", wdt.timeout),
      pre |-> set("PRETIMEOUT", wdt.pre),
      count |-> IF enables \/ (wdt.on /\ Fed(acc)) THEN wdt.timeout ELSE Counted,
      pending |-> /\ PreHit \/ (wdt.pending /\ ~clears)
                  /\ ~Fed(acc) /\ ~(ctrl /\ ~acc[2].on),
      locked |-> wdt.locked \/ acc[1] = "LOCK"]

\* An access to a domain that is in reset or has no clock is lost.
WdtNext(acc) ==
  IF InReset("wdt") THEN WdtReset ELSE IF ClkOn("wdt") THEN WdtEdge(acc) ELSE wdt

\* A cycle without system reset: the core stores acc, the edges e come.
ClockEdge(acc, e) ==
  /\ ~WdtFires /\ acc[1] # "SOFT_RST"
  /\ edges' = e
  /\ due' = IF acc[1] = "MTIMECMP" THEN acc[2] ELSE IF due > 0 THEN due - 1 ELSE due
  /\ plic' = CASE acc[1] = "CLAIM" -> "claimed"
               [] acc[1] = "COMPLETE" -> "idle"
               [] plic = "idle" /\ WdtIrq /\ "wdt" \in Program.irqs -> "pending"
               [] plic = "pending" -> "visible"
               [] OTHER -> plic
  /\ hold' = IF hold > 0 THEN hold - 1 ELSE 0
  /\ clk' = Stored(acc, "CLK_EN", clk)
  /\ wakeEn' = Stored(acc, "WAKE_EN", wakeEn)
  /\ wakeStatus' = WakeStatusNext(acc)
  /\ auto' = AutoNext(acc)
  /\ Handshake(acc)
  /\ DomainResets(acc)
  /\ Synchronizers
  /\ wdt' = WdtNext(acc)
  /\ UNCHANGED <<program, cause>>

-----------------------------------------------------------------------------
(* The core.                                                               *)

CoreRuns == coreEn /\ hold = 0 /\ at # "boot"
\* The handlers run with interrupts disabled.
Takes == /\ at \in {"main", "store", "doze"}
         /\ (Mtimer /\ "mtip" \in Program.irqs) \/ plic = "visible"
Steps(where) == CoreRuns /\ at = where /\ ~Takes

Goes(where) == /\ at' = where /\ gap' = 0
Stays == UNCHANGED <<step, back, call, got>>

Load(c) == /\ c[1] \in {"set", "clear"}
           /\ call' = c /\ got' = IF c[2] = "CLK_EN" THEN clk ELSE wakeEn
           /\ Goes("store") /\ UNCHANGED <<step, back>>

Merged == IF call[1] = "set" THEN got \cup call[3] ELSE got \ call[3]

Made(next) == /\ Goes(next) /\ UNCHANGED <<back, call, got>>
              /\ step' = IF Started THEN step ELSE step + 1

\* WFI waits only if there is nothing to wake it.
Dozes == Goes(IF IrqPin \/ wake THEN "main" ELSE "wfi")

\* Where the core may be in a cycle without a step: asleep, without clock,
\* in reset, at the end of its program, or computing.
Waits ==
  \/ ~CoreRuns /\ at # "boot" /\ UNCHANGED <<at, gap>>
  \/ at = "boot" /\ IF hold > 0 THEN UNCHANGED <<at, gap>>
                    ELSE IF gap < BootCycles THEN gap' = gap + 1 /\ UNCHANGED at
                    ELSE Goes("main")
  \/ CoreRuns /\ at = "wfi" /\ ~(wake \/ IrqPin) /\ UNCHANGED <<at, gap>>
  \/ at = "done" /\ UNCHANGED <<at, gap>>
  \/ Steps("main") /\ Started /\ UNCHANGED <<at, gap>>
  \/ /\ CoreRuns /\ at \notin {"wfi", "done"} /\ (at = "main" => Takes \/ ~Started)
     /\ gap < Gap /\ gap' = gap + 1 /\ UNCHANGED at

Returns == IF program = "low_power" THEN "done" ELSE back

Cycle(e) ==
  \/ Waits /\ Stays /\ ClockEdge(Nothing, e)
  \/ Steps("store") /\ Made("main") /\ ClockEdge(<<call[2], Merged>>, e)
  \/ \E c \in Calls :
       /\ Steps("main")
       /\ \/ Load(c) /\ ClockEdge(Nothing, e)
          \/ c[1] = "store" /\ Made("main") /\ ClockEdge(<<c[2], c[3]>>, e)
          \/ c[1] = "doze" /\ Made("doze") /\ ClockEdge(<<c[2], c[3]>>, e)
          \/ c[1] = "wfi" /\ Dozes /\ Stays /\ ClockEdge(Nothing, e)
  \/ Steps("doze") /\ Dozes /\ Stays /\ ClockEdge(Nothing, e)
  \/ CoreRuns /\ at = "wfi" /\ (wake \/ IrqPin) /\ Goes("main") /\ Stays
       /\ ClockEdge(Nothing, e)
  \/ CoreRuns /\ Takes /\ back' = at
       /\ Goes(IF plic = "visible" THEN "claim" ELSE "tick")
       /\ UNCHANGED <<step, call, got>> /\ ClockEdge(Nothing, e)
  \/ Steps("tick") /\ Goes(Returns) /\ Stays /\ ClockEdge(<<"MTIMECMP", Never>>, e)
  \/ Steps("claim") /\ Goes("serve") /\ Stays /\ ClockEdge(<<"CLAIM", {}>>, e)
  \/ Steps("serve") /\ Goes("complete") /\ Stays /\ ClockEdge(<<"FEED", {}>>, e)
  \/ Steps("complete") /\ Goes(back) /\ Stays /\ ClockEdge(<<"COMPLETE", {}>>, e)

\* A system reset: everything but its cause starts again.
SysReset(c) ==
  /\ cause' = c /\ hold' = Pulse
  /\ step' = 1 /\ at' = "boot" /\ back' = "main" /\ call' = Wfi /\ got' = {}
  /\ gap' = 0 /\ due' = Never /\ plic' = "idle" /\ edges' = {}
  /\ clk' = Domains /\ auto' = FALSE /\ wakeEn' = {} /\ wakeStatus' = {}
  /\ sleepReq' = FALSE /\ sleep' = FALSE /\ coreEn' = TRUE /\ wake' = FALSE
  /\ pulse' = [d \in Domains |-> 0] /\ release' = [d \in Domains |-> 0]
  /\ synced' = [d \in Domains |-> 0] /\ wdt' = WdtReset
  /\ UNCHANGED program

Resets ==
  \/ Program.resets /\ SysReset("ext")
  \/ WdtFires /\ SysReset("wdt")
  \/ SoftReset \in Calls /\ Steps("main") /\ ~WdtFires /\ SysReset("sw")

-----------------------------------------------------------------------------
SysInit ==
  /\ program \in Loaded
  /\ cause = "por" /\ hold = 0
  /\ step = 1 /\ at = "boot" /\ back = "main" /\ call = Wfi /\ got = {}
  /\ gap = 0 /\ due = Never /\ plic = "idle" /\ edges = {}
  /\ clk = Domains /\ auto = FALSE /\ wakeEn = {} /\ wakeStatus = {}
  /\ sleepReq = FALSE /\ sleep = FALSE /\ coreEn = TRUE /\ wake = FALSE
  /\ pulse = [d \in Domains |-> 0] /\ release = [d \in Domains |-> 0]
  /\ synced = [d \in Domains |-> 0] /\ wdt = WdtReset

SysNext == Resets \/ \E e \in SUBSET (Program.pins \ edges) : Cycle(e)

\* The clock ticks; no edge is promised.
SysFairness == WF_sysVars(Cycle({})) /\ WF_sysVars(WdtFires /\ SysReset("wdt"))

SysSpec == SysInit /\ [][SysNext]_sysVars /\ SysFairness

-----------------------------------------------------------------------------
(* Type invariant: registers keep their ranges, and sleep_flag_o says      *)
(* whether the clock of the core is stopped.                               *)
SysTypeOK ==
  /\ program \in Loaded /\ gap \in 0 .. Gap + BootCycles
  /\ hold \in 0 .. Pulse /\ clk \subseteq Domains
  /\ wakeStatus \subseteq {"uart", "gpio", "mtip", "wdt"}
  /\ pulse \in [Domains -> 0 .. Pulse] /\ release \in [Domains -> 0 .. 2]
  /\ synced \in [Domains -> 0 .. 2] /\ wdt.count \in 0 .. Timeout
  /\ sleep = ~coreEn

(* clkrst-spec section 6.1, "an enabled event re-enables the clock;        *)
(* execution resumes at WFI+4": an edge of an enabled pin that comes while *)
(* the core's clock is stopped brings the program on.                      *)
WakeResumes ==
  (sleep /\ edges \cap wakeEn # {}) ~> (coreEn /\ at \notin {"wfi", "boot"})

(* No domain is left without clock while its reset synchronizer still      *)
(* holds it in reset, whatever order of clk_disable and peripheral_reset   *)
(* software has used: the clock outlives the pulse by just enough edges.   *)
ResetReleases == \A d \in Domains \ ClkStatus : ~InReset(d)

(* Software that feeds the watchdog in the handler of its early warning,   *)
(* and is never busy for more than Gap cycles, is not reset by it, also    *)
(* when the warning finds the core asleep; and wdt_smoke not before its    *)
(* last feed.                                                              *)
FedInTime == WdtFires => program = "wdt_smoke" /\ Started

(* wdt_lock, "lock watchdog configuration until reset": nothing but a feed *)
(* keeps a locked watchdog that runs from counting, not its registers, not *)
(* the gating of its clock, not the reset of its domain.                   *)
LockedRuns ==
  [][(wdt.locked /\ wdt.on /\ hold' = 0 /\ at' # "boot")
       => /\ wdt'.on /\ wdt'.locked
          /\ wdt'.count \in {wdt.count - 1, wdt.timeout}]_sysVars

(* wdt_smoke/main.c:43, "the SoC will reset"; app_low_power/src/main.c:1,  *)
(* "timeout wakes controller-gated WFI".                                   *)
SysImagesEnd == /\ (program = "wdt_smoke") ~> (cause = "wdt")
                /\ (program = "low_power") ~> (at = "done")
=============================================================================
