----------------------------- MODULE MCControl -----------------------------
(* Who controls the core: the clock, reset and wake controller with the    *)
(* programs that use it; or, when the program has ended, external debug    *)
(* and the boot loader, which the resets of that controller do not reach;  *)
(* or the kernel that keeps user tasks apart.                              *)
(*                                                                         *)
(* Clients of the helpers: one that sleeps on request, one that sleeps in  *)
(* every WFI, one that gates and resets domains, and one behind a locked   *)
(* watchdog; one that sleeps in every WFI and waits for a pin.  An image   *)
(* of three words, the last after a change of address, and hosts that      *)
(* boot, debug, run into the errors of the debug module, or meddle with    *)
(* the boot over the UART.  The four tasks of the user-mode profile.       *)
EXTENDS SystemControl, JtagDebug, FreertosUmode

Quiet == [start |-> <<>>, free |-> {}, pins |-> {}, irqs |-> {}, resets |-> FALSE]

MCClients ==
  [sleeper |-> [Quiet EXCEPT !.pins = {"uart"}, !.irqs = {"mtip"},
     !.free = {WakeEnable({"uart"}), WakeDisable({"uart"}),
               WakeEnable({"mtip"}), WakeStatusClear({"uart", "mtip"}),
               EnterSleep, SetTimer}],
   dozer |-> [Quiet EXCEPT !.start = <<WfiSleepEnable(TRUE)>>, !.irqs = {"mtip"},
     !.free = {Wfi, SetTimer, WakeEnable({"mtip"}),
               WfiSleepEnable(FALSE), EnterSleep}],
   gater |-> [Quiet EXCEPT !.resets = TRUE,
     !.free = {ClkEnable({"gpio"}), ClkDisable({"uart", "gpio"}),
               PeripheralReset({"gpio"}), PeripheralReset({"uart"}),
               WakeEnable({"uart"}), WakeDisable({"uart"}),
               SoftReset}],
   guard |-> [Quiet EXCEPT !.irqs = {"wdt"},
     !.start = <<WdtSetTimeout(Timeout), WdtSetPretimeout(Pre),
                 WdtEnable, WdtLock>>,
     !.free = {EnterSleep, ClkDisable({"wdt"}), WdtDisable,
               PeripheralReset({"wdt"}), WdtClearPretimeout}],
   alarmed |-> [Quiet EXCEPT !.pins = {"gpio"}, !.free = {Wfi},
     !.start = <<WfiSleepEnable(TRUE), WakeEnable({"gpio"})>>]]

Ask(op, reg, word, bits, until) ==
  [request |-> Request(op, reg, word, bits), until |-> until]
Read(reg, until) == Ask("read", reg, Zero, {}, until)
Write(reg, word, bits) == Ask("write", reg, word, bits, {})

MCFile ==
  <<[kind |-> "word", word |-> <<4, 3, 6, 1>>], [kind |-> "word", word |-> <<2, 0, 5, 0>>],
    [kind |-> "@", word |-> <<3, 0, 0, 0>>], [kind |-> "word", word |-> <<1, 2, 4, 3>>]>>

FileAccess(l) == Write(IF l.kind = "@" THEN "boot_addr" ELSE "boot_wdata", l.word, {})

MCScripts ==
  [boot |-> <<Write("boot_ctrl", Zero, {"set_addr", "auto_inc", "hold"}),
              Write("boot_addr", Zero, {})>>
            \o [k \in DOMAIN MCFile |-> FileAccess(MCFile[k])]
            \o <<Read("boot_addr", {}),
                 Write("boot_ctrl", Zero, {"auto_inc", "release"}),
                 Read("boot_status", {"released"})>>,
   debug |-> <<Write("dmcontrol", Zero, {"dmactive", "haltreq"}),
               Read("dmstatus", {"halted"}),
               Write("data0", <<7, 0, 0, 0>>, {}),
               Write("command", Zero, {"supported", "x5", "write"}),
               Write("command", Zero, {"supported", "x5"}),
               Read("data0", {}),
               Write("dmcontrol", Zero, {"dmactive", "resumereq"}),
               Read("dmstatus", {"running"})>>,
   errors |-> <<Write("dmcontrol", Zero, {"dmactive", "ackhavereset"}),
                Read("dmcontrol", {"dmactive"}),
                Write("command", Zero, {"supported", "x5"}),
                Read("abstractcs", {}),
                Write("abstractcs", Zero, {"haltresume"}),
                Write("dmcontrol", Zero, {"dmactive", "haltreq"}),
                Read("dmstatus", {"halted"}),
                Write("command", Zero, {"x5"}),
                Write("abstractcs", Zero, {"notsup"}),
                Write("command", Zero, {"supported"}),
                Read("abstractcs", {"exception"}),
                Write("dmcontrol", Zero, {}),
                Read("command", {}),
                Read("boot_status", {})>>,
   meddle |-> <<Write("boot_ctrl", Zero, {"release"})>>]

MCScriptsOf(mode) ==
  CASE mode = "jtag" -> {"boot"} [] mode = "uart" -> {"meddle"}
    [] OTHER -> {"debug", "errors"}

\* app_low_power after its last line.
ProgramAtRest ==
  /\ program = "low_power" /\ cause = "por" /\ hold = 0
  /\ step = 3 /\ at = "done" /\ back = "main" /\ call = Wfi /\ got = {}
  /\ gap = 0 /\ due = Never /\ plic = "idle" /\ edges = {}
  /\ clk = Domains /\ auto = TRUE /\ wakeEn = {} /\ wakeStatus = {}
  /\ sleepReq = FALSE /\ sleep = FALSE /\ coreEn = TRUE /\ wake = FALSE
  /\ pulse = [d \in Domains |-> 0] /\ release = [d \in Domains |-> 0]
  /\ synced = [d \in Domains |-> 2] /\ wdt = WdtReset

\* No host is connected, and the core fetches what it found in its memory.
LinkAtRest ==
  /\ bootMode = "bypass" /\ parser = BootRegsAtReset.parser /\ uartCmd = NoCommand
  /\ boot = BootRegsAtReset.boot /\ port = BootRegsAtReset.port
  /\ imem = [a \in 0 .. Depth - 1 |-> Blank] /\ line = Loader /\ quiet = ByteGap
  /\ dtm = [toggle |-> FALSE, req |-> Nop("none"), meta |-> FALSE, sync |-> FALSE,
            seen |-> FALSE, answer |-> NoAnswer]
  /\ cdc = CdcAtReset /\ dm = DmAtReset /\ hart = HartAtReset
  /\ host = [script |-> "debug", access |-> Len(Scripts["debug"]) + 1,
             phase |-> "ready", wait |-> 0, told |-> NoAnswer]
  /\ ledger = [asked |-> Nop("none"), times |-> 0, answer |-> NoAnswer, alien |-> FALSE]
  /\ resets = MaxResets

\* All tasks have exited and the chain is complete.
TasksAtRest ==
  /\ current = Idle /\ pmp = 3
  /\ next = [t \in Users |-> Len(Script[t]) + 1] /\ inside = [t \in Users |-> "gone"]
  /\ frame = [t \in Users |-> <<"kernel", t>>]
  /\ wait = [t \in Users |-> "deleted"] /\ ticks = [t \in Users |-> 0]
  /\ notified = {} /\ given = 1 .. 3 /\ woken = 1 .. 3
  /\ copy = [t \in Users |-> {}] /\ complete = 0 .. 2
  /\ stamped = {"wait_after"} /\ result = "pass"

MCInit == \/ SysInit /\ LinkAtRest /\ TasksAtRest
          \/ ProgramAtRest /\ JtagInit /\ TasksAtRest
          \/ ProgramAtRest /\ LinkAtRest /\ Init

MCNext == \/ SysNext /\ UNCHANGED <<jtagVars, vars>>
          \/ JtagNext /\ UNCHANGED <<sysVars, vars>>
          \/ Next /\ UNCHANGED <<sysVars, jtagVars>>

MCSpec == /\ MCInit /\ [][MCNext]_<<sysVars, jtagVars, vars>>
          /\ SysFairness /\ JtagFairness /\ Fairness
=============================================================================
