---------------------------- MODULE ZephyrDrivers ----------------------------
(***************************************************************************)
(* The Zephyr drivers of the SPI controller, the GPIO and the UART         *)
(* (sw/rtos/zephyr/.../drivers) under any calls of their applications: two *)
(* threads that preempt each other anywhere, an interrupt service routine  *)
(* of another device, and callbacks.                                       *)
(*                                                                         *)
(* One device is under use at a time.  A step of a thread is one access to *)
(* a register that matters, or what is done under irq_lock if nothing can  *)
(* come in between.  The driver's own ISR is one action.  What Zephyr asks *)
(* of applications is assumed: one thread uses the SPI, and one the UART,  *)
(* and their callbacks only disable interrupts; pins are configured while  *)
(* nobody else uses the port.  The timeout of the synchronous SPI transfer *)
(* (twice the time a byte takes), refused configurations, and the values   *)
(* of UART bytes are left out.                                             *)
(***************************************************************************)
EXTENDS Integers, Sequences, FiniteSets
Seqs == INSTANCE SequencesExt

CONSTANTS Devices,        \* that may be in use: "none", "spi", "gpio", "uart"
          Callers,        \* threads of the applications
          Transfers,      \* SPI transfers: buffers to send, sizes to receive
          Slaves,
          PortPins, AllPins,  \* port_pin_mask; the pins applications may name
          Depth,          \* of the UART's FIFOs
          CallbackEnables,   \* whether callbacks of the UART also enable
          SpiShared,         \* whether threads share the SPI
          ConfigureAnytime   \* whether pins are configured at any time

ASSUME DriversAssumption ==
  /\ Devices \subseteq {"none", "spi", "gpio", "uart"}
  /\ PortPins \subseteq AllPins /\ Depth \in Nat \ {0}
  /\ {"none", "isr"} \cap Callers = {}
  /\ Transfers \subseteq [tx : Seq(Seq(0 .. 255)), rx : Seq(Nat)]
  /\ {CallbackEnables, SpiShared, ConfigureAnytime} \subseteq BOOLEAN

Apps == Callers \cup {"isr"}
Filler == 255
Open == "open"       \* no slave is selected
Blank == <<Open, Filler>>
NoCall == [kind |-> "none"]

VARIABLES
  device,   \* the device under use
  at,       \* where an application is in the driver; "idle" outside
  call,     \* what it has called
  got,      \* what it has read
  locked,   \* who has called irq_lock
  latched,  \* the PLIC has latched the device's interrupt
  spi0, gpio0, uart0  \* devices and the data of their drivers

drvVars == <<device, at, call, got, locked, latched, spi0, gpio0, uart0>>

-----------------------------------------------------------------------------
(* Applications.  An ISR runs to its end.                                  *)

Active(a) == /\ locked \in {"none", a}
             /\ a # "isr" => at["isr"] = "idle"
Idle(a) == Active(a) /\ at[a] = "idle"
In(a, where) == Active(a) /\ at[a] = where
Alone(a) == \A b \in Apps \ {a} : at[b] = "idle"
Enters(a, where) == at' = [at EXCEPT ![a] = where]
Begins(a, where, c) == Enters(a, where) /\ call' = [call EXCEPT ![a] = c]
Ends(a) == /\ Enters(a, "idle") /\ call' = [call EXCEPT ![a] = NoCall]
           /\ got' = [got EXCEPT ![a] = {}]
Reads(a, value) == got' = [got EXCEPT ![a] = value]

-----------------------------------------------------------------------------
(* SPI.                                                                    *)

Sizes(tx) == [i \in DOMAIN tx |-> Len(tx[i])]

\* The bytes in the buffers before each buffer, and in all of them.
Before(sizes) ==
  LET before[i \in 1 .. Len(sizes) + 1] ==
        IF i = 1 THEN 0 ELSE before[i - 1] + sizes[i - 1]
  IN before
SpiSize(sizes) == Before(sizes)[Len(sizes) + 1]
TransferLen(x) == LET t == SpiSize(Sizes(x.tx)) r == SpiSize(x.rx)
                  IN IF t > r THEN t ELSE r

\* A call for no byte at all is refused.
Accepted == {x \in Transfers : TransferLen(x) # 0}

\* The buffer that a byte of a transfer falls into, and its place in it.
Spot(sizes, index) ==
  LET before == Before(sizes)
      here == {i \in 1 .. Len(sizes) : index \in before[i] .. before[i + 1] - 1}
      i == CHOOSE i \in here : TRUE
  IN IF here = {} THEN <<0, 0>> ELSE <<i, index - before[i] + 1>>

TxByte(tx, index) ==
  LET s == Spot(Sizes(tx), index) IN IF s[1] = 0 THEN Filler ELSE tx[s[1]][s[2]]

RxByte(rx, index, value) ==
  LET s == Spot(Sizes(rx), index)
  IN IF s[1] = 0 THEN rx ELSE [rx EXCEPT ![s[1]] = [@ EXCEPT ![s[2]] = value]]

Buffers(sizes) == [i \in DOMAIN sizes |-> [j \in 1 .. sizes[i] |-> Blank]]

\* A write of TXDATA; while a byte is under way it would be ignored.
Transmits(s, byte) ==
  IF s.busy THEN s ELSE [s EXCEPT !.busy = TRUE, !.done = FALSE, !.out = byte]

\* What a transfer x to a slave begins with.
Prepared(s, x, slave) ==
  [s EXCEPT !.x = x, !.rx = Buffers(x.rx), !.index = 0, !.to = slave]

\* eriscv_spi_transceive_async with the lock held and no transfer active; then
\* is the transfer that its callback starts.
StartAsync(s, x, slave, then) ==
  Transmits([Prepared(s, x, slave) EXCEPT !.active = TRUE, !.then = then,
               !.irqEn = TRUE, !.ss = slave], TxByte(x.tx, 0))

Async(a) ==
  /\ Idle(a) /\ ~spi0.active
  /\ \E x \in Accepted, slave \in Slaves, then \in Accepted \cup {NoCall} :
       spi0' = StartAsync(spi0, x, slave, then)
  \* A flag left by a synchronous transfer shows until TXDATA is written.
  /\ latched' \in {latched, latched \/ spi0.done}
  /\ UNCHANGED <<at, call, got>>

SyncBegins(a) ==
  /\ Idle(a) /\ ~spi0.active
  /\ \E x \in Accepted, slave \in Slaves :
       Begins(a, "setup", [kind |-> "sync", x |-> x, slave |-> slave])
  /\ UNCHANGED <<got, latched, spi0>>

SyncSetup(a) ==
  /\ In(a, "setup") /\ Enters(a, "send")
  /\ spi0' = [Prepared(spi0, call[a].x, call[a].slave)
                EXCEPT !.irqEn = FALSE, !.ss = call[a].slave]
  /\ UNCHANGED <<call, got, latched>>

SyncSends(a) ==
  /\ In(a, "send") /\ Enters(a, "poll")
  /\ spi0' = Transmits(spi0, TxByte(call[a].x.tx, spi0.index))
  /\ UNCHANGED <<call, got, latched>>

\* A transfer is over: the slave is deselected.
Over(s) == [s EXCEPT !.ss = Open, !.last = [x |-> s.x, to |-> s.to, rx |-> s.rx]]

SyncReceives(a) ==
  /\ In(a, "poll") /\ ~spi0.busy
  /\ LET s == [spi0 EXCEPT !.rx = RxByte(@, spi0.index, spi0.data), !.index = @ + 1]
     IN IF s.index = TransferLen(call[a].x) THEN Ends(a) /\ spi0' = Over(s)
        ELSE Enters(a, "send") /\ spi0' = s /\ UNCHANGED <<call, got>>
  /\ UNCHANGED latched

Sync(a) == SyncBegins(a) \/ SyncSetup(a) \/ SyncSends(a) \/ SyncReceives(a)

\* eriscv_spi_complete; its callback may start the next transfer.
Completed(s) ==
  LET idle == [Over(s) EXCEPT !.active = FALSE, !.then = NoCall]
  IN IF s.then = NoCall THEN idle ELSE StartAsync(idle, s.then, s.to, NoCall)

\* Wrong: whatever interrupt comes, a byte is taken to have arrived.
SpiServesAny ==
  IF ~spi0.active THEN spi0
  ELSE LET s == [spi0 EXCEPT !.done = FALSE, !.index = @ + 1,
                             !.rx = RxByte(@, spi0.index, spi0.data)]
       IN IF s.index = TransferLen(s.x) THEN Completed(s)
          ELSE Transmits(s, TxByte(s.x.tx, s.index))

\* eriscv_spi_isr.
SpiServes ==
  IF ~spi0.active \/ ~spi0.done THEN spi0
  ELSE LET s == [spi0 EXCEPT !.done = FALSE, !.index = @ + 1,
                             !.rx = RxByte(@, spi0.index, spi0.data)]
       IN IF s.index = TransferLen(s.x) THEN Completed(s)
          ELSE Transmits(s, TxByte(s.x.tx, s.index))

SpiInterrupt == /\ locked = "none" /\ latched /\ latched' = FALSE
           /\ spi0' = SpiServes /\ UNCHANGED <<at, call, got>>

\* The selected slave answers a byte; the answer tells both.
Exchanges == /\ spi0.busy
             /\ spi0' = [spi0 EXCEPT !.busy = FALSE, !.done = TRUE,
                                     !.data = <<spi0.ss, spi0.out>>]
             /\ UNCHANGED <<at, call, got, latched>>

SpiNext == /\ device = "spi"
           /\ \/ \E a \in Callers :
                   (Alone(a) \/ SpiShared) /\ (Async(a) \/ Sync(a))
              \/ SpiInterrupt \/ Exchanges
              \/ /\ spi0.done /\ spi0.irqEn /\ ~latched /\ latched' = TRUE
                 /\ UNCHANGED <<at, call, got, spi0>>
           /\ UNCHANGED <<device, locked, gpio0, uart0>>

-----------------------------------------------------------------------------
(* GPIO: the pins that drive, those that are high; and, for the property,  *)
(* what the last writer of each pin has asked for.                         *)

Changes == [kind : {"masked"}, mask : SUBSET AllPins, value : SUBSET AllPins]
             \cup [kind : {"toggle"}, mask : SUBSET AllPins]

Changed(out, c) ==
  LET mask == c.mask \cap PortPins
  IN IF c.kind = "toggle" THEN (out \ mask) \cup (mask \ out)
     ELSE (out \ mask) \cup (c.value \cap mask)

\* Wrong: the port is read before interrupts are locked.
PortReadsUnlocked(a) ==
  /\ Idle(a)
  /\ \E c \in Changes : Begins(a, "write", c)
  /\ Reads(a, gpio0.out) /\ UNCHANGED <<locked, gpio0>>

\* port_set_masked_raw and toggle_bits: the read, with interrupts locked.
PortReads(a) ==
  /\ Idle(a)
  /\ \E c \in Changes : Begins(a, "write", c)
  /\ Reads(a, gpio0.out) /\ locked' = a /\ UNCHANGED gpio0

PortWrites(a) ==
  /\ In(a, "write") /\ Ends(a) /\ locked' = "none"
  /\ gpio0' = [gpio0 EXCEPT !.out = Changed(got[a], call[a]),
                            !.want = Changed(@, call[a])]

Levels == {"high", "low", "keep"}
AsLevel(out, c) == CASE c.level = "high" -> out \cup {c.pin}
                     [] c.level = "low" -> out \ {c.pin}
                     [] OTHER -> out
AsDirection(dir, c) == IF c.drives THEN dir \cup {c.pin} ELSE dir \ {c.pin}

\* eriscv_gpio_pin_configure, which locks nothing: level, then direction.
Configures(a) ==
  /\ Idle(a)
  /\ ConfigureAnytime \/ Alone(a)
  /\ \E pin \in PortPins, level \in Levels, drives \in BOOLEAN :
       Begins(a, "level", [kind |-> "configure", pin |-> pin, level |-> level,
                           drives |-> drives])
  /\ Reads(a, gpio0.out) /\ UNCHANGED <<locked, gpio0>>

SetsLevel(a) ==
  /\ In(a, "level") /\ Enters(a, "direction")
  /\ gpio0' = IF call[a].level = "keep" THEN gpio0
              ELSE [gpio0 EXCEPT !.out = AsLevel(got[a], call[a]),
                                 !.want = AsLevel(@, call[a])]
  /\ Reads(a, gpio0.dir) /\ UNCHANGED <<call, locked>>

SetsDirection(a) ==
  /\ In(a, "direction") /\ Ends(a)
  /\ gpio0' = [gpio0 EXCEPT !.dir = AsDirection(got[a], call[a]),
                            !.drive = AsDirection(@, call[a])]
  /\ UNCHANGED locked

Configuring == \E a \in Apps : call[a].kind = "configure"

GpioNext == /\ device = "gpio"
            /\ \/ /\ Configuring => ConfigureAnytime
                  /\ \E a \in Apps : PortReads(a) \/ PortWrites(a)
               \/ \E a \in Callers : Configures(a) \/ SetsLevel(a) \/ SetsDirection(a)
            /\ UNCHANGED <<device, latched, spi0, uart0>>

-----------------------------------------------------------------------------
(* UART: the enabled interrupts, whether there is a callback, the bytes in *)
(* the FIFOs; and the interrupts that calls have enabled.                  *)

UartIrqs == {"rx", "tx", "err"}
Level == IF Depth > 4 THEN Depth \div 4 ELSE 0   \* the default watermark
HasRoom == uart0.fifo < Depth
Busy == uart0.engine \/ uart0.fifo > 0
Status == (IF uart0.rxn > 0 THEN {"rx"} ELSE {})
            \cup (IF uart0.fifo <= Level THEN {"tx"} ELSE {})
            \cup (IF uart0.over THEN {"err"} ELSE {})
IsPending == uart0.ctrl \cap Status # {}

\* n bytes for the transmitter: the first starts it if it rests.
Filled(u, n) ==
  IF n = 0 THEN u
  ELSE [u EXCEPT !.engine = TRUE, !.fifo = @ + n - (IF u.engine THEN 0 ELSE 1)]
Room == Depth - uart0.fifo + (IF Busy THEN 0 ELSE 1)

CallbackSet(a) ==
  /\ Idle(a) /\ uart0' = [uart0 EXCEPT !.cb = TRUE]
  /\ UNCHANGED <<at, call, got>>

\* The six calls that enable or disable, by eriscv_uart_ctrl_update.
CtrlReads(a) ==
  /\ Idle(a) /\ Reads(a, uart0.ctrl) /\ UNCHANGED uart0
  /\ \E irq \in UartIrqs, enable \in BOOLEAN :
       Begins(a, "update", [kind |-> "ctrl", set |-> IF enable THEN {irq} ELSE {},
                            clear |-> IF enable THEN {} ELSE {irq}])

Updated(ctrl, c) == (ctrl \cup c.set) \ c.clear

CtrlWrites(a) ==
  /\ In(a, "update") /\ Ends(a)
  /\ uart0' = [uart0 EXCEPT !.ctrl = Updated(got[a], call[a]),
                            !.promised = Updated(@, call[a])]

\* poll_out waits for room, writes, and waits to see the transmitter busy.
PollOut(a) ==
  \/ /\ Idle(a) /\ HasRoom /\ Begins(a, "busy", [kind |-> "poll"])
     /\ uart0' = Filled(uart0, 1) /\ UNCHANGED got
  \/ In(a, "busy") /\ Busy /\ Ends(a) /\ UNCHANGED uart0

\* Polled input is for who has not enabled the interrupt.
PollIn(a) ==
  /\ Idle(a) /\ uart0.rxn > 0 /\ "rx" \notin uart0.ctrl
  /\ uart0' = [uart0 EXCEPT !.rxn = @ - 1]
  /\ UNCHANGED <<at, call, got>>

ErrCheck(a) ==
  /\ Idle(a) /\ uart0.over /\ uart0' = [uart0 EXCEPT !.over = FALSE]
  /\ UNCHANGED <<at, call, got>>

\* The callback: fifo_read and fifo_fill as far as rx_ready and tx_ready
\* allow, err_check, and what it disables and enables.
Callback(u) ==
  \E n \in 0 .. (IF "rx" \in u.ctrl THEN u.rxn ELSE 0),
     k \in 0 .. (IF "tx" \in u.ctrl /\ HasRoom THEN Room ELSE 0),
     checked, disabled \in SUBSET UartIrqs,
     enabled \in SUBSET (IF CallbackEnables THEN UartIrqs ELSE {}) :
    /\ checked \subseteq {"err"}
    /\ uart0' = [Filled(u, k) EXCEPT !.rxn = @ - n, !.over = @ /\ checked = {},
                    !.ctrl = (@ \ disabled) \cup enabled,
                    !.promised = (@ \ disabled) \cup enabled]

\* eriscv_uart_isr; without a callback it disables what may have raised it.
UartServes ==
  /\ locked = "none" /\ IsPending
  /\ IF uart0.cb THEN Callback(uart0)
     ELSE uart0' = [uart0 EXCEPT !.ctrl = {}, !.promised = {}]
  /\ UNCHANGED <<at, call, got>>

LineMoves ==
  /\ \/ uart0.rxn < Depth /\ uart0' = [uart0 EXCEPT !.rxn = @ + 1]
     \/ uart0.rxn = Depth /\ uart0' = [uart0 EXCEPT !.over = TRUE]
     \/ uart0.engine /\ uart0' = [uart0 EXCEPT !.engine = uart0.fifo > 0,
                          !.fifo = IF @ > 0 THEN @ - 1 ELSE 0]
  /\ UNCHANGED <<at, call, got>>

\* One thread calls.
UartNext == /\ device = "uart"
            /\ \/ \E a \in Callers :
                    /\ Alone(a)
                    /\ \/ CallbackSet(a) \/ CtrlReads(a) \/ CtrlWrites(a)
                       \/ PollOut(a) \/ PollIn(a) \/ ErrCheck(a)
               \/ UartServes \/ LineMoves
            /\ UNCHANGED <<device, locked, latched, spi0, gpio0>>

-----------------------------------------------------------------------------
NoTransfer == [tx |-> <<>>, rx |-> <<>>]

DrvInit ==
  /\ device \in Devices
  /\ at = [a \in Apps |-> "idle"] /\ call = [a \in Apps |-> NoCall]
  /\ got = [a \in Apps |-> {}] /\ locked = "none" /\ latched = FALSE
  /\ spi0 = [active |-> FALSE, x |-> NoTransfer, rx |-> <<>>, index |-> 0, to |-> Open,
             then |-> NoCall, irqEn |-> FALSE, ss |-> Open, busy |-> FALSE,
             done |-> FALSE, out |-> Filler, data |-> Blank,
             last |-> [x |-> NoTransfer, to |-> Open, rx |-> <<>>]]
  /\ gpio0 = [out |-> {}, dir |-> {}, want |-> {}, drive |-> {}]
  /\ uart0 = [ctrl |-> {}, cb |-> FALSE, fifo |-> 0, engine |-> FALSE, rxn |-> 0,
              over |-> FALSE, promised |-> {}]

DrvNext == SpiNext \/ GpioNext \/ UartNext

DrvSpec == DrvInit /\ [][DrvNext]_drvVars

-----------------------------------------------------------------------------
(* Type invariant.                                                         *)
DrvTypeOK ==
  /\ device \in Devices /\ locked \in Apps \cup {"none"} /\ latched \in BOOLEAN
  /\ spi0.ss \in Slaves \cup {Open} /\ spi0.index \in Nat
  /\ \A f \in DOMAIN gpio0 : gpio0[f] \subseteq AllPins
  /\ uart0.ctrl \subseteq UartIrqs /\ uart0.fifo \in 0 .. Depth
  /\ uart0.rxn \in 0 .. Depth

(* Every SPI transfer, synchronous, asynchronous, or started by a callback *)
(* in the ISR, ends with the answers of its own slave to its own bytes, in *)
(* order, in its own buffers, whatever sizes these have: not with the flag *)
(* an earlier transfer has left, nor by an interrupt latched for it.       *)
SpiAnswers ==
  LET sent == Seqs!FlattenSeq(spi0.last.x.tx)
      rx == Seqs!FlattenSeq(spi0.last.rx)
  IN \A i \in DOMAIN rx :
       rx[i] = <<spi0.last.to, IF i <= Len(sent) THEN sent[i] ELSE Filler>>

(* Each pin is as the last call for it has asked, although threads and an  *)
(* ISR read and write the whole port; pins that are not the port's stay.   *)
PinsAsSet == /\ gpio0.out = gpio0.want /\ gpio0.dir = gpio0.drive
             /\ gpio0.out \cup gpio0.dir \subseteq PortPins

(* An interrupt of the UART that a call has enabled stays enabled until a  *)
(* call disables it, although the ISR disables interrupts while a thread   *)
(* is between reading and writing the register.                            *)
EnablesKept == uart0.promised \subseteq uart0.ctrl

(* No caller's bits are lost from a register that several read, change and *)
(* write back.                                                             *)
UpdatesKept == PinsAsSet /\ EnablesKept

(* poll_out, which waits until it sees the transmitter busy, finds it so.  *)
(* This does not hold: a thread that is preempted for the time of a byte   *)
(* after it has written finds the transmitter at rest, and waits for ever. *)
PollOutEnds == \A a \in Apps : at[a] = "busy" => Busy
=============================================================================
