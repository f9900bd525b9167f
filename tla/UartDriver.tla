----------------------------- MODULE UartDriver -----------------------------
(***************************************************************************)
(* The interrupt-driven UART driver (sw/lib/uart.c of M2, the variant with *)
(* a direct path of M0 and M1 in sw/bsp/drivers/uart.c), the trap handler  *)
(* that dispatches to it, and the two FIFOs, the interrupt conditions and  *)
(* the interrupt controller it works with.                                 *)
(*                                                                         *)
(* Bytes are numbered: the program offers 1, 2, ... and the line delivers  *)
(* 1, 2, ....  A ring buffer of SIZE slots is the sequence of what it      *)
(* holds, at most SIZE - 1 bytes.  The driver's calls run with interrupts  *)
(* off, its handler is not interrupted, but the hardware moves between any *)
(* two of their register accesses.                                         *)
(***************************************************************************)
EXTENDS Integers, Sequences

CONSTANTS Products,      \* subset of {"m0", "m2"}: which driver is linked
          TxRing, RxRing, \* capacities of the ring buffers
          TxDepth, RxDepth, \* depths of the FIFOs
          TxWatermark,   \* level at which the transmit interrupt is raised
          WriteLengths,  \* lengths of a call of async_write
          MaxTx, MaxRx   \* bounds: bytes offered, bytes that arrive

ASSUME UartAssumption ==
  /\ Products \subseteq {"m0", "m2"}
  /\ {TxRing, RxRing, TxDepth, RxDepth, MaxTx, MaxRx} \subseteq Nat \ {0}
  /\ TxWatermark \in 0 .. TxDepth
  /\ WriteLengths \subseteq Nat \ {0}

VARIABLES
  product,   \* the driver that is linked
  ring, rxRing, rxDropped,     \* tx_buffer, rx_buffer, rx_dropped
  txIrqEn, rxIrqEn,            \* CTRL
  txFifo, engine, rxFifo, overrun,  \* the peripheral; engine: byte on the line
  pending, inService,          \* the source's bits in the PLIC
  mie,       \* mstatus.MIE
  main,      \* where the program is: a call of the driver, or "app"
  left,      \* bytes of the current async_write that are not yet accepted
  isr,       \* where the trap handler is, "none" outside
  irqStatus, \* IRQ_STATUS as the handler read it: a set of conditions
  accepted, wire,              \* bytes accepted from the program; sent
  arrived, lost, delivered,    \* bytes that arrived, lost in the FIFO; read
  sawIdle    \* tx_pending returned 0 and nothing was offered since

hwVars  == <<txFifo, engine, rxFifo, overrun>>
rxVars  == <<rxRing, rxDropped, delivered>>
histVars == <<arrived, lost, wire>>
vars == <<product, ring, rxRing, rxDropped, txIrqEn, rxIrqEn, txFifo, engine,
          rxFifo, overrun, pending, inService, mie, main, left, isr,
          irqStatus, accepted, wire, arrived, lost, delivered, sawIdle>>

Upto(n) == [i \in 1 .. n |-> i]

-----------------------------------------------------------------------------
(* The peripheral.                                                         *)

TxReady == Len(txFifo) < TxDepth
TxBusy  == engine # <<>> \/ txFifo # <<>>

Conditions ==
  (IF rxFifo # <<>> THEN {"rx"} ELSE {})
    \cup (IF Len(txFifo) <= TxWatermark THEN {"tx"} ELSE {})
    \cup (IF overrun THEN {"overrun"} ELSE {})

IrqLine == \/ "rx" \in Conditions /\ rxIrqEn
           \/ "tx" \in Conditions /\ txIrqEn
           \/ "overrun" \in Conditions /\ rxIrqEn

\* A write of TXDATA: to the line if it is free, else into the FIFO.
WriteTx(b) ==
  IF engine = <<>> /\ txFifo = <<>>
  THEN engine' = <<b>> /\ UNCHANGED txFifo
  ELSE txFifo' = Append(txFifo, b) /\ UNCHANGED engine

LineSent ==
  /\ engine # <<>>
  /\ wire' = wire \o engine
  /\ IF txFifo = <<>> THEN engine' = <<>> /\ UNCHANGED txFifo
     ELSE engine' = <<Head(txFifo)>> /\ txFifo' = Tail(txFifo)
  /\ UNCHANGED <<product, ring, rxVars, txIrqEn, rxIrqEn, rxFifo, overrun,
                 pending, inService, mie, main, left, isr, irqStatus,
                 accepted, arrived, lost, sawIdle>>

LineReceives ==
  /\ arrived < MaxRx
  /\ arrived' = arrived + 1
  /\ IF Len(rxFifo) < RxDepth
     THEN rxFifo' = Append(rxFifo, arrived + 1) /\ UNCHANGED <<overrun, lost>>
     ELSE overrun' = TRUE /\ lost' = lost + 1 /\ UNCHANGED rxFifo
  /\ UNCHANGED <<product, ring, rxVars, txIrqEn, rxIrqEn, txFifo, engine,
                 pending, inService, mie, main, left, isr, irqStatus,
                 accepted, wire, sawIdle>>

PlicSamples ==
  /\ IrqLine /\ ~inService /\ ~pending
  /\ pending' = TRUE
  /\ UNCHANGED <<product, ring, rxVars, txIrqEn, rxIrqEn, hwVars, inService,
                 mie, main, left, isr, irqStatus, accepted, histVars, sawIdle>>

-----------------------------------------------------------------------------
(* The driver.                                                             *)

\* One turn of the loop of uart_tx_service: a byte from the ring to the FIFO.
ServeTx ==
  /\ ring # <<>> /\ TxReady
  /\ WriteTx(Head(ring))
  /\ ring' = Tail(ring)
  /\ UNCHANGED txIrqEn

\* Its loop ends when nothing is left or nothing fits.
ServeTxEnd ==
  /\ ring = <<>> \/ ~TxReady
  /\ UNCHANGED <<ring, txFifo, engine>>

\* A wrong turn: a byte that finds the ring full is not counted.
ServeRxSilent ==
  /\ rxFifo # <<>>
  /\ rxFifo' = Tail(rxFifo)
  /\ rxRing' = IF Len(rxRing) = RxRing THEN rxRing ELSE Append(rxRing, Head(rxFifo))
  /\ UNCHANGED rxDropped

\* One turn of the loop of uart_rx_service.
ServeRx ==
  /\ rxFifo # <<>>
  /\ rxFifo' = Tail(rxFifo)
  /\ IF Len(rxRing) = RxRing
     THEN rxDropped' = rxDropped + 1 /\ UNCHANGED rxRing
     ELSE rxRing' = Append(rxRing, Head(rxFifo)) /\ UNCHANGED rxDropped

AsyncInit ==
  /\ main = "boot"
  /\ ring' = <<>> /\ rxRing' = <<>> /\ rxDropped' = 0
  /\ overrun' = FALSE
  /\ txIrqEn' = FALSE /\ rxIrqEn' = TRUE
  /\ mie' = TRUE
  /\ main' = "app"
  /\ UNCHANGED <<product, txFifo, engine, rxFifo, pending, inService, left,
                 isr, irqStatus, accepted, histVars, delivered, sawIdle>>

\* The program may call the driver: it is not inside, nor in a handler.
AppRuns == main = "app" /\ isr = "none"

\* async_putc and async_write begin: interrupts off, on M0 first the direct
\* path.
BeginWrite(n) ==
  /\ AppRuns /\ accepted + n <= MaxTx
  /\ left' = n
  /\ mie' = FALSE
  /\ main' = IF product = "m0" THEN "direct" ELSE "fill"
  /\ sawIdle' = FALSE
  /\ UNCHANGED <<product, ring, rxVars, txIrqEn, rxIrqEn, hwVars, pending,
                 inService, isr, irqStatus, accepted, histVars>>

CallWrite == \E n \in WriteLengths : BeginWrite(n)

\* async_putc; one that finds no room anywhere changes nothing.
CallPutc ==
  /\ Len(ring) < TxRing \/ (product = "m0" /\ ring = <<>> /\ TxReady)
  /\ BeginWrite(1)

\* A wrong direct path: it overtakes what waits in the ring.
WriteDirectAlways ==
  /\ main = "direct"
  /\ IF left > 0 /\ TxReady
     THEN /\ WriteTx(accepted + 1)
          /\ accepted' = accepted + 1 /\ left' = left - 1
          /\ UNCHANGED main
     ELSE main' = "fill" /\ UNCHANGED <<accepted, left, txFifo, engine>>
  /\ UNCHANGED <<product, ring, rxVars, txIrqEn, rxIrqEn, rxFifo, overrun,
                 pending, inService, mie, isr, irqStatus, histVars, sawIdle>>

\* M0: straight to the FIFO while nothing waits in the ring.
WriteDirect ==
  /\ main = "direct"
  /\ IF left > 0 /\ ring = <<>> /\ TxReady
     THEN /\ WriteTx(accepted + 1)
          /\ accepted' = accepted + 1 /\ left' = left - 1
          /\ UNCHANGED main
     ELSE main' = "fill" /\ UNCHANGED <<accepted, left, txFifo, engine>>
  /\ UNCHANGED <<product, ring, rxVars, txIrqEn, rxIrqEn, rxFifo, overrun,
                 pending, inService, mie, isr, irqStatus, histVars, sawIdle>>

\* Into the ring, as many bytes as it takes; M0 serves only if some are there.
FillRing ==
  /\ main = "fill"
  /\ LET room == TxRing - Len(ring)
         n == IF left < room THEN left ELSE room
     IN /\ ring' = ring \o [i \in 1 .. n |-> accepted + i]
        /\ accepted' = accepted + n
        /\ main' = IF product = "m0" /\ ring' = <<>> THEN "leave" ELSE "serve"
  /\ left' = 0
  /\ UNCHANGED <<product, rxVars, txIrqEn, rxIrqEn, hwVars, pending,
                 inService, mie, isr, irqStatus, histVars, sawIdle>>

CallServes ==
  /\ main = "serve"
  /\ \/ ServeTx /\ UNCHANGED main
     \/ ServeTxEnd /\ main' = "control" /\ UNCHANGED txIrqEn
  /\ UNCHANGED <<product, rxVars, rxIrqEn, rxFifo, overrun, pending,
                 inService, mie, left, isr, irqStatus, accepted, histVars,
                 sawIdle>>

\* A wrong end of a call: the transmit interrupt stays as it was.
CallLeavesAsItWas ==
  /\ main \in {"control", "leave"}
  /\ mie' = TRUE
  /\ main' = "app"
  /\ UNCHANGED <<product, ring, rxVars, txIrqEn, rxIrqEn, hwVars, pending, inService,
                 left, isr, irqStatus, accepted, histVars, sawIdle>>

\* The control register, and uart_irq_restore.
CallLeaves ==
  /\ main \in {"control", "leave"}
  /\ txIrqEn' = IF main = "control" THEN ring # <<>> ELSE txIrqEn
  /\ mie' = TRUE
  /\ main' = "app"
  /\ UNCHANGED <<product, ring, rxVars, rxIrqEn, hwVars, pending, inService,
                 left, isr, irqStatus, accepted, histVars, sawIdle>>

AsyncGetc ==
  /\ AppRuns /\ rxRing # <<>>
  /\ delivered' = Append(delivered, Head(rxRing))
  /\ rxRing' = Tail(rxRing)
  /\ UNCHANGED <<product, ring, rxDropped, txIrqEn, rxIrqEn, hwVars, pending,
                 inService, mie, main, left, isr, irqStatus, accepted,
                 histVars, sawIdle>>

\* async_tx_pending returns 0.
AsyncTxIdle ==
  /\ AppRuns /\ ring = <<>> /\ ~TxBusy /\ ~sawIdle
  /\ sawIdle' = TRUE
  /\ UNCHANGED <<product, ring, rxVars, txIrqEn, rxIrqEn, hwVars, pending,
                 inService, mie, main, left, isr, irqStatus, accepted,
                 histVars>>

\* The polled puts, by a program that saw the asynchronous side idle: wait
\* for room, write, and see the transmitter busy, on M2 after each byte and
\* on M0 after the last.
CallPuts ==
  /\ AppRuns /\ sawIdle
  /\ \E n \in WriteLengths : accepted + n <= MaxTx /\ left' = n
  /\ main' = "poll"
  /\ UNCHANGED <<product, ring, rxVars, txIrqEn, rxIrqEn, hwVars, pending,
                 inService, mie, isr, irqStatus, accepted, histVars, sawIdle>>

PutsWrites ==
  /\ main = "poll" /\ isr = "none" /\ TxReady
  /\ WriteTx(accepted + 1)
  /\ accepted' = accepted + 1 /\ left' = left - 1
  /\ main' = IF product = "m2" \/ left = 1 THEN "busy?" ELSE "poll"
  /\ UNCHANGED <<product, ring, rxVars, txIrqEn, rxIrqEn, rxFifo, overrun,
                 pending, inService, mie, isr, irqStatus, histVars, sawIdle>>

PutsSeesBusy ==
  /\ main = "busy?" /\ isr = "none" /\ TxBusy
  /\ main' = IF left > 0 THEN "poll" ELSE "app"
  /\ sawIdle' = FALSE
  /\ UNCHANGED <<product, ring, rxVars, txIrqEn, rxIrqEn, hwVars, pending,
                 inService, mie, left, isr, irqStatus, accepted, histVars>>

-----------------------------------------------------------------------------
(* The trap handler.                                                       *)

TakeIrq ==
  /\ mie /\ pending /\ isr = "none"
  /\ isr' = "claim" /\ mie' = FALSE
  /\ UNCHANGED <<product, ring, rxVars, txIrqEn, rxIrqEn, hwVars, pending,
                 inService, main, left, irqStatus, accepted, histVars, sawIdle>>

IrqClaim ==
  /\ isr = "claim"
  /\ pending' = FALSE /\ inService' = TRUE
  /\ isr' = "status"
  /\ UNCHANGED <<product, ring, rxVars, txIrqEn, rxIrqEn, hwVars, mie, main,
                 left, irqStatus, accepted, histVars, sawIdle>>

\* eriscv_mcu_uart_irq_handler reads IRQ_STATUS once and works through it.
IrqReadsStatus ==
  /\ isr = "status"
  /\ irqStatus' = Conditions
  /\ isr' = "rx"
  /\ UNCHANGED <<product, ring, rxVars, txIrqEn, rxIrqEn, hwVars, pending,
                 inService, mie, main, left, accepted, histVars, sawIdle>>

IrqServesRx ==
  /\ isr = "rx"
  /\ \/ "rx" \in irqStatus /\ ServeRx /\ UNCHANGED isr
     \/ /\ "rx" \notin irqStatus \/ rxFifo = <<>>
        /\ isr' = "tx"
        /\ UNCHANGED <<rxFifo, rxRing, rxDropped>>
  /\ UNCHANGED <<product, ring, delivered, txIrqEn, rxIrqEn, txFifo, engine,
                 overrun, pending, inService, mie, main, left, irqStatus,
                 accepted, histVars, sawIdle>>

IrqServesTx ==
  /\ isr = "tx"
  /\ \/ "tx" \in irqStatus /\ ServeTx /\ UNCHANGED isr
     \/ "tx" \in irqStatus /\ ServeTxEnd /\ txIrqEn' = (ring # <<>>)
        /\ isr' = "end"
     \/ "tx" \notin irqStatus /\ isr' = "end"
        /\ UNCHANGED <<ring, txFifo, engine, txIrqEn>>
  /\ UNCHANGED <<product, rxVars, rxIrqEn, rxFifo, overrun, pending,
                 inService, mie, main, left, irqStatus, accepted, histVars,
                 sawIdle>>

\* The overrun flag is cleared, the claim completed, the handler returns.
IrqCompletes ==
  /\ isr = "end"
  /\ overrun' = IF "overrun" \in irqStatus THEN FALSE ELSE overrun
  /\ inService' = FALSE /\ mie' = TRUE
  /\ isr' = "none" /\ irqStatus' = {}
  /\ UNCHANGED <<product, ring, rxVars, txIrqEn, rxIrqEn, txFifo, engine,
                 rxFifo, pending, main, left, accepted, histVars, sawIdle>>

-----------------------------------------------------------------------------
Init ==
  /\ product \in Products
  /\ ring = <<>> /\ rxRing = <<>> /\ rxDropped = 0
  /\ txIrqEn = FALSE /\ rxIrqEn = FALSE
  /\ txFifo = <<>> /\ engine = <<>> /\ rxFifo = <<>> /\ overrun = FALSE
  /\ pending = FALSE /\ inService = FALSE /\ mie = FALSE
  /\ main = "boot" /\ left = 0 /\ isr = "none" /\ irqStatus = {}
  /\ accepted = 0 /\ wire = <<>> /\ arrived = 0 /\ lost = 0
  /\ delivered = <<>> /\ sawIdle = FALSE

Hardware == LineSent \/ LineReceives \/ PlicSamples
Call == WriteDirect \/ FillRing \/ CallServes \/ CallLeaves
          \/ PutsWrites \/ PutsSeesBusy
Handler == IrqClaim \/ IrqReadsStatus \/ IrqServesRx \/ IrqServesTx \/ IrqCompletes
Application == AsyncInit \/ CallWrite \/ CallPutc \/ AsyncGetc \/ AsyncTxIdle
                 \/ CallPuts

Next == Hardware \/ Call \/ TakeIrq \/ Handler \/ Application

\* The line, the PLIC and the processor run; an interrupt that stays pending
\* is taken between two calls sooner or later.
Fairness == /\ WF_vars(LineSent) /\ WF_vars(PlicSamples)
            /\ WF_vars(Call) /\ WF_vars(Handler) /\ SF_vars(TakeIrq)

Spec == Init /\ [][Next]_vars /\ Fairness

-----------------------------------------------------------------------------
(* Type invariant: the values the driver's and the peripheral's state take. *)
TypeOK ==
  /\ product \in Products
  /\ Len(ring) \in 0 .. TxRing /\ Len(rxRing) \in 0 .. RxRing
  /\ Len(txFifo) \in 0 .. TxDepth /\ Len(rxFifo) \in 0 .. RxDepth
  /\ Len(engine) \in 0 .. 1 /\ (engine = <<>> => txFifo = <<>>)
  /\ {overrun, pending, inService, mie, txIrqEn, rxIrqEn, sawIdle} \subseteq BOOLEAN
  /\ main \in {"boot", "app", "direct", "fill", "serve", "control", "leave", "poll",
             "busy?"}
  /\ isr \in {"none", "claim", "status", "rx", "tx", "end"}
  /\ irqStatus \subseteq {"rx", "tx", "overrun"}
  /\ isr # "none" => ~mie

(* Bytes leave in the order in which they were accepted, none twice and    *)
(* none lost, whatever the direct path of M0, the ring, the handler and    *)
(* the polled call do in between.                                          *)
TxInOrder == wire \o engine \o txFifo \o ring = Upto(accepted)

(* Every byte that arrived is with the program, on its way to it in order, *)
(* or counted: as dropped by the driver or lost in the FIFO.               *)
RxAccounted ==
  LET all == delivered \o rxRing \o rxFifo
  IN /\ \A i \in 1 .. Len(all) - 1 : all[i] < all[i + 1]
     /\ Len(all) + rxDropped + lost = arrived

(* A caller that async_tx_pending told that nothing is pending has all of  *)
(* its bytes on the line.                                                  *)
IdleMeansSent == sawIdle /\ main = "app" => Len(wire) = accepted

(* The transmit path keeps its promises: the order of the bytes, and what  *)
(* it says of those that are pending.                                      *)
TxSound == TxInOrder /\ IdleMeansSent

\* Accepted bytes are sent without another call.
TxDrains == \A n \in 1 .. MaxTx : (accepted = n) ~> (Len(wire) >= n)

\* Bytes that arrive are taken from the FIFO by the handler.
RxServed == (rxFifo # <<>> /\ main # "boot") ~> (rxFifo = <<>>)

(* No wakeup is lost: accepted bytes are sent, and bytes that arrive are   *)
(* taken from the FIFO, without another call of the program.               *)
NoWakeupLost == TxDrains /\ RxServed
=============================================================================
