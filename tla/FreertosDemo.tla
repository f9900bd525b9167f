---------------------------- MODULE FreertosDemo ----------------------------
(***************************************************************************)
(* The FreeRTOS qualification image (sw/rtos/freertos): four tasks, the    *)
(* SPI and Timer0 drivers they use and the interrupt handler.  A failed    *)
(* assertion stops the image.                                              *)
(*                                                                         *)
(* A ready task of the highest priority may run at any time: the tick,     *)
(* which slices time among equals, may come at any time.  The interrupt    *)
(* handler is one action, and so is what a task does between two accesses  *)
(* to state that others change.  The n-th byte on the SPI bus is answered  *)
(* by n.                                                                   *)
(***************************************************************************)
EXTENDS Integers, Sequences, FiniteSets

CONSTANTS PolledLen, AsyncLen  \* bytes of the two SPI transfers

ASSUME DemoAssumption == {PolledLen, AsyncLen} \subseteq Nat \ {0}

Prio == [consumer |-> 2, yield_a |-> 1, yield_b |-> 1, trigger |-> 0]
Tasks == DOMAIN Prio

VARIABLES
  pc, wait,    \* where a task is; "ready", "tick", "notify" or "deleted"
  notified, events,  \* the consumer's notification; events in event_queue
  mutex,       \* holder of event_mutex, or "none"
  armed, sliced,     \* timeslice_armed; timeslice_tick_mcycle is set
  done, copy,  \* task_done_bits; what a task loaded of it
  recorded,    \* the tasks that have stored their bit
  spi,         \* the registers of the SPI controller
  async, asyncDone,  \* the driver's transfer under way; spi_async_done
  rx,          \* bytes received by the transfer under way
  timer, irqs, \* Timer0 counts; sources pending in the PLIC
  fault, passed

sched == <<pc, wait>>
sync == <<notified, events, mutex>>
slice == <<armed, sliced>>
marks == <<done, copy, recorded>>
bus == <<spi, async, asyncDone, rx>>
ends == <<fault, passed>>
vars == <<sched, sync, slice, marks, bus, timer, irqs, ends>>

-----------------------------------------------------------------------------
(* The kernel, as its documentation promises.                              *)

Ready(t) == wait[t] = "ready"
At(t, where) == /\ pc[t] = where /\ Ready(t) /\ ~fault
                /\ \A u \in Tasks : Ready(u) => Prio[u] <= Prio[t]

Goto(t, where) == pc' = [pc EXCEPT ![t] = where]
Sleep(t, why) == wait' = [wait EXCEPT ![t] = why]
Go(t, where) == Goto(t, where) /\ UNCHANGED wait

\* configASSERT: go on, or stop for good.
Assert(cond) == fault' = ~cond

Delay(t, here, next) ==
  /\ At(t, here) /\ Goto(t, next) /\ Sleep(t, "tick")
  /\ UNCHANGED <<sync, slice, marks, bus, timer, irqs, ends>>

\* Mutant: the tick hook records the tick and leaves the flag.
TickKeepsArmed ==
  /\ ~fault
  /\ wait' = [t \in Tasks |-> IF wait[t] = "tick" THEN "ready" ELSE wait[t]]
  /\ sliced' = (sliced \/ armed)
  /\ UNCHANGED <<pc, armed, sync, marks, bus, timer, irqs, ends>>

Tick ==
  /\ ~fault
  /\ wait' = [t \in Tasks |-> IF wait[t] = "tick" THEN "ready" ELSE wait[t]]
  /\ sliced' = (sliced \/ armed)
  /\ armed' = (armed /\ sliced)
  /\ UNCHANGED <<pc, sync, marks, bus, timer, irqs, ends>>

\* Take without waiting, asserted to succeed, and give back.
TakeMutex(t) ==
  /\ At(t, "take mutex")
  /\ Assert(mutex = "none") /\ mutex' = t
  /\ Go(t, "give mutex")
  /\ UNCHANGED <<notified, events, slice, marks, bus, timer, irqs, passed>>

GiveMutex(t, next) ==
  /\ At(t, "give mutex")
  /\ Assert(mutex = t) /\ mutex' = "none"
  /\ Go(t, next)
  /\ UNCHANGED <<notified, events, slice, marks, bus, timer, irqs, passed>>

-----------------------------------------------------------------------------
(* The SPI controller and its driver.                                      *)

\* A write of TXDATA while the controller is busy is ignored.
Transmit == IF spi.busy THEN spi ELSE [spi EXCEPT !.busy = TRUE, !.done = FALSE]

SpiShifts ==
  /\ spi.busy /\ ~fault
  /\ spi' = [spi EXCEPT !.busy = FALSE, !.done = TRUE, !.data = @ + 1]
  /\ irqs' = IF spi.irqEn THEN irqs \cup {"spi"} ELSE irqs
  /\ UNCHANGED <<sched, sync, slice, marks, async, asyncDone, rx, timer, ends>>

SpiInit ==
  /\ At("trigger", "spi init")
  /\ spi' = [spi EXCEPT !.irqEn = FALSE, !.done = FALSE]
  /\ async' = [active |-> FALSE, index |-> 0]
  /\ rx' = <<>>
  /\ Go("trigger", "transmit")
  /\ UNCHANGED <<sync, slice, marks, asyncDone, timer, irqs, ends>>

\* freertos_spi_transfer_buf, byte by byte; the polled bytes come first.
TransferStarts ==
  /\ At("trigger", "transmit")
  /\ Assert(~async.active)
  /\ spi' = Transmit
  /\ Go("trigger", "wait idle")
  /\ UNCHANGED <<sync, slice, marks, async, asyncDone, rx, timer, irqs, passed>>

\* Mutant: the answer is read without waiting for the end.
TransferByteEarly ==
  /\ At("trigger", "wait idle")
  /\ rx' = Append(rx, spi.data)
  /\ spi' = [spi EXCEPT !.done = FALSE]
  /\ Go("trigger", IF Len(rx') < PolledLen THEN "transmit" ELSE "check polled")
  /\ UNCHANGED <<sync, slice, marks, async, asyncDone, timer, irqs, ends>>

TransferByte ==
  /\ At("trigger", "wait idle") /\ ~spi.busy
  /\ rx' = Append(rx, spi.data)
  /\ spi' = [spi EXCEPT !.done = FALSE]
  /\ Go("trigger", IF Len(rx') < PolledLen THEN "transmit" ELSE "check polled")
  /\ UNCHANGED <<sync, slice, marks, async, asyncDone, timer, irqs, ends>>

\* The answers are asserted; freertos_spi_start_async, up to its first byte.
StartAsync ==
  /\ At("trigger", "check polled")
  /\ Assert(rx = [i \in 1 .. PolledLen |-> i] /\ ~async.active)
  /\ asyncDone' = FALSE /\ rx' = <<>>
  /\ async' = [active |-> TRUE, index |-> 0]
  /\ spi' = [spi EXCEPT !.irqEn = TRUE, !.done = FALSE]
  /\ Go("trigger", "first byte")
  /\ UNCHANGED <<sync, slice, marks, timer, irqs, passed>>

AsyncFirstByte ==
  /\ At("trigger", "first byte")
  /\ spi' = Transmit
  /\ Go("trigger", "spin")
  /\ UNCHANGED <<sync, slice, marks, async, asyncDone, rx, timer, irqs, ends>>

\* The loop over wait_cycles outlasts the transfer.
AsyncEnds ==
  /\ At("trigger", "spin") /\ asyncDone
  /\ Assert(rx = [i \in 1 .. AsyncLen |-> PolledLen + i])
  /\ Go("trigger", "arm")
  /\ UNCHANGED <<sync, slice, marks, bus, timer, irqs, passed>>

\* freertos_spi_irq_handler, with the callback.
SpiHandler ==
  IF ~spi.done THEN UNCHANGED bus
  ELSE IF ~async.active THEN spi' = [spi EXCEPT !.irqEn = FALSE, !.done = FALSE]
                             /\ UNCHANGED <<async, asyncDone, rx>>
  ELSE /\ rx' = Append(rx, spi.data)
       /\ LET last == async.index + 1 = AsyncLen
          IN /\ async' = [active |-> ~last, index |-> async.index + 1]
             /\ spi' = [spi EXCEPT !.done = FALSE, !.busy = ~last, !.irqEn = ~last]
             /\ asyncDone' = last

-----------------------------------------------------------------------------
(* Timer0 and the interrupt handler.                                       *)

ArmTimer ==
  /\ At("trigger", "arm")
  /\ timer' = TRUE
  /\ Go("trigger", "load")
  /\ UNCHANGED <<sync, slice, marks, bus, irqs, ends>>

TimerExpires ==
  /\ timer /\ "timer" \notin irqs /\ ~fault
  /\ irqs' = irqs \cup {"timer"}
  /\ UNCHANGED <<sched, sync, slice, marks, bus, timer, ends>>

TimerIrq ==
  /\ "timer" \in irqs /\ ~fault
  /\ irqs' = irqs \ {"timer"} /\ timer' = FALSE
  /\ Assert(events < 1) /\ events' = 1
  /\ notified' = TRUE
  /\ wait' = [wait EXCEPT !["consumer"] = IF @ = "notify" THEN "ready" ELSE @]
  /\ UNCHANGED <<pc, mutex, slice, marks, bus, passed>>

SpiIrq ==
  /\ "spi" \in irqs /\ ~fault
  /\ irqs' = irqs \ {"spi"}
  /\ SpiHandler
  /\ UNCHANGED <<sched, sync, slice, marks, timer, ends>>

-----------------------------------------------------------------------------
(* The tasks.                                                              *)

\* task_done_bits |= bit: a load, then a store of what was loaded.
LoadMarks(t) ==
  /\ At(t, "load")
  /\ copy' = [copy EXCEPT ![t] = done]
  /\ Go(t, "store")
  /\ UNCHANGED <<sync, slice, done, recorded, bus, timer, irqs, ends>>

StoreMarks(t) ==
  /\ At(t, "store")
  /\ done' = copy[t] \cup {t} /\ recorded' = recorded \cup {t}
  /\ Goto(t, "end")
  /\ IF t = "consumer" THEN UNCHANGED wait ELSE Sleep(t, "deleted")
  /\ UNCHANGED <<sync, slice, copy, bus, timer, irqs, ends>>

\* xQueueReceive with a tick of patience, asserted to find nothing (an event
\* that came earlier would fail the assertion no later).
ConsumerFindsNothing ==
  /\ At("consumer", "receive") /\ Assert(events = 0)
  /\ Goto("consumer", "take") /\ UNCHANGED wait
  /\ UNCHANGED <<sync, slice, marks, bus, timer, irqs, passed>>

\* ulTaskNotifyTake, then the event, which came first.
ConsumerWakes ==
  /\ At("consumer", "take")
  /\ IF notified
     THEN /\ notified' = FALSE /\ events' = 0 /\ Assert(events = 1)
          /\ Go("consumer", "take mutex")
     ELSE Sleep("consumer", "notify") /\ UNCHANGED <<pc, notified, events, fault>>
  /\ UNCHANGED <<mutex, slice, marks, bus, timer, irqs, passed>>

ConsumerChecks ==
  /\ At("consumer", "end")
  /\ IF done = Tasks THEN passed' = TRUE /\ Sleep("consumer", "deleted")
     ELSE Sleep("consumer", "tick") /\ UNCHANGED passed
  /\ UNCHANGED <<pc, sync, slice, marks, bus, timer, irqs, fault>>

Consumer ==
  \/ Delay("consumer", "start", "receive") \/ ConsumerFindsNothing
  \/ ConsumerWakes \/ TakeMutex("consumer")
  \/ GiveMutex("consumer", "load") \/ ConsumerChecks

Trigger ==
  \/ Delay("trigger", "start", "take mutex")
  \/ TakeMutex("trigger") \/ GiveMutex("trigger", "spi init")
  \/ SpiInit \/ TransferStarts \/ TransferByte \/ StartAsync \/ AsyncFirstByte
  \/ AsyncEnds \/ ArmTimer

\* After taskYIELD, a waits for the tick hook to see that it is not
\* preempted by its equal before the tick.
YieldArms ==
  /\ At("yield_a", "start")
  /\ armed' = TRUE
  /\ Go("yield_a", "spin")
  /\ UNCHANGED <<sync, sliced, marks, bus, timer, irqs, ends>>

YieldSliced ==
  /\ At("yield_a", "spin") /\ ~armed
  /\ Go("yield_a", "delay")
  /\ UNCHANGED <<sync, slice, marks, bus, timer, irqs, ends>>

Yields == \/ YieldArms \/ YieldSliced \/ Delay("yield_a", "delay", "load")
          \/ Delay("yield_b", "start", "load")

-----------------------------------------------------------------------------
Init ==
  /\ pc = [t \in Tasks |-> "start"] /\ wait = [t \in Tasks |-> "ready"]
  /\ notified = FALSE /\ events = 0 /\ mutex = "none"
  /\ armed = FALSE /\ sliced = FALSE
  /\ done = {} /\ copy = [t \in Tasks |-> {}] /\ recorded = {}
  /\ spi = [busy |-> FALSE, done |-> FALSE, irqEn |-> FALSE, data |-> 0]
  /\ async = [active |-> FALSE, index |-> 0] /\ asyncDone = FALSE /\ rx = <<>>
  /\ timer = FALSE /\ irqs = {} /\ fault = FALSE /\ passed = FALSE

Step(t) == \/ LoadMarks(t) \/ StoreMarks(t)
           \/ t = "consumer" /\ Consumer
           \/ t = "trigger" /\ Trigger
           \/ t \in {"yield_a", "yield_b"} /\ Yields

Hardware == SpiShifts \/ TimerExpires
Irq == TimerIrq \/ SpiIrq

Next == (\E t \in Tasks : Step(t)) \/ Hardware \/ Irq \/ Tick

\* Each task gets its turns: a tick period is long enough for the consumer's
\* check and leaves time for the trigger.
Fairness == /\ \A t \in Tasks : SF_vars(Step(t))
            /\ WF_vars(Hardware) /\ WF_vars(Irq) /\ WF_vars(Tick)

Spec == Init /\ [][Next]_vars /\ Fairness

-----------------------------------------------------------------------------
(* Type invariant: tasks, kernel objects and registers keep their ranges.  *)
TypeOK ==
  /\ wait \in [Tasks -> {"ready", "tick", "notify", "deleted"}]
  /\ events \in 0 .. 1 /\ mutex \in Tasks \cup {"none"}
  /\ {notified, armed, sliced, asyncDone, timer, fault, passed} \subseteq BOOLEAN
  /\ done \subseteq Tasks /\ copy \in [Tasks -> SUBSET Tasks]
  /\ spi \in [busy : BOOLEAN, done : BOOLEAN, irqEn : BOOLEAN,
              data : 0 .. PolledLen + AsyncLen]
  /\ async \in [active : BOOLEAN, index : 0 .. AsyncLen]
  /\ irqs \subseteq {"spi", "timer"}

(* No interleaving of tasks, ticks and interrupts makes an assertion of    *)
(* the image fail: event before notification, mutex free, one transfer at  *)
(* a time, and the bytes of both transfers in order.                       *)
AssertsHold == ~fault

(* Every task but the consumer comes to its end: none of the waits for a   *)
(* tick, a flag, a callback or a notification is missed.                   *)
WorkersFinish == <>(\A t \in Tasks \ {"consumer"} : wait[t] = "deleted")

(* README.md:8-10: each task records its completion; once recorded, the    *)
(* record exists.                                                          *)
DoneRecorded == recorded \subseteq done
=============================================================================
