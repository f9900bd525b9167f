-------------------------- MODULE FreertosMonitor --------------------------
(***************************************************************************)
(* The FreeRTOS monitor of M0 (sw/demos/freertos_monitor/main.c): a        *)
(* console that takes single-key commands from the UART, a worker behind a *)
(* queue, a timer task, and the interrupt handler that feeds all three     *)
(* from the UART and from Timer0.                                          *)
(*                                                                         *)
(* The three tasks have three priorities, so the running one is the ready  *)
(* task of highest priority, the holder of the mutex inheriting that of    *)
(* its waiters.  The interrupt handler is one action: it is not            *)
(* interrupted, and what it leaves to the hardware shows when it is over.  *)
(* Text is not modelled; that it can fill the transmit ring and put the    *)
(* printing task to sleep, with the mutex in its hands, is.                *)
(***************************************************************************)
EXTENDS Integers, Sequences, FiniteSets

CONSTANTS Keys,      \* commands that are typed, of {"S","q","b","r","w","d"}
          QueueLen,  \* MONITOR_EVENT_QUEUE_LEN
          MaxKeys,   \* bound: keys typed
          MaxExpire  \* bound: expirations of Timer0

ASSUME MonitorAssumption ==
  /\ Keys \subseteq {"S", "q", "b", "r", "w", "d"}
  /\ {QueueLen, MaxKeys, MaxExpire} \subseteq Nat \ {0}

Tasks == {"worker", "console", "timer"}
Base == [worker |-> 3, console |-> 2, timer |-> 1]

VARIABLES
  pc,        \* where each task is in its code
  wait,      \* what it waits for: "queue", "mutex", "notify", "tick"; or "ready"
  holder,    \* of uart_output_mutex, or "none"
  notified,  \* the tasks whose notification count is not zero
  queue,     \* event_queue: the kinds of its events
  key,       \* the command the console works on, or "none"
  txFull,    \* the transmit ring of the UART driver is full
  rxRing, typed,  \* keys in its receive ring; number typed
  timer, irq, expired, \* Timer0: "off", "on", "fired"; its bit in the PLIC; count
  active,    \* pipeline_active
  sampleIrqs, frames, drops,  \* pipeline_{sample_irq,frame,drop}_count
  mode,      \* workload_mode
  overlap    \* a sample was taken while the console reset the counters

kernel == <<wait, holder, notified>>
uart == <<txFull, rxRing, typed>>
timer0 == <<timer, irq, expired>>
stream == <<active, sampleIrqs, frames, drops, overlap>>
vars == <<pc, kernel, queue, key, uart, timer0, stream, mode>>

-----------------------------------------------------------------------------
(* The kernel, as its documentation promises.                              *)

Priority(t) ==
  LET waiters == {u \in Tasks : wait[u] = "mutex"}
  IN IF holder = t THEN CHOOSE p \in {Base[u] : u \in waiters \cup {t}} :
                          \A u \in waiters \cup {t} : Base[u] <= p
     ELSE Base[t]

Runs(t) == /\ wait[t] = "ready"
           /\ \A u \in Tasks : wait[u] = "ready" => Priority(u) <= Priority(t)

Block(t, why) == wait' = [wait EXCEPT ![t] = why]
Goto(t, where) == pc' = [pc EXCEPT ![t] = where]

\* Send an event, without waiting: wait' and queue' only if there is room.
Send(kind) ==
  IF Len(queue) < QueueLen
  THEN /\ queue' = Append(queue, kind)
       /\ wait' = [wait EXCEPT !["worker"] = IF @ = "queue" THEN "ready" ELSE @]
  ELSE UNCHANGED <<queue, wait>>

\* Take the mutex or wait for it.
Lock(t, next) ==
  /\ Runs(t) /\ pc[t] = "lock"
  /\ IF holder = "none" THEN holder' = t /\ Goto(t, next) /\ UNCHANGED wait
     ELSE Block(t, "mutex") /\ UNCHANGED <<holder, pc>>
  /\ UNCHANGED <<notified, queue, key, uart, timer0, stream, mode>>

\* Give it, which wakes the waiter of highest priority.
Unlock(t, next) ==
  /\ Runs(t) /\ pc[t] = "unlock"
  /\ holder' = "none" /\ Goto(t, next)
  /\ wait' = [u \in Tasks |->
                IF wait[u] = "mutex" /\ \A v \in Tasks : wait[v] = "mutex" => Base[v] <= Base[u]
                THEN "ready" ELSE wait[u]]
  /\ key' = IF t = "console" THEN "none" ELSE key
  /\ UNCHANGED <<notified, queue, uart, timer0, stream, mode>>

\* uart_puts: a full ring puts the task to sleep for a tick, again and again.
Puts(t, here, next) ==
  /\ Runs(t) /\ pc[t] = here
  /\ IF txFull THEN Block(t, "tick") /\ UNCHANGED <<pc, txFull>>
     ELSE Goto(t, next) /\ txFull' \in BOOLEAN /\ UNCHANGED wait
  /\ UNCHANGED <<holder, notified, queue, key, rxRing, typed, timer0,
                 stream, mode>>

\* ulTaskNotifyTake(pdTRUE, portMAX_DELAY).
TakeNotification(t, next) ==
  /\ Runs(t) /\ pc[t] = "take"
  /\ IF t \in notified
     THEN notified' = notified \ {t} /\ Goto(t, next) /\ UNCHANGED wait
     ELSE Block(t, "notify") /\ UNCHANGED <<notified, pc>>
  /\ UNCHANGED <<holder, queue, key, uart, timer0, stream, mode>>

\* Mutant: a notification reaches only a task that waits for it.
NotifyWaiting(t) ==
  /\ notified' = IF wait[t] = "notify" THEN notified \cup {t} ELSE notified
  /\ wait' = [wait EXCEPT ![t] = IF @ = "notify" THEN "ready" ELSE @]

\* vTaskNotifyGiveFromISR.
Notify(t) ==
  /\ notified' = notified \cup {t}
  /\ wait' = [wait EXCEPT ![t] = IF @ = "notify" THEN "ready" ELSE @]

Tick ==
  /\ \E t \in Tasks : wait[t] = "tick"
  /\ wait' = [t \in Tasks |-> IF wait[t] = "tick" THEN "ready" ELSE wait[t]]
  /\ UNCHANGED <<pc, holder, notified, queue, key, uart, timer0, stream,
                 mode>>

-----------------------------------------------------------------------------
(* Timer0 and the interrupt handler.                                       *)

\* freertos_timer_start: COMPARE is written first, so a timer that is still
\* counting for an older and longer delay fires at once.
StartTimer ==
  \/ timer' = "on" /\ UNCHANGED irq
  \/ timer = "on" /\ timer' = "fired" /\ irq' = TRUE

\* freertos_timer_stop; a request that the PLIC has latched stays.
StopTimer == timer' = "off" /\ UNCHANGED irq

\* The sample period is long: the worker, when it may run, has taken up one
\* sample before the next comes.
TimerExpires ==
  /\ timer = "on" /\ expired < MaxExpire
  /\ wait["worker"] = "ready" => queue = <<>>
  /\ timer' = "fired" /\ irq' = TRUE /\ expired' = expired + 1
  /\ UNCHANGED <<pc, kernel, queue, key, uart, stream, mode>>

IrqsEnabled == pc["console"] # "init"

\* Mutant: a sample that finds the queue full is not counted as dropped.
CountSampleSilent ==
  /\ sampleIrqs' = sampleIrqs + 1
  /\ Send("sample") /\ UNCHANGED drops
  /\ overlap' = (overlap \/ pc["console"] \in {"w_irqs", "w_frames", "w_drops"})

CountSample ==
  /\ sampleIrqs' = sampleIrqs + 1
  /\ Send("sample")
  /\ drops' = IF Len(queue) < QueueLen THEN drops ELSE drops + 1
  /\ overlap' = (overlap \/ pc["console"] \in {"w_irqs", "w_frames", "w_drops"})

TimerIrq ==
  /\ IrqsEnabled /\ irq
  /\ irq' = FALSE
  /\ IF active
     THEN CountSample /\ timer' = "on" /\ UNCHANGED <<notified, active, frames>>
     ELSE Notify("timer") /\ timer' = "off" /\ UNCHANGED <<queue, stream>>
  /\ UNCHANGED <<pc, holder, key, uart, expired, mode>>

\* A key comes in, or the transmit ring drains: both notify the console.
UartIrq ==
  /\ IrqsEnabled
  /\ \/ /\ typed < MaxKeys /\ typed' = typed + 1
        /\ \E k \in Keys : rxRing' = Append(rxRing, k)
        /\ UNCHANGED txFull
     \/ txFull /\ txFull' = FALSE /\ UNCHANGED <<rxRing, typed>>
  /\ Notify("console")
  /\ UNCHANGED <<pc, holder, queue, key, timer0, stream, mode>>

-----------------------------------------------------------------------------
(* The worker.                                                             *)

WorkerKind == [sample |-> "sample", burst |-> "burst", queue |-> "consumed",
               bench |-> "bench"]

Receive ==
  /\ Runs("worker") /\ pc["worker"] = "receive"
  /\ IF queue = <<>> THEN Block("worker", "queue") /\ UNCHANGED <<pc, queue>>
     ELSE /\ queue' = Tail(queue)
          /\ Goto("worker", WorkerKind[Head(queue)]) /\ UNCHANGED wait
  /\ UNCHANGED <<holder, notified, key, uart, timer0, stream, mode>>

ProcessSample ==
  /\ Runs("worker") /\ pc["worker"] = "sample"
  /\ frames' = frames + 1
  /\ Goto("worker", "receive")
  /\ UNCHANGED <<kernel, queue, key, uart, timer0, active, sampleIrqs,
                 drops, overlap, mode>>

\* A burst, or the count of a queue event, changes nothing but its counter.
Work ==
  /\ Runs("worker") /\ pc["worker"] \in {"burst", "consumed"}
  /\ Goto("worker", IF pc["worker"] = "burst" THEN "receive" ELSE "lock")
  /\ UNCHANGED <<kernel, queue, key, uart, timer0, stream, mode>>

BenchmarkEnds ==
  /\ Runs("worker") /\ pc["worker"] = "bench"
  /\ mode' = "idle" /\ Goto("worker", "lock")
  /\ UNCHANGED <<kernel, queue, key, uart, timer0, stream>>

Worker == \/ Receive \/ ProcessSample \/ Work \/ BenchmarkEnds
          \/ Lock("worker", "print") \/ Puts("worker", "print", "unlock")
          \/ Unlock("worker", "receive")

TimerTask == \/ TakeNotification("timer", "lock")
             \/ Lock("timer", "print") \/ Puts("timer", "print", "unlock")
             \/ Unlock("timer", "take")

-----------------------------------------------------------------------------
(* The console.                                                            *)

ConsoleAt(where) == Runs("console") /\ pc["console"] = where

ConsoleInit ==
  /\ ConsoleAt("init")
  /\ Goto("console", "lock")
  /\ UNCHANGED <<kernel, queue, key, uart, timer0, stream, mode>>

GetKey ==
  /\ ConsoleAt("getc")
  /\ IF rxRing = <<>> THEN Goto("console", "take") /\ UNCHANGED <<key, rxRing>>
     ELSE /\ key' = Head(rxRing) /\ rxRing' = Tail(rxRing)
          /\ Goto("console", "lock")
  /\ UNCHANGED <<kernel, queue, txFull, typed, timer0, stream, mode>>

\* monitor_dispatch, up to the first effect of the command.
Dispatch ==
  /\ ConsoleAt("dispatch")
  /\ Goto("console",
       CASE key \in {"S"} -> "reply"
         [] key \in {"q", "b"} -> "send"
         [] key = "r" -> IF active THEN "reply" ELSE "r_start"
         [] key = "w" -> IF mode # "idle" THEN "reply"
                         ELSE IF active THEN "w_stop" ELSE "w_irqs"
         [] key = "d" -> IF mode # "idle" THEN "reply"
                         ELSE IF active THEN "d_stop" ELSE "d_mode")
  /\ active' = IF key = "w" /\ mode = "idle" THEN ~active
               ELSE IF key = "d" /\ mode = "idle" THEN FALSE ELSE active
  /\ overlap' = IF active' /\ ~active THEN FALSE ELSE overlap
  /\ UNCHANGED <<kernel, queue, key, uart, timer0, sampleIrqs, frames,
                 drops, mode>>

\* Starting the stream: active is set, the counters are cleared one by one
\* and the timer is started, with interrupts on throughout.
ResetIrqs ==
  /\ ConsoleAt("w_irqs") /\ sampleIrqs' = 0 /\ Goto("console", "w_frames")
  /\ UNCHANGED <<kernel, queue, key, uart, timer0, active, frames, drops,
                 overlap, mode>>
ResetFrames ==
  /\ ConsoleAt("w_frames") /\ frames' = 0 /\ Goto("console", "w_drops")
  /\ UNCHANGED <<kernel, queue, key, uart, timer0, active, sampleIrqs,
                 drops, overlap, mode>>
ResetDrops ==
  /\ ConsoleAt("w_drops") /\ drops' = 0 /\ Goto("console", "w_start")
  /\ UNCHANGED <<kernel, queue, key, uart, timer0, active, sampleIrqs,
                 frames, overlap, mode>>

CommandStartsTimer ==
  /\ \E here \in {"r_start", "w_start"} : ConsoleAt(here)
  /\ StartTimer /\ Goto("console", "reply")
  /\ UNCHANGED <<kernel, queue, key, uart, expired, stream, mode>>

CommandStopsTimer ==
  /\ \E here \in {"w_stop", "d_stop"} : ConsoleAt(here)
  /\ StopTimer
  /\ Goto("console", IF key = "w" THEN "reply" ELSE "d_note")
  /\ UNCHANGED <<kernel, queue, key, uart, expired, stream, mode>>

SetMode ==
  /\ ConsoleAt("d_mode")
  /\ mode' = "bench" /\ Goto("console", "d_text")
  /\ UNCHANGED <<kernel, queue, key, uart, timer0, stream>>

CommandSends ==
  /\ ConsoleAt("send")
  /\ Send([q |-> "queue", b |-> "burst", d |-> "bench"][key])
  /\ mode' = IF key = "d" /\ Len(queue) = QueueLen THEN "idle" ELSE mode
  /\ Goto("console", "reply")
  /\ UNCHANGED <<holder, notified, key, uart, timer0, stream>>

\* The answer to a command, of any length.
Reply == Puts("console", "reply", IF key = "S" THEN "unlock" ELSE "prompt")

\* The banner is the text under the first lock, with no key yet; the status
\* for the dashboard has neither echo nor prompt.
Console ==
  \/ ConsoleInit \/ GetKey \/ Dispatch
  \/ ResetIrqs \/ ResetFrames \/ ResetDrops
  \/ CommandStartsTimer \/ CommandStopsTimer \/ SetMode \/ CommandSends
  \/ TakeNotification("console", "getc")
  \/ Lock("console", CASE key = "none" -> "prompt" [] key = "S" -> "dispatch"
                       [] OTHER -> "echo")
  \/ Puts("console", "echo", "dispatch")
  \/ Puts("console", "d_note", "d_mode") \/ Puts("console", "d_text", "send")
  \/ Reply \/ Puts("console", "prompt", "unlock")
  \/ Unlock("console", IF key = "none" THEN "take" ELSE "getc")

-----------------------------------------------------------------------------
Init ==
  /\ pc = [worker |-> "receive", console |-> "init", timer |-> "take"]
  /\ wait = [t \in Tasks |-> "ready"] /\ holder = "none" /\ notified = {}
  /\ queue = <<>> /\ key = "none"
  /\ txFull = FALSE /\ rxRing = <<>> /\ typed = 0
  /\ timer = "off" /\ irq = FALSE /\ expired = 0
  /\ active = FALSE /\ sampleIrqs = 0 /\ frames = 0 /\ drops = 0
  /\ overlap = FALSE /\ mode = "idle"

Next == Worker \/ Console \/ TimerTask \/ Tick \/ TimerExpires \/ TimerIrq \/ UartIrq

\* The processor runs the task that may run, ticks come, and interrupts are
\* taken, for keys only when somebody types.
Fairness == /\ WF_vars(Worker) /\ WF_vars(Console) /\ WF_vars(TimerTask)
            /\ WF_vars(Tick) /\ WF_vars(TimerIrq) /\ WF_vars(txFull /\ UartIrq)

Spec == Init /\ [][Next]_vars /\ Fairness

-----------------------------------------------------------------------------
(* Type invariant: tasks, kernel objects and counters keep their ranges,   *)
(* and a task holds the mutex exactly in the code between take and give.   *)
TypeOK ==
  /\ wait \in [Tasks -> {"ready", "queue", "mutex", "notify", "tick"}]
  /\ holder \in Tasks \cup {"none"} /\ notified \subseteq Tasks
  /\ queue \in Seq(DOMAIN WorkerKind) /\ Len(queue) <= QueueLen
  /\ timer \in {"off", "on", "fired"} /\ {irq, active, txFull} \subseteq BOOLEAN
  /\ mode \in {"idle", "bench"}
  /\ \A t \in Tasks : pc[t] \in {"print", "unlock", "dispatch"} => holder = t

Samples(q) == {i \in 1 .. Len(q) : q[i] = "sample"}
InHand == Cardinality(Samples(queue)) + IF pc["worker"] = "sample" THEN 1 ELSE 0

(* The counters of @STAT add up: every sample interrupt of the stream is a *)
(* processed frame, a counted drop, or still under way, across stops and   *)
(* restarts.  It is due to the priorities and the mutex, and fails after a *)
(* start during which a timer armed by "r" fires.                          *)
SampleAccounting ==
  pc["console"] \notin {"w_irqs", "w_frames", "w_drops"} /\ ~overlap
    => sampleIrqs = frames + drops + InHand

(* main.c:359-363 prints the three counters as those of one stream.        *)
(* They do not always belong together: a sample of the timer that "r" has  *)
(* armed may come while "w" clears them, and stays in one of them only.    *)
CountersAgree ==
  pc["console"] \notin {"w_irqs", "w_frames", "w_drops"}
    => sampleIrqs = frames + drops + InHand

(* The signal pipeline and the benchmarks exclude each other: while one    *)
(* runs, the other is not active and no command can start it.              *)
BenchmarkExclusive ==
  pc["worker"] = "bench" => ~active /\ mode = "bench"

(* A command always finds room in the queue, although samples may fill it: *)
(* "queue busy" is never the answer.                                       *)
QueueRoom == pc["console"] = "send" => Len(queue) < QueueLen

(* The sample stream stays whole: its counters, its exclusion of the       *)
(* benchmarks and the room it leaves for commands.                         *)
StreamSound == SampleAccounting /\ BenchmarkExclusive /\ QueueRoom

(* Every key that was typed is answered, and every task that wants to      *)
(* print has printed, although a holder of the mutex may sleep on a full   *)
(* ring and the console's wakeups are counted, not queued.                 *)
KeysServed == (typed > 0) ~> /\ rxRing = <<>> /\ pc["console"] = "take"
                             /\ \A t \in Tasks : pc[t] # "lock"
=============================================================================
