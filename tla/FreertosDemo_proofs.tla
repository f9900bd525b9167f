------------------------ MODULE FreertosDemo_proofs ------------------------
(***************************************************************************)
(* No assertion of the qualification image fails, for SPI transfers of any *)
(* length and every interleaving of tasks, ticks and interrupts; and the   *)
(* calls of the board support package keep claims apart, for any           *)
(* priorities and thresholds.                                              *)
(***************************************************************************)
EXTENDS FreertosDemo, Bsp, SequenceTheorems, TLAPS

-----------------------------------------------------------------------------
(* The inductive invariant of the image.                                   *)

Armed == {"load", "store", "end"}                       \* of the trigger
Woken == {"take mutex", "give mutex", "load", "store", "end"}  \* of the consumer
Early == {"start", "take mutex", "give mutex", "spi init"}     \* of the trigger

Places ==
  /\ wait \in [Tasks -> {"ready", "tick", "notify", "deleted"}]
  /\ pc = [t \in Tasks |-> pc[t]]
  /\ pc["consumer"] \in {"start", "receive", "take"} \cup Woken
  /\ pc["trigger"] \in Early \cup {"transmit", "wait idle", "check polled",
                                   "first byte", "spin", "arm"} \cup Armed
  /\ pc["yield_a"] \in {"start", "spin", "delay", "load", "store", "end"}
  /\ pc["yield_b"] \in {"start", "load", "store", "end"}

\* The consumer looks into the empty queue before the trigger, which has the
\* lowest priority, gets past its first delay.
ConsumerFirst ==
  /\ pc["consumer"] = "start" => wait["consumer"] = "ready" /\ pc["trigger"] = "start"
  /\ pc["consumer"] = "receive" => wait["consumer"] \in {"ready", "tick"}
  /\ pc["consumer"] = "receive" =>
       \/ pc["trigger"] = "start"
       \/ /\ pc["trigger"] = "take mutex"
          /\ wait["consumer"] = "ready" \/ wait["trigger"] = "tick"

\* One expiry of the timer, of which the event and then the notification tell.
EventOnce ==
  /\ {timer, notified} \subseteq BOOLEAN
  /\ timer \/ notified \/ pc["consumer"] \in Woken => pc["trigger"] \in Armed
  /\ "timer" \in irqs => timer
  /\ timer => ~notified
  /\ timer \/ notified => pc["consumer"] \notin Woken
  /\ events = IF notified THEN 1 ELSE 0

HeldBy ==
  /\ pc["consumer"] = "give mutex" => mutex = "consumer"
  /\ pc["trigger"] = "give mutex" => mutex = "trigger"
  /\ pc["consumer"] # "give mutex" /\ pc["trigger"] # "give mutex" => mutex = "none"

Bytes(from, n) == [i \in 1 .. n |-> from + i]

Registers ==
  /\ spi \in [busy : BOOLEAN, done : BOOLEAN, irqEn : BOOLEAN, data : Nat]
  /\ async \in [active : BOOLEAN, index : Nat] /\ asyncDone \in BOOLEAN

\* Nothing is under way, and no interrupt can come.
Still == ~spi.busy /\ ~async.active /\ ~spi.irqEn /\ "spi" \notin irqs

PolledBytes(n) ==
  /\ rx = Bytes(0, n) /\ n < PolledLen
  /\ ~async.active /\ ~spi.irqEn /\ "spi" \notin irqs

Answering ==
  /\ async.active /\ spi.irqEn /\ async.index < AsyncLen
  /\ rx = Bytes(PolledLen, async.index)
  /\ \/ spi.busy /\ spi.data = PolledLen + async.index /\ "spi" \notin irqs
     \/ /\ ~spi.busy /\ spi.done /\ "spi" \in irqs
        /\ spi.data = PolledLen + async.index + 1

Answered ==
  /\ Still /\ rx = Bytes(PolledLen, AsyncLen)
  /\ spi.data = PolledLen + AsyncLen /\ async.index = AsyncLen

\* The n-th byte is answered by n, and taken before the next is sent.
Transfers ==
  /\ Registers
  /\ pc["trigger"] \in Early => Still /\ spi.data = 0 /\ async.index = 0
  /\ pc["trigger"] = "transmit" =>
       \E n \in Nat : PolledBytes(n) /\ ~spi.busy /\ spi.data = n /\ async.index = 0
  /\ pc["trigger"] = "wait idle" =>
       \E n \in Nat : /\ PolledBytes(n) /\ async.index = 0
                      /\ spi.data = IF spi.busy THEN n ELSE n + 1
  /\ pc["trigger"] = "check polled" =>
       Still /\ rx = Bytes(0, PolledLen) /\ spi.data = PolledLen /\ async.index = 0
  /\ pc["trigger"] = "first byte" =>
       /\ async.active /\ async.index = 0 /\ rx = <<>> /\ ~asyncDone
       /\ spi.irqEn /\ ~spi.busy /\ spi.data = PolledLen /\ "spi" \notin irqs
  /\ pc["trigger"] = "spin" => IF asyncDone THEN Answered ELSE Answering
  /\ pc["trigger"] \in {"arm"} \cup Armed => Answered

Records ==
  /\ {armed, sliced, passed} \subseteq BOOLEAN
  /\ done \subseteq Tasks /\ copy \in [Tasks -> SUBSET Tasks]
  /\ irqs \subseteq {"spi", "timer"}

IInv == /\ ~fault /\ Places /\ ConsumerFirst /\ EventOnce /\ HeldBy
        /\ Transfers /\ Records
-----------------------------------------------------------------------------
(* Tasks, priorities and bytes.                                            *)

LEMMA TaskNames == Tasks = {"consumer", "yield_a", "yield_b", "trigger"}
BY DEF Tasks, Prio

LEMMA LowestPriority ==
  ASSUME NEW where, At("trigger", where)
  PROVE  wait["consumer"] # "ready"
<1>1. Prio["consumer"] = 2 /\ Prio["trigger"] = 0
  BY DEF Prio
<1>. QED  BY <1>1, TaskNames DEF At, Ready

LEMMA BytesGrow ==
  ASSUME NEW from \in Nat, NEW n \in Nat
  PROVE  /\ Bytes(from, n) \in Seq(Nat) /\ Len(Bytes(from, n)) = n
         /\ Append(Bytes(from, n), from + n + 1) = Bytes(from, n + 1)
<1>1. \A m \in Nat : /\ Bytes(from, m) \in Seq(Nat) /\ Len(Bytes(from, m)) = m
                     /\ \A i \in 1 .. m : Bytes(from, m)[i] = from + i
  BY DEF Bytes
<1>2. from + n + 1 \in Nat /\ n + 1 \in Nat
  OBVIOUS
<1>. DEFINE s == Append(Bytes(from, n), from + n + 1)
            t == Bytes(from, n + 1)
<1>3. /\ s \in Seq(Nat) /\ Len(s) = n + 1
      /\ \A i \in 1 .. n : s[i] = Bytes(from, n)[i]
      /\ s[n + 1] = from + n + 1
  <2>. DEFINE b == Bytes(from, n)
              x == from + n + 1
  <2>1. b \in Seq(Nat) /\ Len(b) = n /\ x \in Nat
    BY <1>1, <1>2
  <2>. HIDE DEF b, x
  <2>2. /\ Append(b, x) \in Seq(Nat) /\ Len(Append(b, x)) = Len(b) + 1
        /\ \A i \in 1 .. Len(b) : Append(b, x)[i] = b[i]
        /\ Append(b, x)[Len(b) + 1] = x
    BY <2>1, AppendProperties
  <2>. QED  BY <2>1, <2>2 DEF b, x
<1>4. t \in Seq(Nat) /\ Len(t) = n + 1 /\ \A i \in 1 .. n + 1 : t[i] = from + i
  BY <1>1, <1>2
<1>. HIDE DEF s, t
<1>5. ASSUME NEW i \in 1 .. n + 1
      PROVE  s[i] = t[i]
  <2>1. CASE i \in 1 .. n
    BY <1>1, <1>3, <1>4, <2>1
  <2>2. CASE i = n + 1
    <3>. t[n + 1] = from + (n + 1)
      BY <1>2, <1>4
    <3>. QED  BY <1>3, <2>2
  <2>. QED  BY <2>1, <2>2
<1>7. s = t
  BY <1>3, <1>4, <1>5, SeqEqual
<1>. QED  BY <1>1, <1>7 DEF s, t

LEMMA BytesEmpty ==
  ASSUME NEW from
  PROVE  Bytes(from, 0) = <<>>
BY DEF Bytes

LEMMA Lengths == PolledLen \in Nat /\ PolledLen > 0 /\ AsyncLen \in Nat /\ AsyncLen > 0
BY DemoAssumption

-----------------------------------------------------------------------------
(* Steps that leave a part of the state as it is.                          *)

LEMMA KeepsTransfers ==
  ASSUME Transfers, UNCHANGED bus, ("spi" \in irqs') <=> ("spi" \in irqs),
         pc'["trigger"] = pc["trigger"]
  PROVE  Transfers'
BY DEF Transfers, Registers, Still, PolledBytes, Answering, Answered, bus

LEMMA KeepsEarly ==
  ASSUME Transfers, UNCHANGED <<bus, irqs>>,
         pc["trigger"] \in Early, pc'["trigger"] \in Early
  PROVE  Transfers'
BY DEF Transfers, Registers, Still, Early, Armed, bus

LEMMA KeepsArmed ==
  ASSUME Transfers, UNCHANGED <<bus, irqs>>,
         pc["trigger"] \in Armed, pc'["trigger"] \in Armed
  PROVE  Transfers'
BY DEF Transfers, Registers, Still, Answered, Early, Armed, bus

LEMMA KeepsRecords ==
  ASSUME Records, UNCHANGED <<slice, marks, irqs, passed>>
  PROVE  Records'
BY DEF Records, slice, marks

LEMMA StartsIn ==
  ASSUME Init
  PROVE  IInv
<1>1. /\ pc = [t \in Tasks |-> pc[t]] /\ \A t \in Tasks : pc[t] = "start"
      /\ \A t \in Tasks : wait[t] = "ready"
      /\ wait \in [Tasks -> {"ready", "tick", "notify", "deleted"}]
  <2>1. /\ pc = [t \in Tasks |-> "start"] /\ wait = [t \in Tasks |-> "ready"]
    BY DEF Init
  <2>. QED  BY <2>1
<1>2. Places /\ ConsumerFirst /\ HeldBy /\ ~fault
  BY <1>1, TaskNames DEF Init, Places, ConsumerFirst, HeldBy, Early, Armed, Woken
<1>3. EventOnce
  BY <1>1, TaskNames DEF Init, EventOnce, Woken, Armed
<1>4. Transfers
  BY <1>1, TaskNames DEF Init, Transfers, Registers, Still, Early, Armed
<1>5. Records
  BY <1>1 DEF Init, Records
<1>. QED  BY <1>2, <1>3, <1>4, <1>5 DEF IInv
-----------------------------------------------------------------------------
(* Each step of a task, of the tick, of the devices and of the handler     *)
(* preserves the invariant.                                                *)

LEMMA DelaySteps ==
  ASSUME IInv, NEW t \in Tasks, NEW here, NEW next, Delay(t, here, next),
         \/ t = "consumer" /\ here = "start" /\ next = "receive"
         \/ t = "trigger" /\ here = "start" /\ next = "take mutex"
         \/ t = "yield_a" /\ here = "delay" /\ next = "load"
         \/ t = "yield_b" /\ here = "start" /\ next = "load"
  PROVE  IInv'
<1>1. /\ ~fault /\ Places /\ ConsumerFirst /\ EventOnce /\ HeldBy /\ Transfers /\ Records
      /\ pc' = [pc EXCEPT ![t] = next] /\ wait' = [wait EXCEPT ![t] = "tick"]
      /\ UNCHANGED <<sync, slice, marks, bus, timer, irqs, ends>>
      /\ pc[t] = here
      /\ t = "trigger" => wait["consumer"] # "ready"
  BY LowestPriority DEF IInv, Delay, Goto, Sleep, At
<1>2. ~fault' /\ Records'
  BY <1>1, KeepsRecords DEF ends
<1>3. Places'
  BY <1>1, TaskNames DEF Places, Woken, Early, Armed
<1>4. ConsumerFirst'
  BY <1>1, TaskNames DEF ConsumerFirst, Places
<1>5. EventOnce'
  BY <1>1, TaskNames DEF EventOnce, Places, Woken, Armed, sync
<1>6. HeldBy'
  BY <1>1, TaskNames DEF HeldBy, Places, sync
<1>7. Transfers'
  BY <1>1, TaskNames, KeepsTransfers, KeepsEarly DEF Places, Early
<1>. QED  BY <1>2, <1>3, <1>4, <1>5, <1>6, <1>7 DEF IInv

LEMMA TickSteps ==
  ASSUME IInv, Tick
  PROVE  IInv'
<1>1. /\ ~fault /\ Places /\ ConsumerFirst /\ EventOnce /\ HeldBy /\ Transfers /\ Records
      /\ UNCHANGED <<pc, sync, marks, bus, timer, irqs, ends>>
      /\ wait' = [t \in Tasks |-> IF wait[t] = "tick" THEN "ready" ELSE wait[t]]
      /\ sliced' = (sliced \/ armed)
      /\ armed' = (armed /\ sliced)
  BY DEF IInv, Tick
<1>2. ~fault' /\ Records'
  <2>1. armed' = (armed /\ sliced) /\ sliced' = (sliced \/ armed)
    BY <1>1
  <2>2. armed' \in BOOLEAN
    <3>. (armed /\ sliced) \in BOOLEAN
      OBVIOUS
    <3>. QED  BY <2>1, Zenon
  <2>3. sliced' \in BOOLEAN
    <3>. (sliced \/ armed) \in BOOLEAN
      OBVIOUS
    <3>. QED  BY <2>1, Zenon
  <2>. QED  BY <1>1, <2>2, <2>3 DEF ends, Records, marks
<1>3. Places'
  BY <1>1, TaskNames DEF Places, Woken, Early, Armed
<1>4. ConsumerFirst'
  BY <1>1, TaskNames DEF ConsumerFirst, Places
<1>5. EventOnce'
  BY <1>1, TaskNames DEF EventOnce, Places, Woken, Armed, sync
<1>6. HeldBy'
  BY <1>1, TaskNames DEF HeldBy, Places, sync
<1>7. Transfers'
  BY <1>1, KeepsTransfers
<1>. QED  BY <1>2, <1>3, <1>4, <1>5, <1>6, <1>7 DEF IInv

LEMMA TakeMutexSteps ==
  ASSUME IInv, NEW t \in {"consumer", "trigger"}, TakeMutex(t)
  PROVE  IInv'
<1>1. /\ ~fault /\ Places /\ ConsumerFirst /\ EventOnce /\ HeldBy /\ Transfers /\ Records
      /\ pc' = [pc EXCEPT ![t] = "give mutex"] /\ wait' = wait
      /\ UNCHANGED <<notified, events, slice, marks, bus, timer, irqs, passed>>
      /\ pc[t] = "take mutex" /\ mutex' = t /\ fault' = ~(mutex = "none")
      /\ t = "trigger" => wait["consumer"] # "ready" /\ wait["trigger"] = "ready"
  BY LowestPriority DEF IInv, TakeMutex, Go, Goto, At, Ready, Assert
<1>2. ~fault'
  BY <1>1 DEF HeldBy, EventOnce, Places, Woken, Armed
<1>3. Places' /\ Records'
  BY <1>1, TaskNames, KeepsRecords DEF Places, Woken, Early, Armed
<1>4. ConsumerFirst'
  BY <1>1, TaskNames DEF ConsumerFirst, Places
<1>5. EventOnce'
  BY <1>1, TaskNames DEF EventOnce, Places, Woken, Armed
<1>6. HeldBy'
  BY <1>1, TaskNames DEF HeldBy, EventOnce, Places, Woken, Armed
<1>7. Transfers'
  BY <1>1, TaskNames, KeepsTransfers, KeepsEarly DEF Places, Early
<1>. QED  BY <1>2, <1>3, <1>4, <1>5, <1>6, <1>7 DEF IInv
LEMMA GiveMutexSteps ==
  ASSUME IInv, NEW t, NEW next, GiveMutex(t, next),
         \/ t = "consumer" /\ next = "load"
         \/ t = "trigger" /\ next = "spi init"
  PROVE  IInv'
<1>1. /\ ~fault /\ Places /\ ConsumerFirst /\ EventOnce /\ HeldBy /\ Transfers /\ Records
      /\ pc' = [pc EXCEPT ![t] = next] /\ wait' = wait
      /\ UNCHANGED <<notified, events, slice, marks, bus, timer, irqs, passed>>
      /\ pc[t] = "give mutex" /\ mutex' = "none" /\ fault' = ~(mutex = t)
  BY DEF IInv, GiveMutex, Go, Goto, At, Ready, Assert
<1>2. ~fault'
  BY <1>1 DEF HeldBy
<1>3. Places' /\ Records'
  BY <1>1, TaskNames, KeepsRecords DEF Places, Woken, Early, Armed
<1>4. ConsumerFirst'
  BY <1>1, TaskNames DEF ConsumerFirst, Places
<1>5. EventOnce'
  BY <1>1, TaskNames DEF EventOnce, Places, Woken, Armed
<1>6. HeldBy'
  BY <1>1, TaskNames DEF HeldBy, EventOnce, Places, Woken, Armed
<1>7. Transfers'
  BY <1>1, TaskNames, KeepsTransfers, KeepsEarly DEF Places, Early
<1>. QED  BY <1>2, <1>3, <1>4, <1>5, <1>6, <1>7 DEF IInv

LEMMA LoadMarksSteps ==
  ASSUME IInv, NEW t \in Tasks, LoadMarks(t)
  PROVE  IInv'
<1>1. /\ ~fault /\ Places /\ ConsumerFirst /\ EventOnce /\ HeldBy /\ Transfers /\ Records
      /\ pc' = [pc EXCEPT ![t] = "store"] /\ wait' = wait
      /\ UNCHANGED <<sync, slice, done, recorded, bus, timer, irqs, ends>>
      /\ pc[t] = "load" /\ copy' = [copy EXCEPT ![t] = done]
  BY DEF IInv, LoadMarks, Go, Goto, At
<1>2. ~fault' /\ Records'
  BY <1>1 DEF ends, Records, slice
<1>3. Places'
  BY <1>1, TaskNames DEF Places, Woken, Early, Armed
<1>4. ConsumerFirst'
  BY <1>1, TaskNames DEF ConsumerFirst, Places
<1>5. EventOnce'
  BY <1>1, TaskNames DEF EventOnce, Places, Woken, Armed, sync
<1>6. HeldBy'
  BY <1>1, TaskNames DEF HeldBy, Places, sync
<1>7. Transfers'
  BY <1>1, TaskNames, KeepsTransfers, KeepsArmed DEF Places, Armed
<1>. QED  BY <1>2, <1>3, <1>4, <1>5, <1>6, <1>7 DEF IInv

LEMMA StoreMarksSteps ==
  ASSUME IInv, NEW t \in Tasks, StoreMarks(t)
  PROVE  IInv'
<1>1. /\ ~fault /\ Places /\ ConsumerFirst /\ EventOnce /\ HeldBy /\ Transfers /\ Records
      /\ pc' = [pc EXCEPT ![t] = "end"]
      /\ wait' = IF t = "consumer" THEN wait ELSE [wait EXCEPT ![t] = "deleted"]
      /\ UNCHANGED <<sync, slice, copy, bus, timer, irqs, ends>>
      /\ pc[t] = "store" /\ done' = copy[t] \cup {t}
  BY DEF IInv, StoreMarks, Goto, Sleep, At
<1>2. ~fault' /\ Records'
  BY <1>1 DEF ends, Records, slice
<1>3. Places'
  BY <1>1, TaskNames DEF Places, Woken, Early, Armed
<1>4. ConsumerFirst'
  BY <1>1, TaskNames DEF ConsumerFirst, Places
<1>5. EventOnce'
  BY <1>1, TaskNames DEF EventOnce, Places, Woken, Armed, sync
<1>6. HeldBy'
  BY <1>1, TaskNames DEF HeldBy, Places, sync
<1>7. Transfers'
  BY <1>1, TaskNames, KeepsTransfers, KeepsArmed DEF Places, Armed
<1>. QED  BY <1>2, <1>3, <1>4, <1>5, <1>6, <1>7 DEF IInv

LEMMA ConsumerFindsNothingSteps ==
  ASSUME IInv, ConsumerFindsNothing
  PROVE  IInv'
<1>1. /\ ~fault /\ Places /\ ConsumerFirst /\ EventOnce /\ HeldBy /\ Transfers /\ Records
      /\ pc' = [pc EXCEPT !["consumer"] = "take"] /\ wait' = wait
      /\ UNCHANGED <<sync, slice, marks, bus, timer, irqs, passed>>
      /\ pc["consumer"] = "receive" /\ fault' = ~(events = 0)
  BY DEF IInv, ConsumerFindsNothing, Goto, At, Assert
<1>2. ~fault'
  BY <1>1 DEF ConsumerFirst, EventOnce, Armed
<1>3. Places' /\ Records'
  BY <1>1, TaskNames, KeepsRecords DEF Places, Woken, Early, Armed
<1>4. ConsumerFirst'
  BY <1>1, TaskNames DEF ConsumerFirst, Places
<1>5. EventOnce'
  BY <1>1, TaskNames DEF EventOnce, Places, Woken, Armed, sync
<1>6. HeldBy'
  BY <1>1, TaskNames DEF HeldBy, Places, sync
<1>7. Transfers'
  BY <1>1, TaskNames, KeepsTransfers DEF Places
<1>. QED  BY <1>2, <1>3, <1>4, <1>5, <1>6, <1>7 DEF IInv

LEMMA ConsumerWakesSteps ==
  ASSUME IInv, ConsumerWakes
  PROVE  IInv'
<1>1. /\ ~fault /\ Places /\ ConsumerFirst /\ EventOnce /\ HeldBy /\ Transfers /\ Records
      /\ UNCHANGED <<mutex, slice, marks, bus, timer, irqs, passed>>
      /\ pc["consumer"] = "take"
  BY DEF IInv, ConsumerWakes, At
<1>2. CASE /\ notified /\ notified' = FALSE /\ events' = 0 /\ fault' = ~(events = 1)
           /\ pc' = [pc EXCEPT !["consumer"] = "take mutex"] /\ wait' = wait
  <2>2. ~fault'
    BY <1>1, <1>2 DEF EventOnce
  <2>3. Places' /\ Records'
    BY <1>1, <1>2, TaskNames, KeepsRecords DEF Places, Woken, Early, Armed
  <2>4. ConsumerFirst'
    BY <1>1, <1>2, TaskNames DEF ConsumerFirst, Places
  <2>5. EventOnce'
    BY <1>1, <1>2, TaskNames DEF EventOnce, Places, Woken, Armed
  <2>6. HeldBy'
    BY <1>1, <1>2, TaskNames DEF HeldBy, Places
  <2>7. Transfers'
    BY <1>1, <1>2, TaskNames, KeepsTransfers DEF Places
  <2>. QED  BY <2>2, <2>3, <2>4, <2>5, <2>6, <2>7 DEF IInv
<1>3. CASE /\ UNCHANGED <<pc, notified, events, fault>>
           /\ wait' = [wait EXCEPT !["consumer"] = "notify"]
  <2>3. Places' /\ Records'
    BY <1>1, <1>3, TaskNames, KeepsRecords DEF Places, Woken, Early, Armed
  <2>4. ConsumerFirst' /\ HeldBy' /\ EventOnce'
    BY <1>1, <1>3, TaskNames DEF ConsumerFirst, HeldBy, EventOnce, Places
  <2>7. Transfers'
    BY <1>1, <1>3, TaskNames, KeepsTransfers DEF Places
  <2>. QED  BY <1>1, <1>3, <2>3, <2>4, <2>7 DEF IInv
<1>. QED  BY <1>2, <1>3 DEF ConsumerWakes, Go, Goto, Sleep, Assert

LEMMA ConsumerChecksSteps ==
  ASSUME IInv, ConsumerChecks
  PROVE  IInv'
<1>1. /\ ~fault /\ Places /\ ConsumerFirst /\ EventOnce /\ HeldBy /\ Transfers /\ Records
      /\ UNCHANGED <<pc, sync, slice, marks, bus, timer, irqs, fault>>
      /\ pc["consumer"] = "end" /\ passed' \in BOOLEAN
      /\ \E why \in {"deleted", "tick"} : wait' = [wait EXCEPT !["consumer"] = why]
  BY DEF IInv, ConsumerChecks, At, Sleep, Records
<1>2. Records'
  BY <1>1 DEF Records, slice, marks
<1>3. Places'
  BY <1>1, TaskNames DEF Places, Woken, Early, Armed
<1>4. ConsumerFirst' /\ EventOnce' /\ HeldBy'
  BY <1>1, TaskNames DEF ConsumerFirst, EventOnce, HeldBy, Places, sync
<1>7. Transfers'
  BY <1>1, TaskNames, KeepsTransfers DEF Places
<1>. QED  BY <1>1, <1>2, <1>3, <1>4, <1>7 DEF IInv
-----------------------------------------------------------------------------
(* The trigger, which carries out both transfers.                          *)

LEMMA SpiInitSteps ==
  ASSUME IInv, SpiInit
  PROVE  IInv'
<1>1. /\ ~fault /\ Places /\ ConsumerFirst /\ EventOnce /\ HeldBy /\ Transfers /\ Records
      /\ pc' = [pc EXCEPT !["trigger"] = "transmit"] /\ wait' = wait
      /\ UNCHANGED <<sync, slice, marks, asyncDone, timer, irqs, ends>>
      /\ pc["trigger"] = "spi init"
      /\ wait["consumer"] # "ready" /\ wait["trigger"] = "ready"
      /\ spi' = [spi EXCEPT !.irqEn = FALSE, !.done = FALSE]
      /\ async' = [active |-> FALSE, index |-> 0] /\ rx' = <<>>
  BY LowestPriority DEF IInv, SpiInit, Go, Goto, At, Ready
<1>2. ~fault'
  BY <1>1 DEF ends
<1>7. Transfers'
  <2>1. Still /\ spi.data = 0 /\ Registers
    BY <1>1 DEF Transfers, Early
  <2>2. /\ pc'["trigger"] = "transmit" /\ Registers'
        /\ ~spi'.busy /\ ~spi'.irqEn /\ spi'.data = 0
        /\ ~async'.active /\ async'.index = 0 /\ "spi" \notin irqs'
    BY <1>1, <2>1, TaskNames DEF Registers, Still, Places
  <2>3. rx' = Bytes(0, 0) /\ 0 < PolledLen
    BY <1>1, BytesEmpty, Lengths
  <2>4. PolledBytes(0)'
    BY <2>2, <2>3 DEF PolledBytes
  <2>5. \E n \in Nat : (PolledBytes(n) /\ ~spi.busy /\ spi.data = n /\ async.index = 0)'
    BY <2>2, <2>4
  <2>. QED  BY <2>2, <2>5 DEF Transfers, Early, Armed
<1>3. Places' /\ Records'
  BY <1>1, TaskNames, KeepsRecords DEF Places, Woken, Early, Armed, ends
<1>4. ConsumerFirst'
  BY <1>1, TaskNames DEF ConsumerFirst, Places
<1>5. EventOnce'
  BY <1>1, TaskNames DEF EventOnce, Places, Woken, Armed, sync
<1>6. HeldBy'
  BY <1>1, TaskNames DEF HeldBy, Places, sync
<1>. QED  BY <1>2, <1>3, <1>4, <1>5, <1>6, <1>7 DEF IInv

LEMMA TransferStartsSteps ==
  ASSUME IInv, TransferStarts
  PROVE  IInv'
<1>1. /\ ~fault /\ Places /\ ConsumerFirst /\ EventOnce /\ HeldBy /\ Transfers /\ Records
      /\ pc' = [pc EXCEPT !["trigger"] = "wait idle"] /\ wait' = wait
      /\ UNCHANGED <<sync, slice, marks, async, asyncDone, rx, timer, irqs, passed>>
      /\ pc["trigger"] = "transmit"
      /\ wait["consumer"] # "ready" /\ wait["trigger"] = "ready"
      /\ spi' = Transmit /\ fault' = ~(~async.active)
  BY LowestPriority DEF IInv, TransferStarts, Go, Goto, At, Ready, Assert
<1>2. ~fault'
  BY <1>1 DEF Transfers, PolledBytes
<1>7. Transfers'
  <2>1. PICK n \in Nat : PolledBytes(n) /\ ~spi.busy /\ spi.data = n /\ async.index = 0
    BY <1>1 DEF Transfers
  <2>2. /\ pc'["trigger"] = "wait idle" /\ Registers'
        /\ spi'.busy /\ ~spi'.irqEn /\ spi'.data = n
    BY <1>1, <2>1, TaskNames DEF Transfers, Registers, PolledBytes, Places, Transmit
  <2>4. PolledBytes(n)' /\ async'.index = 0
    BY <1>1, <2>1, <2>2 DEF PolledBytes
  <2>. QED  BY <2>2, <2>4 DEF Transfers, Early, Armed
<1>3. Places' /\ Records'
  BY <1>1, TaskNames, KeepsRecords DEF Places, Woken, Early, Armed, ends
<1>4. ConsumerFirst'
  BY <1>1, TaskNames DEF ConsumerFirst, Places
<1>5. EventOnce'
  BY <1>1, TaskNames DEF EventOnce, Places, Woken, Armed, sync
<1>6. HeldBy'
  BY <1>1, TaskNames DEF HeldBy, Places, sync
<1>. QED  BY <1>2, <1>3, <1>4, <1>5, <1>6, <1>7 DEF IInv

LEMMA TransferByteSteps ==
  ASSUME IInv, TransferByte
  PROVE  IInv'
<1>1. /\ ~fault /\ Places /\ ConsumerFirst /\ EventOnce /\ HeldBy /\ Transfers /\ Records
      /\ pc' = [pc EXCEPT !["trigger"] = IF Len(rx') < PolledLen THEN "transmit" ELSE "check polled"] /\ wait' = wait
      /\ UNCHANGED <<sync, slice, marks, async, asyncDone, timer, irqs, ends>>
      /\ pc["trigger"] = "wait idle"
      /\ wait["consumer"] # "ready" /\ wait["trigger"] = "ready"
      /\ ~spi.busy /\ rx' = Append(rx, spi.data) /\ spi' = [spi EXCEPT !.done = FALSE]
  BY LowestPriority DEF IInv, TransferByte, Go, Goto, At, Ready
<1>2. ~fault'
  BY <1>1 DEF ends
<1>7. Transfers'
  <2>0. PICK n \in Nat : /\ PolledBytes(n) /\ async.index = 0
                         /\ spi.data = IF spi.busy THEN n ELSE n + 1
    BY <1>1 DEF Transfers
  <2>1. PolledBytes(n) /\ spi.data = n + 1 /\ async.index = 0
    BY <1>1, <2>0
  <2>2. rx' = Bytes(0, n + 1) /\ Len(rx') = n + 1
    <3>1. 0 \in Nat /\ n + 1 \in Nat
      OBVIOUS
    <3>2. Append(Bytes(0, n), 0 + n + 1) = Bytes(0, n + 1)
      BY <3>1, BytesGrow
    <3>3. Len(Bytes(0, n + 1)) = n + 1
      BY <3>1, BytesGrow
    <3>4. 0 + n + 1 = spi.data /\ rx = Bytes(0, n)
      BY <2>1 DEF PolledBytes
    <3>. QED  BY <1>1, <3>2, <3>3, <3>4
  <2>3. /\ Registers' /\ ~spi'.busy /\ ~spi'.irqEn /\ spi'.data = n + 1
        /\ ~async'.active /\ async'.index = 0 /\ "spi" \notin irqs'
    BY <1>1, <2>1 DEF Transfers, Registers, PolledBytes
  <2>4. CASE n + 1 < PolledLen
    <3>1. pc'["trigger"] = "transmit" /\ PolledBytes(n + 1)'
      BY <1>1, <2>2, <2>3, <2>4, TaskNames DEF PolledBytes, Places
    <3>2. \E m \in Nat : (PolledBytes(m) /\ ~spi.busy /\ spi.data = m /\ async.index = 0)'
      BY <2>3, <3>1
    <3>. QED  BY <2>3, <3>1, <3>2 DEF Transfers, Early, Armed
  <2>5. CASE n + 1 = PolledLen
    <3>1. pc'["trigger"] = "check polled"
      <4>. ~(Len(rx') < PolledLen)
        BY <2>2, <2>5, Lengths
      <4>. QED  BY <1>1, TaskNames DEF Places
    <3>. QED  BY <2>2, <2>3, <2>5, <3>1 DEF Transfers, Early, Armed, Still
  <2>6. n < PolledLen
    BY <2>1 DEF PolledBytes
  <2>. QED  BY <2>4, <2>5, <2>6, Lengths
<1>3. Places' /\ Records'
  BY <1>1, TaskNames, KeepsRecords DEF Places, Woken, Early, Armed, ends
<1>4. ConsumerFirst'
  BY <1>1, TaskNames DEF ConsumerFirst, Places
<1>5. EventOnce'
  BY <1>1, TaskNames DEF EventOnce, Places, Woken, Armed, sync
<1>6. HeldBy'
  BY <1>1, TaskNames DEF HeldBy, Places, sync
<1>. QED  BY <1>2, <1>3, <1>4, <1>5, <1>6, <1>7 DEF IInv

LEMMA StartAsyncSteps ==
  ASSUME IInv, StartAsync
  PROVE  IInv'
<1>1. /\ ~fault /\ Places /\ ConsumerFirst /\ EventOnce /\ HeldBy /\ Transfers /\ Records
      /\ pc' = [pc EXCEPT !["trigger"] = "first byte"] /\ wait' = wait
      /\ UNCHANGED <<sync, slice, marks, timer, irqs, passed>>
      /\ pc["trigger"] = "check polled"
      /\ wait["consumer"] # "ready" /\ wait["trigger"] = "ready"
      /\ fault' = ~(rx = [i \in 1 .. PolledLen |-> i] /\ ~async.active)
      /\ asyncDone' = FALSE /\ rx' = <<>> /\ async' = [active |-> TRUE, index |-> 0]
      /\ spi' = [spi EXCEPT !.irqEn = TRUE, !.done = FALSE]
  BY LowestPriority DEF IInv, StartAsync, Go, Goto, At, Ready, Assert
<1>2. ~fault'
  <2>1. Still /\ rx = Bytes(0, PolledLen)
    BY <1>1 DEF Transfers
  <2>2. rx = [i \in 1 .. PolledLen |-> i]
    BY <2>1, Lengths DEF Bytes
  <2>. QED  BY <1>1, <2>1, <2>2 DEF Still
<1>7. Transfers'
  <2>1. Still /\ spi.data = PolledLen /\ Registers
    BY <1>1 DEF Transfers
  <2>2. /\ pc'["trigger"] = "first byte" /\ Registers'
        /\ ~spi'.busy /\ spi'.irqEn /\ spi'.data = PolledLen /\ "spi" \notin irqs'
    BY <1>1, <2>1, TaskNames DEF Registers, Still, Places
  <2>. QED  BY <1>1, <2>2 DEF Transfers, Early, Armed
<1>3. Places' /\ Records'
  BY <1>1, TaskNames, KeepsRecords DEF Places, Woken, Early, Armed, ends
<1>4. ConsumerFirst'
  BY <1>1, TaskNames DEF ConsumerFirst, Places
<1>5. EventOnce'
  BY <1>1, TaskNames DEF EventOnce, Places, Woken, Armed, sync
<1>6. HeldBy'
  BY <1>1, TaskNames DEF HeldBy, Places, sync
<1>. QED  BY <1>2, <1>3, <1>4, <1>5, <1>6, <1>7 DEF IInv

LEMMA AsyncFirstByteSteps ==
  ASSUME IInv, AsyncFirstByte
  PROVE  IInv'
<1>1. /\ ~fault /\ Places /\ ConsumerFirst /\ EventOnce /\ HeldBy /\ Transfers /\ Records
      /\ pc' = [pc EXCEPT !["trigger"] = "spin"] /\ wait' = wait
      /\ UNCHANGED <<sync, slice, marks, async, asyncDone, rx, timer, irqs, ends>>
      /\ pc["trigger"] = "first byte"
      /\ wait["consumer"] # "ready" /\ wait["trigger"] = "ready"
      /\ spi' = Transmit
  BY LowestPriority DEF IInv, AsyncFirstByte, Go, Goto, At, Ready
<1>2. ~fault'
  BY <1>1 DEF ends
<1>7. Transfers'
  <2>1. /\ async.active /\ async.index = 0 /\ rx = <<>> /\ ~asyncDone /\ Registers
        /\ spi.irqEn /\ ~spi.busy /\ spi.data = PolledLen /\ "spi" \notin irqs
    BY <1>1 DEF Transfers
  <2>2. /\ pc'["trigger"] = "spin" /\ Registers'
        /\ spi'.busy /\ spi'.irqEn /\ spi'.data = PolledLen
    <3>. spi' = [spi EXCEPT !.busy = TRUE, !.done = FALSE]
      BY <1>1, <2>1 DEF Transmit
    <3>. QED  BY <1>1, <2>1, TaskNames DEF Registers, Places
  <2>3. rx' = Bytes(PolledLen, 0) /\ 0 < AsyncLen /\ PolledLen + 0 = PolledLen
    <3>1. rx' = <<>>
      BY <1>1, <2>1
    <3>2. 0 < AsyncLen /\ PolledLen + 0 = PolledLen
      BY Lengths
    <3>. QED  BY <3>1, <3>2, BytesEmpty
  <2>4. Answering' /\ ~asyncDone'
    BY <1>1, <2>1, <2>2, <2>3 DEF Answering
  <2>. QED  BY <2>2, <2>4 DEF Transfers, Early, Armed
<1>3. Places' /\ Records'
  BY <1>1, TaskNames, KeepsRecords DEF Places, Woken, Early, Armed, ends
<1>4. ConsumerFirst'
  BY <1>1, TaskNames DEF ConsumerFirst, Places
<1>5. EventOnce'
  BY <1>1, TaskNames DEF EventOnce, Places, Woken, Armed, sync
<1>6. HeldBy'
  BY <1>1, TaskNames DEF HeldBy, Places, sync
<1>. QED  BY <1>2, <1>3, <1>4, <1>5, <1>6, <1>7 DEF IInv

LEMMA AsyncEndsSteps ==
  ASSUME IInv, AsyncEnds
  PROVE  IInv'
<1>1. /\ ~fault /\ Places /\ ConsumerFirst /\ EventOnce /\ HeldBy /\ Transfers /\ Records
      /\ pc' = [pc EXCEPT !["trigger"] = "arm"] /\ wait' = wait
      /\ UNCHANGED <<sync, slice, marks, bus, timer, irqs, passed>>
      /\ pc["trigger"] = "spin"
      /\ wait["consumer"] # "ready" /\ wait["trigger"] = "ready"
      /\ asyncDone /\ fault' = ~(rx = [i \in 1 .. AsyncLen |-> PolledLen + i])
  BY LowestPriority DEF IInv, AsyncEnds, Go, Goto, At, Ready, Assert
<1>2. ~fault'
  BY <1>1 DEF Transfers, Answered, Bytes
<1>7. Transfers'
  <2>1. pc'["trigger"] = "arm" /\ Answered /\ Registers
    BY <1>1, TaskNames DEF Transfers, Places
  <2>2. Answered' /\ Registers'
    BY <1>1, <2>1 DEF Answered, Still, Registers, bus
  <2>. QED  BY <2>1, <2>2 DEF Transfers, Early, Armed
<1>3. Places' /\ Records'
  BY <1>1, TaskNames, KeepsRecords DEF Places, Woken, Early, Armed, ends
<1>4. ConsumerFirst'
  BY <1>1, TaskNames DEF ConsumerFirst, Places
<1>5. EventOnce'
  BY <1>1, TaskNames DEF EventOnce, Places, Woken, Armed, sync
<1>6. HeldBy'
  BY <1>1, TaskNames DEF HeldBy, Places, sync
<1>. QED  BY <1>2, <1>3, <1>4, <1>5, <1>6, <1>7 DEF IInv

LEMMA ArmTimerSteps ==
  ASSUME IInv, ArmTimer
  PROVE  IInv'
<1>1. /\ ~fault /\ Places /\ ConsumerFirst /\ EventOnce /\ HeldBy /\ Transfers /\ Records
      /\ pc' = [pc EXCEPT !["trigger"] = "load"] /\ wait' = wait
      /\ UNCHANGED <<sync, slice, marks, bus, irqs, ends>>
      /\ pc["trigger"] = "arm"
      /\ wait["consumer"] # "ready" /\ wait["trigger"] = "ready"
      /\ timer' = TRUE
  BY LowestPriority DEF IInv, ArmTimer, Go, Goto, At, Ready
<1>2. ~fault'
  BY <1>1 DEF ends
<1>7. Transfers'
  <2>1. pc'["trigger"] = "load" /\ Answered /\ Registers
    BY <1>1, TaskNames DEF Transfers, Places
  <2>2. Answered' /\ Registers'
    BY <1>1, <2>1 DEF Answered, Still, Registers, bus
  <2>. QED  BY <2>1, <2>2 DEF Transfers, Early, Armed
<1>3. Places' /\ Records'
  BY <1>1, TaskNames, KeepsRecords DEF Places, Woken, Early, Armed, ends
<1>4. ConsumerFirst'
  BY <1>1, TaskNames DEF ConsumerFirst, Places
<1>5. EventOnce'
  BY <1>1, TaskNames DEF EventOnce, Places, Woken, Armed, sync
<1>6. HeldBy'
  BY <1>1, TaskNames DEF HeldBy, Places, sync
<1>. QED  BY <1>2, <1>3, <1>4, <1>5, <1>6, <1>7 DEF IInv
-----------------------------------------------------------------------------
(* The two tasks that yield, the tick and the interrupts.                  *)

LEMMA YieldArmsSteps ==
  ASSUME IInv, YieldArms
  PROVE  IInv'
<1>1. /\ ~fault /\ Places /\ ConsumerFirst /\ EventOnce /\ HeldBy /\ Transfers /\ Records
      /\ pc' = [pc EXCEPT !["yield_a"] = "spin"] /\ wait' = wait /\ armed' = TRUE
      /\ UNCHANGED <<sync, sliced, marks, bus, timer, irqs, ends>>
  BY DEF IInv, YieldArms, Go, Goto, At
<1>2. ~fault' /\ Records'
  BY <1>1 DEF ends, Records, marks
<1>3. Places'
  BY <1>1, TaskNames DEF Places, Woken, Early, Armed
<1>4. ConsumerFirst' /\ EventOnce' /\ HeldBy'
  BY <1>1, TaskNames DEF ConsumerFirst, EventOnce, HeldBy, Places, sync
<1>7. Transfers'
  BY <1>1, TaskNames, KeepsTransfers DEF Places
<1>. QED  BY <1>2, <1>3, <1>4, <1>7 DEF IInv

LEMMA YieldSlicedSteps ==
  ASSUME IInv, YieldSliced
  PROVE  IInv'
<1>1. /\ ~fault /\ Places /\ ConsumerFirst /\ EventOnce /\ HeldBy /\ Transfers /\ Records
      /\ pc' = [pc EXCEPT !["yield_a"] = "delay"] /\ wait' = wait
      /\ UNCHANGED <<sync, slice, marks, bus, timer, irqs, ends>>
  BY DEF IInv, YieldSliced, Go, Goto, At
<1>2. ~fault' /\ Records'
  BY <1>1, KeepsRecords DEF ends
<1>3. Places'
  BY <1>1, TaskNames DEF Places, Woken, Early, Armed
<1>4. ConsumerFirst' /\ EventOnce' /\ HeldBy'
  BY <1>1, TaskNames DEF ConsumerFirst, EventOnce, HeldBy, Places, sync
<1>7. Transfers'
  BY <1>1, TaskNames, KeepsTransfers DEF Places
<1>. QED  BY <1>2, <1>3, <1>4, <1>7 DEF IInv

LEMMA TimerExpiresSteps ==
  ASSUME IInv, TimerExpires
  PROVE  IInv'
<1>1. /\ ~fault /\ Places /\ ConsumerFirst /\ EventOnce /\ HeldBy /\ Transfers /\ Records
      /\ timer /\ irqs' = irqs \cup {"timer"}
      /\ UNCHANGED <<sched, sync, slice, marks, bus, timer, ends>>
  BY DEF IInv, TimerExpires
<1>2. ~fault' /\ Records'
  BY <1>1 DEF ends, Records, slice, marks
<1>3. Places' /\ ConsumerFirst' /\ HeldBy'
  BY <1>1 DEF Places, ConsumerFirst, HeldBy, sched, sync
<1>4. EventOnce'
  BY <1>1 DEF EventOnce, sched, sync
<1>7. Transfers'
  BY <1>1, KeepsTransfers DEF sched
<1>. QED  BY <1>2, <1>3, <1>4, <1>7 DEF IInv

LEMMA TimerIrqSteps ==
  ASSUME IInv, TimerIrq
  PROVE  IInv'
<1>1. /\ ~fault /\ Places /\ ConsumerFirst /\ EventOnce /\ HeldBy /\ Transfers /\ Records
      /\ "timer" \in irqs /\ irqs' = irqs \ {"timer"} /\ timer' = FALSE
      /\ fault' = ~(events < 1) /\ events' = 1 /\ notified' = TRUE
      /\ wait' = [wait EXCEPT !["consumer"] = IF @ = "notify" THEN "ready" ELSE @]
      /\ UNCHANGED <<pc, mutex, slice, marks, bus, passed>>
  BY DEF IInv, TimerIrq, Assert
<1>2. ~fault'
  BY <1>1 DEF EventOnce
<1>3. Places' /\ Records'
  BY <1>1, TaskNames DEF Places, Records, Woken, Early, Armed, slice, marks
<1>4. ConsumerFirst' /\ HeldBy'
  BY <1>1, TaskNames DEF ConsumerFirst, HeldBy, Places
<1>5. EventOnce'
  BY <1>1 DEF EventOnce
<1>7. Transfers'
  BY <1>1, KeepsTransfers
<1>. QED  BY <1>2, <1>3, <1>4, <1>5, <1>7 DEF IInv

LEMMA SpiShiftsSteps ==
  ASSUME IInv, SpiShifts
  PROVE  IInv'
<1>1. /\ ~fault /\ Places /\ ConsumerFirst /\ EventOnce /\ HeldBy /\ Transfers /\ Records
      /\ spi.busy /\ spi' = [spi EXCEPT !.busy = FALSE, !.done = TRUE, !.data = @ + 1]
      /\ irqs' = IF spi.irqEn THEN irqs \cup {"spi"} ELSE irqs
      /\ UNCHANGED <<sched, sync, slice, marks, async, asyncDone, rx, timer, ends>>
  BY DEF IInv, SpiShifts
<1>2. ~fault' /\ Records'
  BY <1>1 DEF ends, Records, slice, marks
<1>3. Places' /\ ConsumerFirst' /\ HeldBy'
  BY <1>1 DEF Places, ConsumerFirst, HeldBy, sched, sync
<1>4. EventOnce'
  BY <1>1 DEF EventOnce, sched, sync
<1>5. pc' = pc /\ Registers /\ Registers' /\ ~spi'.busy /\ spi'.done
      /\ spi'.irqEn = spi.irqEn /\ spi'.data = spi.data + 1
  <2>1. pc' = pc /\ Registers
    BY <1>1 DEF Transfers, sched
  <2>2. ~spi'.busy /\ spi'.done /\ spi'.irqEn = spi.irqEn /\ spi'.data = spi.data + 1
    <3>1. spi'.busy = FALSE /\ spi'.done = TRUE /\ spi'.irqEn = spi.irqEn
      BY <1>1, <2>1 DEF Registers
    <3>2. spi'.data = spi.data + 1
      BY <1>1, <2>1 DEF Registers
    <3>. QED  BY <3>1, <3>2
  <2>3. Registers'
    <3>1. spi.data + 1 \in Nat
      BY <2>1 DEF Registers
    <3>. QED  BY <1>1, <2>1, <3>1 DEF Registers
  <2>. QED  BY <2>1, <2>2, <2>3
<1>6. pc["trigger"] = "wait idle" \/ (pc["trigger"] = "spin" /\ ~asyncDone)
  <2>1. ~Still /\ ~Answered
    BY <1>1 DEF Still, Answered
  <2>2. /\ pc["trigger"] \notin Early \cup {"check polled", "arm"} \cup Armed
        /\ pc["trigger"] = "spin" => ~asyncDone
    BY <1>1, <2>1 DEF Transfers
  <2>3. pc["trigger"] # "transmit"
    BY <1>1 DEF Transfers
  <2>4. pc["trigger"] # "first byte"
    BY <1>1 DEF Transfers
  <2>. QED  BY <1>1, <2>2, <2>3, <2>4 DEF Places
<1>7. Transfers'
  <2>1. CASE pc["trigger"] = "wait idle"
    <3>1. PICK n \in Nat : /\ PolledBytes(n) /\ async.index = 0
                           /\ spi.data = IF spi.busy THEN n ELSE n + 1
      BY <1>1, <2>1 DEF Transfers
    <3>2. PolledBytes(n)' /\ async'.index = 0 /\ spi'.data = n + 1
      BY <1>1, <1>5, <3>1 DEF PolledBytes
    <3>3. \E m \in Nat : (/\ PolledBytes(m) /\ async.index = 0
                          /\ spi.data = IF spi.busy THEN m ELSE m + 1)'
      BY <1>5, <3>2
    <3>. QED  BY <1>5, <2>1, <3>3 DEF Transfers, Early, Armed
  <2>2. CASE pc["trigger"] = "spin" /\ ~asyncDone
    <3>1. Answering
      BY <1>1, <2>2 DEF Transfers
    <3>2. Answering' /\ ~asyncDone'
      <4>1. /\ async.active /\ spi.irqEn /\ async.index < AsyncLen /\ async.index \in Nat
            /\ rx = Bytes(PolledLen, async.index)
            /\ spi.data = PolledLen + async.index /\ "spi" \notin irqs
        BY <1>1, <1>5, <3>1 DEF Answering, Registers
      <4>. QED  BY <1>1, <1>5, <2>2, <4>1, Lengths DEF Answering
    <3>. QED  BY <1>5, <2>2, <3>2 DEF Transfers, Early, Armed
  <2>. QED  BY <1>6, <2>1, <2>2
<1>. QED  BY <1>2, <1>3, <1>4, <1>7 DEF IInv

LEMMA SpiIrqSteps ==
  ASSUME IInv, SpiIrq
  PROVE  IInv'
<1>1. /\ ~fault /\ Places /\ ConsumerFirst /\ EventOnce /\ HeldBy /\ Transfers /\ Records
      /\ "spi" \in irqs /\ irqs' = irqs \ {"spi"} /\ SpiHandler
      /\ UNCHANGED <<sched, sync, slice, marks, timer, ends>>
  BY DEF IInv, SpiIrq
<1>2. ~fault' /\ Records'
  BY <1>1 DEF ends, Records, slice, marks
<1>3. Places' /\ ConsumerFirst' /\ HeldBy'
  BY <1>1 DEF Places, ConsumerFirst, HeldBy, sched, sync
<1>4. EventOnce'
  BY <1>1 DEF EventOnce, sched, sync
<1>5. pc["trigger"] = "spin" /\ ~asyncDone /\ pc' = pc /\ Registers
  BY <1>1 DEF Transfers, Places, Still, PolledBytes, Answered, sched
<1>6. /\ async.active /\ spi.irqEn /\ async.index < AsyncLen
      /\ rx = Bytes(PolledLen, async.index) /\ ~spi.busy /\ spi.done
      /\ spi.data = PolledLen + async.index + 1 /\ async.index \in Nat
  BY <1>1, <1>5 DEF Transfers, Answering, Registers
<1>7. Transfers'
  <2>. DEFINE last == async.index + 1 = AsyncLen
  <2>1. /\ rx' = Append(rx, spi.data)
        /\ async' = [active |-> ~last, index |-> async.index + 1]
        /\ spi' = [spi EXCEPT !.done = FALSE, !.busy = ~last, !.irqEn = ~last]
        /\ asyncDone' = last
    BY <1>1, <1>6 DEF SpiHandler
  <2>2. rx' = Bytes(PolledLen, async.index + 1)
    BY <1>6, <2>1, BytesGrow, Lengths
  <2>3. async.index + 1 \in Nat /\ spi.data \in Nat
    BY <1>5, <1>6 DEF Registers
  <2>5. CASE last
    <3>1. /\ async' = [active |-> FALSE, index |-> async.index + 1] /\ asyncDone' = TRUE
          /\ spi' = [spi EXCEPT !.done = FALSE, !.busy = FALSE, !.irqEn = FALSE]
      BY <2>1, <2>5
    <3>2. Registers' /\ asyncDone'
      BY <1>5, <2>3, <3>1 DEF Registers
    <3>3. /\ async'.index = AsyncLen /\ ~async'.active /\ ~spi'.busy /\ ~spi'.irqEn
          /\ spi'.data = PolledLen + AsyncLen
      BY <1>5, <1>6, <2>3, <2>5, <3>1, Lengths DEF Registers
    <3>4. rx' = Bytes(PolledLen, AsyncLen) /\ "spi" \notin irqs'
      BY <1>1, <2>2, <2>5
    <3>5. Answered'
      BY <3>3, <3>4 DEF Answered, Still
    <3>. QED  BY <1>5, <3>2, <3>5 DEF Transfers, Early, Armed
  <2>6. CASE ~last
    <3>1. /\ async' = [active |-> TRUE, index |-> async.index + 1] /\ asyncDone' = FALSE
          /\ spi' = [spi EXCEPT !.done = FALSE, !.busy = TRUE, !.irqEn = TRUE]
      BY <2>1, <2>6
    <3>2. Registers' /\ ~asyncDone'
      BY <1>5, <2>3, <3>1 DEF Registers
    <3>3. /\ async'.index = async.index + 1 /\ async'.active /\ spi'.busy /\ spi'.irqEn
          /\ spi'.data = PolledLen + (async.index + 1)
      BY <1>5, <1>6, <2>3, <3>1, Lengths DEF Registers
    <3>4. async.index + 1 < AsyncLen
      BY <1>6, <2>6, Lengths
    <3>5. Answering'
      BY <1>1, <2>2, <3>3, <3>4 DEF Answering
    <3>. QED  BY <1>5, <3>2, <3>5 DEF Transfers, Early, Armed
  <2>. QED  BY <2>5, <2>6
<1>. QED  BY <1>2, <1>3, <1>4, <1>7 DEF IInv

-----------------------------------------------------------------------------
(* The invariant holds in every state, and what follows from it.           *)

LEMMA NextSteps ==
  ASSUME IInv, [Next]_vars
  PROVE  IInv'
<1>1. ASSUME NEW t \in Tasks, Step(t)
      PROVE  IInv'
  <2>1. CASE LoadMarks(t) \/ StoreMarks(t)
    BY <2>1, LoadMarksSteps, StoreMarksSteps
  <2>2. CASE Consumer
    BY <2>2, DelaySteps, ConsumerFindsNothingSteps, ConsumerWakesSteps, TakeMutexSteps,
       GiveMutexSteps, ConsumerChecksSteps, TaskNames DEF Consumer
  <2>3. CASE Trigger
    BY <2>3, DelaySteps, TakeMutexSteps, GiveMutexSteps, SpiInitSteps,
       TransferStartsSteps, TransferByteSteps, StartAsyncSteps, AsyncFirstByteSteps,
       AsyncEndsSteps, ArmTimerSteps, TaskNames DEF Trigger
  <2>4. CASE Yields
    BY <2>4, DelaySteps, YieldArmsSteps, YieldSlicedSteps, TaskNames DEF Yields
  <2>. QED  BY <1>1, <2>1, <2>2, <2>3, <2>4 DEF Step
<1>2. CASE Hardware \/ Irq \/ Tick
  BY <1>2, SpiShiftsSteps, TimerExpiresSteps, TimerIrqSteps, SpiIrqSteps, TickSteps
  DEF Hardware, Irq
<1>3. CASE UNCHANGED vars
  <2>1. UNCHANGED <<pc, wait, notified, events, mutex, armed, sliced, done, copy, recorded,
                    bus, timer, irqs, fault, passed>>
    BY <1>3 DEF vars, sched, sync, slice, marks, ends
  <2>2. Transfers'
    <3>1. UNCHANGED bus /\ pc'["trigger"] = pc["trigger"]
      BY <2>1
    <3>2. ("spi" \in irqs') <=> ("spi" \in irqs)
      BY <2>1
    <3>3. Transfers
      BY DEF IInv
    <3>. QED  BY <3>1, <3>2, <3>3, KeepsTransfers
  <2>3. Places' /\ ConsumerFirst' /\ HeldBy'
    BY <2>1 DEF IInv, Places, ConsumerFirst, HeldBy
  <2>4. EventOnce'
    BY <2>1 DEF IInv, EventOnce
  <2>5. Records'
    BY <2>1 DEF IInv, Records
  <2>. QED  BY <2>1, <2>2, <2>3, <2>4, <2>5 DEF IInv
<1>. QED  BY <1>1, <1>2, <1>3 DEF Next
FaultType == fault \in BOOLEAN

LEMMA FaultSteps ==
  ASSUME fault \in BOOLEAN, [Next]_vars
  PROVE  fault' \in BOOLEAN
<1>1. ASSUME fault' = fault
      PROVE  fault' \in BOOLEAN
  BY <1>1
<1>2. ASSUME NEW t, TakeMutex(t)
      PROVE  fault' \in BOOLEAN
  BY <1>2 DEF TakeMutex, Assert
<1>3. ASSUME NEW t, NEW next, GiveMutex(t, next)
      PROVE  fault' \in BOOLEAN
  BY <1>3 DEF GiveMutex, Assert
<1>4. ASSUME TransferStarts \/ StartAsync \/ AsyncEnds \/ TimerIrq \/ ConsumerFindsNothing
      PROVE  fault' \in BOOLEAN
  BY <1>4 DEF TransferStarts, StartAsync, AsyncEnds, TimerIrq, ConsumerFindsNothing, Assert
<1>5. ASSUME ConsumerWakes
      PROVE  fault' \in BOOLEAN
  BY <1>5 DEF ConsumerWakes, Assert
<1>6. ASSUME NEW t, LoadMarks(t) \/ StoreMarks(t)
      PROVE  fault' = fault
  BY <1>6 DEF LoadMarks, StoreMarks, ends
<1>7. ASSUME NEW t, NEW here, NEW next, Delay(t, here, next)
      PROVE  fault' = fault
  BY <1>7 DEF Delay, ends
<1>8. ASSUME \/ ConsumerChecks \/ SpiInit \/ TransferByte \/ AsyncFirstByte \/ ArmTimer
             \/ YieldArms \/ YieldSliced \/ Hardware \/ SpiIrq \/ Tick \/ UNCHANGED vars
      PROVE  fault' = fault
  BY <1>8 DEF ConsumerChecks, SpiInit, TransferByte, AsyncFirstByte, ArmTimer, YieldArms,
     YieldSliced, Hardware, SpiShifts, TimerExpires, SpiIrq, Tick, ends, vars
<1>. QED  BY <1>1, <1>2, <1>3, <1>4, <1>5, <1>6, <1>7, <1>8
          DEF Next, Step, Consumer, Trigger, Yields, Irq

LEMMA Invariant ==
  Spec => []IInv
<1>1. Init => IInv
  BY StartsIn
<1>2. IInv /\ [Next]_vars => IInv'
  BY NextSteps
<1>. QED  BY <1>1, <1>2, PTL DEF Spec

(* Tasks, kernel objects, registers and byte counters keep their types and *)
(* ranges (type invariant of the image).                                   *)
THEOREM TypeCorrect ==
  Spec => []TypeOK
<1>1. IInv /\ FaultType => TypeOK
  <2>. HAVE IInv /\ FaultType
  <2>1. Places /\ EventOnce /\ HeldBy /\ Transfers /\ Records /\ ~fault
    BY DEF IInv
  <2>2. spi.data \in 0 .. PolledLen + AsyncLen /\ async.index \in 0 .. AsyncLen
    <3>1. spi.data \in Nat /\ async.index \in Nat
      BY <2>1 DEF Transfers, Registers
    <3>2. CASE pc["trigger"] \in Early \cup {"check polled", "first byte", "arm"} \cup Armed
      <4>1. spi.data \in {0, PolledLen, PolledLen + AsyncLen} /\ async.index \in {0, AsyncLen}
        BY <2>1, <3>2 DEF Transfers, Answered
      <4>. QED  BY <4>1, Lengths
    <3>3. CASE pc["trigger"] = "transmit"
      BY <2>1, <3>1, <3>3, Lengths DEF Transfers, PolledBytes
    <3>4. CASE pc["trigger"] = "wait idle"
      <4>1. PICK n \in Nat : /\ PolledBytes(n) /\ async.index = 0
                             /\ spi.data = IF spi.busy THEN n ELSE n + 1
        BY <2>1, <3>4 DEF Transfers
      <4>2. n < PolledLen
        BY <4>1 DEF PolledBytes
      <4>. QED  BY <3>1, <4>1, <4>2, Lengths
    <3>5. CASE pc["trigger"] = "spin"
      BY <2>1, <3>1, <3>5, Lengths DEF Transfers, Answered, Answering
    <3>. QED  BY <2>1, <3>2, <3>3, <3>4, <3>5 DEF Places
  <2>3. /\ spi \in [busy : BOOLEAN, done : BOOLEAN, irqEn : BOOLEAN,
                    data : 0 .. PolledLen + AsyncLen]
        /\ async \in [active : BOOLEAN, index : 0 .. AsyncLen] /\ asyncDone \in BOOLEAN
    BY <2>1, <2>2 DEF Transfers, Registers
  <2>4. mutex \in Tasks \cup {"none"} /\ events \in 0 .. 1
    <3>1. mutex \in {"consumer", "trigger", "none"}
      BY <2>1 DEF HeldBy
    <3>2. events = 0 \/ events = 1
      BY <2>1 DEF EventOnce
    <3>. QED  BY <3>1, <3>2, TaskNames
  <2>. QED  BY <2>1, <2>3, <2>4 DEF TypeOK, FaultType, Places, Records, EventOnce
<1>2. Init => FaultType
  BY DEF Init, FaultType
<1>3. FaultType /\ [Next]_vars => FaultType'
  BY FaultSteps DEF FaultType
<1>. QED  BY <1>1, <1>2, <1>3, Invariant, PTL DEF Spec

(* No assertion of the image fails, whatever the lengths of its transfers  *)
(* and however tasks, ticks and interrupts interleave: the event comes     *)
(* before its notification, the mutex is free when it is taken without     *)
(* waiting, one transfer is under way at a time, and the bytes of both     *)
(* arrive in order.                                                        *)
THEOREM AssertionsHold ==
  Spec => []AssertsHold
<1>1. IInv => AssertsHold
  BY DEF IInv, AssertsHold
<1>. QED  BY <1>1, Invariant, PTL
-----------------------------------------------------------------------------
(* The board support package: the inductive invariant.  A callee is in one *)
(* of four phases: it makes accesses that have nothing to do with a claim, *)
(* it is about to claim, it has claimed and dispatches, or it makes such   *)
(* accesses and then completes what it has claimed.                        *)

PlainThens == {"until expired", "start unless busy", "wait if started", "wait", "compare",
               "done", "fpu", "divided by zero", "dirty", "report"}

Plain ==
  UNION {{"load"} \X {"enable", "dma status", "timer status", "fflags", "fs"},
         {"then"} \X PlainThens,
         {"store"} \X {"priority"} \X [source : Sources, is : Levels],
         {"store"} \X {"threshold"} \X (0 .. 7),
         {"or", "andnot"} \X {"enable"} \X SUBSET Sources,
         {"store"} \X {"mie", "msip", "uart irq", "timer ctrl", "dma ctrl"} \X BOOLEAN,
         {"store"} \X {"gpio dir", "gpio out", "timer count"} \X (0 .. 2),
         {"store"} \X {"fs"} \X {"initial"},
         {"store"} \X {"fflags", "dma status"} \X {{}},
         {"compute"} \X {"fpu"} \X SUBSET {"dz"}}

MakesPlain(c) == held[c] = 0 /\ code[c] \in Seq(Plain)
AboutToClaim(c) == held[c] = 0 /\ code[c] = ExternalIrqHandler
HasClaimed(c) == code[c] = Then("dispatch") /\ loaded[c] = <<"claim", held[c]>>
Completes(c) == /\ held[c] \in Sources
                /\ \E before \in Seq(Plain) : code[c] = before \o PlicComplete(held[c])

InPhase(c) == MakesPlain(c) \/ AboutToClaim(c) \/ HasClaimed(c) \/ Completes(c)

BspShape ==
  /\ held \in [Callees -> Sources \cup {0}]
  /\ code = [c \in Callees |-> code[c]] /\ loaded = [c \in Callees |-> loaded[c]]
  /\ machine = [mie |-> machine.mie, trap |-> machine.trap]
  /\ plic \in [priority : [Sources -> Levels \cup {0}], threshold : {plic.threshold},
               on : {plic.on}, pending : SUBSET Sources, serving : SUBSET Sources]

BspIInv == /\ BspShape /\ \A c \in Callees : InPhase(c)
           /\ ~machine.trap => code["trap"] = <<>>
           /\ ClaimedOnce
-----------------------------------------------------------------------------
(* The calls, as sequences of accesses.                                    *)

LEMMA OneAccess ==
  ASSUME NEW a \in Plain
  PROVE  <<a>> \in Seq(Plain)
OBVIOUS

LEMMA PlainConcat ==
  ASSUME NEW s \in Seq(Plain), NEW t \in Seq(Plain)
  PROVE  s \o t \in Seq(Plain)
BY ConcatProperties

LEMMA NoAccess == <<>> \in Seq(Plain)
BY EmptySeq

LEMMA PlainAccesses ==
  /\ \A reg \in {"enable", "dma status", "timer status", "fflags", "fs"} :
       Load(reg) \in Seq(Plain)
  /\ \A what \in PlainThens : Then(what) \in Seq(Plain)
  /\ \A t \in 0 .. 7 : Store("threshold", t) \in Seq(Plain)
  /\ \A s \in Sources, l \in Levels : PlicSetPriority(s, l) \in Seq(Plain)
  /\ \A reg \in {"mie", "msip", "uart irq", "timer ctrl", "dma ctrl"} :
       Store(reg, TRUE) \in Seq(Plain) /\ Store(reg, FALSE) \in Seq(Plain)
  /\ \A reg \in {"gpio dir", "gpio out", "timer count"}, n \in 0 .. 2 :
       Store(reg, n) \in Seq(Plain)
  /\ \A reg \in {"fflags", "dma status"} : Store(reg, {}) \in Seq(Plain)
  /\ Store("fs", "initial") \in Seq(Plain)
  /\ \A raises \in SUBSET {"dz"} : FpCompute(raises) \in Seq(Plain)
  /\ \A bits \in SUBSET Sources :
       StoreOr("enable", bits) \in Seq(Plain) /\ StoreAndNot("enable", bits) \in Seq(Plain)
<1>1. \A reg \in {"enable", "dma status", "timer status", "fflags", "fs"} :
        <<"load", reg>> \in Plain
  BY DEF Plain
<1>2. \A what \in PlainThens : <<"then", what>> \in Plain
  BY DEF Plain
<1>3. \A t \in 0 .. 7 : <<"store", "threshold", t>> \in Plain
  BY DEF Plain
<1>4. \A s \in Sources, l \in Levels :
        <<"store", "priority", [source |-> s, is |-> l]>> \in Plain
  BY DEF Plain
<1>5. \A reg \in {"mie", "msip", "uart irq", "timer ctrl", "dma ctrl"} :
        <<"store", reg, TRUE>> \in Plain /\ <<"store", reg, FALSE>> \in Plain
  BY DEF Plain
<1>6. \A reg \in {"gpio dir", "gpio out", "timer count"}, n \in 0 .. 2 :
        <<"store", reg, n>> \in Plain
  BY DEF Plain
<1>7. \A reg \in {"fflags", "dma status"} : <<"store", reg, {}>> \in Plain
  BY DEF Plain
<1>8. <<"store", "fs", "initial">> \in Plain
  BY DEF Plain
<1>9. \A raises \in SUBSET {"dz"} : <<"compute", "fpu", raises>> \in Plain
  BY DEF Plain
<1>10. \A bits \in SUBSET Sources :
         <<"or", "enable", bits>> \in Plain /\ <<"andnot", "enable", bits>> \in Plain
  BY DEF Plain
<1>. QED
  BY <1>1, <1>2, <1>3, <1>4, <1>5, <1>6, <1>7, <1>8, <1>9, <1>10, OneAccess
  DEF Load, Then, Store, PlicSetPriority, FpCompute, StoreOr, StoreAndNot

LEMMA PlainCalls ==
  /\ TimerStart \in Seq(Plain) /\ TimerExpired \in Seq(Plain)
  /\ FpuChecks \in Seq(Plain) /\ Polls \in Seq(Plain)
  /\ DmaStatus \in Seq(Plain) /\ DmaClearStatus \in Seq(Plain)
  /\ DmaStartCall \in Seq(Plain) /\ DmaWait \in Seq(Plain)
  /\ \A n \in 0 .. 2 : GpioSetDirection(n) \in Seq(Plain) /\ GpioWrite(n) \in Seq(Plain)
<1>1. Store("timer count", 0) \in Seq(Plain) /\ Store("timer ctrl", TRUE) \in Seq(Plain)
  <2>1. 0 \in 0 .. 2
    OBVIOUS
  <2>2. Store("timer count", 0) \in Seq(Plain)
    BY <2>1, PlainAccesses
  <2>3. Store("timer ctrl", TRUE) \in Seq(Plain)
    BY PlainAccesses
  <2>. QED  BY <2>2, <2>3
<1>2. Load("timer status") \in Seq(Plain) /\ Load("dma status") \in Seq(Plain)
      /\ Load("fflags") \in Seq(Plain) /\ Load("fs") \in Seq(Plain)
  BY PlainAccesses
<1>3. /\ Then("until expired") \in Seq(Plain) /\ Then("wait") \in Seq(Plain)
      /\ Then("start unless busy") \in Seq(Plain) /\ Then("wait if started") \in Seq(Plain)
      /\ Then("divided by zero") \in Seq(Plain) /\ Then("dirty") \in Seq(Plain)
  BY PlainAccesses DEF PlainThens
<1>4. /\ Store("fs", "initial") \in Seq(Plain) /\ Store("fflags", {}) \in Seq(Plain)
      /\ Store("dma status", {}) \in Seq(Plain)
      /\ FpCompute({}) \in Seq(Plain) /\ FpCompute({"dz"}) \in Seq(Plain)
  BY PlainAccesses
<1>5. TimerStart \in Seq(Plain) /\ TimerExpired \in Seq(Plain) /\ Polls \in Seq(Plain)
      /\ DmaStartCall \in Seq(Plain)
  BY <1>1, <1>2, <1>3, PlainConcat DEF TimerStart, TimerExpired, Polls, DmaStatus, DmaStartCall
<1>6. FpuChecks \in Seq(Plain)
  BY <1>2, <1>3, <1>4, PlainConcat
  DEF FpuChecks, FpEnable, FpClearFflags, FpReadFflags, FpReadFcsr, FpReadMstatus
<1>. QED  BY <1>2, <1>3, <1>4, <1>5, <1>6, PlainAccesses
          DEF DmaStatus, DmaClearStatus, DmaWait, GpioSetDirection, GpioWrite

LEMMA PlainExamples ==
  ASSUME NEW p \in DOMAIN Example
  PROVE  Example[p] \in Seq(Plain)
<1>1. /\ GpioSetDirection(1) \in Seq(Plain) /\ GpioWrite(0) \in Seq(Plain)
      /\ GpioWrite(1) \in Seq(Plain) /\ TimerStart \in Seq(Plain)
      /\ TimerExpired \in Seq(Plain) /\ DmaStatus \in Seq(Plain)
      /\ DmaClearStatus \in Seq(Plain) /\ DmaStartCall \in Seq(Plain)
      /\ DmaWait \in Seq(Plain)
  BY PlainCalls
<1>2. /\ Then("compare") \in Seq(Plain) /\ Then("report") \in Seq(Plain)
      /\ Then("done") \in Seq(Plain) /\ Then("fpu") \in Seq(Plain)
  BY PlainAccesses DEF PlainThens
<1>3. DmaUartTxStart = DmaStartCall /\ DmaStartDescriptor = DmaStartCall
  BY DEF DmaUartTxStart, DmaStartDescriptor, DmaStartCall
<1>4. HelloUart \in Seq(Plain)
  BY <1>1, PlainConcat DEF HelloUart
<1>5. TimerApbPoll \in Seq(Plain)
  BY <1>1, PlainConcat DEF TimerApbPoll
<1>6. DmaSystemSram \in Seq(Plain)
  BY <1>1, <1>2, PlainConcat DEF DmaSystemSram
<1>7. DmaUartTx \in Seq(Plain)
  BY <1>1, <1>2, <1>3, PlainConcat DEF DmaUartTx
<1>8. DmaDescriptorChain \in Seq(Plain)
  BY <1>1, <1>2, <1>3, PlainConcat DEF DmaDescriptorChain
<1>9. FpuDmaSram \in Seq(Plain)
  BY <1>1, <1>2, PlainConcat DEF FpuDmaSram
<1>. QED  BY <1>4, <1>5, <1>6, <1>7, <1>8, <1>9 DEF Example

LEMMA PlainDecisions ==
  ASSUME NEW what \in PlainThens, NEW value
  PROVE  Decided(what, value).more \in Seq(Plain)
<1>1. /\ TimerExpired \in Seq(Plain) /\ Polls \in Seq(Plain) /\ FpuChecks \in Seq(Plain)
      /\ GpioWrite(1) \in Seq(Plain) /\ GpioWrite(2) \in Seq(Plain)
      /\ DmaClearStatus \o Store("dma ctrl", FALSE) \in Seq(Plain)
  <2>1. Store("dma ctrl", FALSE) \in Seq(Plain) /\ DmaClearStatus \in Seq(Plain)
    BY PlainAccesses, PlainCalls
  <2>2. 1 \in 0 .. 2 /\ 2 \in 0 .. 2
    OBVIOUS
  <2>3. GpioWrite(1) \in Seq(Plain) /\ GpioWrite(2) \in Seq(Plain)
    BY <2>2, PlainCalls
  <2>4. DmaClearStatus \o Store("dma ctrl", FALSE) \in Seq(Plain)
    BY <2>1, PlainConcat
  <2>. QED  BY <2>3, <2>4, PlainCalls
<1>2. CASE what = "until expired"
  BY <1>1, <1>2, NoAccess DEF Decided
<1>3. CASE what = "start unless busy"
  BY <1>1, <1>3, NoAccess DEF Decided, Started
<1>4. CASE what = "wait if started"
  BY <1>1, <1>4, NoAccess DEF Decided
<1>5. CASE what = "wait"
  BY <1>1, <1>5, NoAccess DEF Decided, Waited
<1>6. CASE what \in {"compare", "done", "divided by zero", "dirty"}
  BY <1>6, NoAccess DEF Decided, FailsUnless
<1>7. CASE what = "fpu"
  BY <1>1, <1>7, NoAccess DEF Decided
<1>8. CASE what = "report"
  BY <1>1, <1>8 DEF Decided
<1>. QED  BY <1>2, <1>3, <1>4, <1>5, <1>6, <1>7, <1>8 DEF PlainThens

LEMMA PlainAnyCall ==
  ASSUME NEW call \in AnyCall
  PROVE  call = ExternalIrqHandler \/ call \in Seq(Plain)
<1>1. \A s \in Sources, l \in Levels : PlicInitSource(s, l) \in Seq(Plain)
  <2>. SUFFICES ASSUME NEW s \in Sources, NEW l \in Levels
                PROVE  PlicInitSource(s, l) \in Seq(Plain)
    OBVIOUS
  <2>1. /\ PlicSetPriority(s, l) \in Seq(Plain) /\ PlicSetThreshold(0) \in Seq(Plain)
        /\ Load("enable") \in Seq(Plain) /\ StoreOr("enable", {s}) \in Seq(Plain)
    <3>. {s} \in SUBSET Sources /\ 0 \in 0 .. 7
      OBVIOUS
    <3>. QED  BY PlainAccesses DEF PlicSetThreshold
  <2>2. PlicSetEnabled(s, TRUE) \in Seq(Plain)
    BY <2>1, PlainConcat DEF PlicSetEnabled
  <2>. QED  BY <2>1, <2>2, PlainConcat DEF PlicInitSource
<1>2. \A l \in Levels : DmaIrqEnable(l) = PlicInitSource(Dma, l)
  BY DEF DmaIrqEnable, PlicInitSource
<1>3. \A t \in Thresholds : PlicSetThreshold(t) \in Seq(Plain)
  BY PlainAccesses, BspAssumption DEF PlicSetThreshold
<1>4. DmaIrqDisable \in Seq(Plain)
  <2>1. Load("enable") \in Seq(Plain) /\ StoreAndNot("enable", {Dma}) \in Seq(Plain)
    BY PlainAccesses DEF Sources
  <2>. QED  BY <2>1, PlainConcat DEF DmaIrqDisable, PlicSetEnabled
<1>5. EnableMachineIrqs \in Seq(Plain) /\ DisableMachineIrqs \in Seq(Plain)
      /\ ClintSetMsip(TRUE) \in Seq(Plain)
  BY PlainAccesses DEF EnableMachineIrqs, DisableMachineIrqs, ClintSetMsip
<1>. QED  BY <1>1, <1>2, <1>3, <1>4, <1>5 DEF AnyCall, Sources
-----------------------------------------------------------------------------
(* What a callee does next, in each phase.                                 *)

LEMMA TailOfConcat ==
  ASSUME NEW S, NEW s \in Seq(S), s # <<>>, NEW t \in Seq(S)
  PROVE  /\ s \o t # <<>> /\ (s \o t)[1] = s[1]
         /\ Tail(s \o t) = Tail(s) \o t
<1>. DEFINE w == s \o t
            l == Tail(w)
            r == Tail(s) \o t
<1>1. /\ Len(s) \in Nat \ {0} /\ Len(t) \in Nat
      /\ Tail(s) \in Seq(S) /\ Len(Tail(s)) = Len(s) - 1
      /\ \A i \in 1 .. Len(Tail(s)) : Tail(s)[i] = s[i + 1]
  BY EmptySeq, LenProperties, HeadTailProperties
<1>2. /\ w \in Seq(S) /\ Len(w) = Len(s) + Len(t)
      /\ \A i \in 1 .. Len(s) + Len(t) : w[i] = IF i <= Len(s) THEN s[i] ELSE t[i - Len(s)]
  BY ConcatProperties
<1>3. /\ r \in Seq(S) /\ Len(r) = Len(Tail(s)) + Len(t)
      /\ \A i \in 1 .. Len(Tail(s)) + Len(t) :
           r[i] = IF i <= Len(Tail(s)) THEN Tail(s)[i] ELSE t[i - Len(Tail(s))]
  BY <1>1, ConcatProperties
<1>. HIDE DEF w, r
<1>4. w # <<>> /\ w[1] = s[1]
  BY <1>1, <1>2, EmptySeq
<1>5. /\ l \in Seq(S) /\ Len(l) = Len(w) - 1
      /\ \A i \in 1 .. Len(l) : l[i] = w[i + 1]
  BY <1>2, <1>4, HeadTailProperties
<1>. HIDE DEF l
<1>6. Len(l) = Len(r)
  BY <1>1, <1>2, <1>3, <1>5
<1>7. ASSUME NEW i \in 1 .. Len(l)
      PROVE  l[i] = r[i]
  <2>1. l[i] = w[i + 1] /\ i \in 1 .. Len(s) + Len(t) - 1
    BY <1>1, <1>2, <1>5
  <2>2. CASE i <= Len(s) - 1
    <3>0. /\ i + 1 \in 1 .. Len(s) + Len(t) /\ i + 1 <= Len(s)
          /\ i \in 1 .. Len(Tail(s)) /\ i \in 1 .. Len(Tail(s)) + Len(t)
      BY <1>1, <2>1, <2>2
    <3>1. w[i + 1] = s[i + 1]
      BY <1>2, <3>0
    <3>2. r[i] = Tail(s)[i]
      BY <1>3, <3>0
    <3>3. Tail(s)[i] = s[i + 1]
      BY <1>1, <3>0
    <3>. QED  BY <2>1, <3>1, <3>2, <3>3
  <2>3. CASE i > Len(s) - 1
    <3>1. w[i + 1] = t[i + 1 - Len(s)]
      BY <1>1, <1>2, <2>1, <2>3
    <3>2. r[i] = t[i - (Len(s) - 1)]
      BY <1>1, <1>3, <2>1, <2>3
    <3>3. i + 1 - Len(s) = i - (Len(s) - 1)
      BY <1>1
    <3>. QED  BY <2>1, <3>1, <3>2, <3>3
  <2>. QED  BY <1>1, <2>1, <2>2, <2>3
<1>8. l = r
  BY <1>3, <1>5, <1>6, <1>7, SeqEqual
<1>. QED  BY <1>4, <1>8 DEF w, l, r

LEMMA PairConcat ==
  ASSUME NEW x, NEW y
  PROVE  <<x>> \o <<y>> = <<x, y>>
<1>. DEFINE a == <<x>>
            b == <<y>>
            S == {x, y}
            p == <<x, y>>
<1>1. a \in Seq(S) /\ b \in Seq(S) /\ Len(a) = 1 /\ Len(b) = 1 /\ a[1] = x /\ b[1] = y
  OBVIOUS
<1>2. p \in Seq(S) /\ Len(p) = 2 /\ p[1] = x /\ p[2] = y
  OBVIOUS
<1>. HIDE DEF a, b, S, p
<1>3. /\ a \o b \in Seq(S) /\ Len(a \o b) = 2
      /\ \A i \in 1 .. 2 : (a \o b)[i] = IF i <= 1 THEN a[i] ELSE b[i - 1]
  BY <1>1, ConcatProperties
<1>4. \A i \in 1 .. 2 : (a \o b)[i] = p[i]
  BY <1>1, <1>2, <1>3
<1>5. a \o b = p
  BY <1>2, <1>3, <1>4, SeqEqual
<1>. QED  BY <1>5 DEF a, b, p

LEMMA PlainForms ==
  ASSUME NEW a \in Plain
  PROVE  /\ a[2] # "claim"
         /\ a[1] = "then" => a[2] \in PlainThens
         /\ a[2] = "priority" => a[1] = "store" /\ a[3] \in [source : Sources, is : Levels]
<1>1. CASE a \in {"then"} \X PlainThens
  BY <1>1 DEF PlainThens
<1>2. CASE a \in {"load"} \X {"enable", "dma status", "timer status", "fflags", "fs"}
  BY <1>2
<1>3. CASE a \in {"store"} \X {"priority"} \X [source : Sources, is : Levels]
  BY <1>3
<1>4. CASE \/ a \in {"store"} \X {"threshold"} \X (0 .. 7)
           \/ a \in {"store"} \X {"gpio dir", "gpio out", "timer count"} \X (0 .. 2)
           \/ a \in {"or", "andnot"} \X {"enable"} \X SUBSET Sources
  BY <1>4
<1>5. CASE \/ a \in {"store"} \X {"mie", "msip", "uart irq", "timer ctrl", "dma ctrl"} \X BOOLEAN
           \/ a \in {"compute"} \X {"fpu"} \X SUBSET {"dz"}
  BY <1>5
<1>6. CASE \/ a \in {"store"} \X {"fs"} \X {"initial"}
           \/ a \in {"store"} \X {"fflags", "dma status"} \X {{}}
  BY <1>6
<1>. QED  BY <1>1, <1>2, <1>3, <1>4, <1>5, <1>6 DEF Plain

\* The access that is next is a plain one.
Plainly(c) ==
  /\ Access(c) \in Plain
  /\ \A more \in Seq(Plain) :
       \/ held[c] = 0 /\ more \o Tail(code[c]) \in Seq(Plain)
       \/ /\ held[c] \in Sources
          /\ \E before \in Seq(Plain) :
               more \o Tail(code[c]) = before \o PlicComplete(held[c])

LEMMA NextAccess ==
  ASSUME NEW c, InPhase(c), code[c] # <<>>
  PROVE  \/ Plainly(c)
         \/ /\ held[c] = 0 /\ Access(c) = <<"load", "claim">>
            /\ Tail(code[c]) = Then("dispatch")
         \/ /\ Access(c) = <<"then", "dispatch">> /\ Tail(code[c]) = <<>>
            /\ loaded[c] = <<"claim", held[c]>>
         \/ /\ held[c] \in Sources /\ Access(c) = <<"store", "claim", held[c]>>
            /\ Tail(code[c]) = <<>>
<1>1. CASE MakesPlain(c)
  <2>1. code[c] \in Seq(Plain) /\ held[c] = 0
    BY <1>1 DEF MakesPlain
  <2>2. Access(c) \in Plain /\ Tail(code[c]) \in Seq(Plain)
    BY <2>1, HeadTailProperties, EmptySeq, ElementOfSeq DEF Access
  <2>3. \A more \in Seq(Plain) : more \o Tail(code[c]) \in Seq(Plain)
    BY <2>2, PlainConcat
  <2>. QED  BY <2>1, <2>2, <2>3 DEF Plainly
<1>2. CASE AboutToClaim(c)
  <2>1. code[c] = <<<<"load", "claim">>, <<"then", "dispatch">>>> /\ held[c] = 0
    <3>1. \A x, y : <<x>> \o <<y>> = <<x, y>>
      BY PairConcat
    <3>2. ExternalIrqHandler = <<<<"load", "claim">>>> \o <<<<"then", "dispatch">>>>
      BY DEF ExternalIrqHandler, PlicClaim, Load, Then
    <3>. QED  BY <1>2, <3>1, <3>2 DEF AboutToClaim
  <2>2. Access(c) = <<"load", "claim">> /\ Tail(code[c]) = <<<<"then", "dispatch">>>>
    BY <2>1 DEF Access
  <2>. QED  BY <2>1, <2>2 DEF Then
<1>3. CASE HasClaimed(c)
  <2>1. code[c] = <<<<"then", "dispatch">>>>
    BY <1>3 DEF HasClaimed, Then
  <2>2. Access(c) = <<"then", "dispatch">> /\ Tail(code[c]) = <<>>
    BY <2>1 DEF Access
  <2>. QED  BY <1>3, <2>2 DEF HasClaimed
<1>4. CASE Completes(c)
  <2>. DEFINE last == <<"store", "claim", held[c]>>
              All == Plain \cup {last}
  <2>1. PICK before \in Seq(Plain) : code[c] = before \o PlicComplete(held[c])
    BY <1>4 DEF Completes
  <2>2. held[c] \in Sources /\ PlicComplete(held[c]) = <<last>>
    BY <1>4 DEF Completes, PlicComplete, Store
  <2>3. <<last>> \in Seq(All) /\ before \in Seq(All)
    <3>1. last \in All /\ Plain \subseteq All
      OBVIOUS
    <3>. HIDE DEF last, All
    <3>. QED  BY <3>1, SeqMonotonic
  <2>4. CASE before = <<>>
    <3>1. code[c] = <<last>>
      <4>. HIDE DEF All
      <4>. QED  BY <2>1, <2>2, <2>3, <2>4, ConcatEmptySeq
    <3>2. Access(c) = last /\ Tail(code[c]) = <<>>
      BY <3>1 DEF Access
    <3>. QED  BY <2>2, <3>2
  <2>5. CASE before # <<>>
    <3>1. before[1] \in Plain /\ Tail(before) \in Seq(Plain)
      BY <2>5, HeadTailProperties, EmptySeq, ElementOfSeq
    <3>2. Access(c) = before[1] /\ Tail(code[c]) = Tail(before) \o <<last>>
      <4>. HIDE DEF All, last
      <4>. QED  BY <2>1, <2>2, <2>3, <2>5, TailOfConcat DEF Access
    <3>3. ASSUME NEW more \in Seq(Plain)
          PROVE  /\ more \o Tail(before) \in Seq(Plain)
                 /\ more \o (Tail(before) \o <<last>>) = (more \o Tail(before)) \o <<last>>
      <4>1. more \in Seq(All) /\ Tail(before) \in Seq(All)
        <5>1. Plain \subseteq All
          OBVIOUS
        <5>. HIDE DEF All
        <5>. QED  BY <3>1, <5>1, SeqMonotonic
      <4>. HIDE DEF All, last
      <4>. QED  BY <2>3, <3>1, <4>1, PlainConcat, ConcatAssociative
    <3>. QED  BY <2>2, <3>1, <3>2, <3>3 DEF Plainly
  <2>. QED  BY <2>4, <2>5
<1>. QED  BY <1>1, <1>2, <1>3, <1>4 DEF InPhase

LEMMA SamePhase ==
  ASSUME NEW c, InPhase(c), code'[c] = code[c], held'[c] = held[c], loaded'[c] = loaded[c]
  PROVE  InPhase(c)'
BY DEF InPhase, MakesPlain, AboutToClaim, HasClaimed, Completes

LEMMA PlainProceeds ==
  ASSUME NEW c, Plainly(c), NEW more \in Seq(Plain), held'[c] = held[c],
         code'[c] = more \o Tail(code[c])
  PROVE  InPhase(c)'
BY DEF Plainly, InPhase, MakesPlain, Completes

LEMMA AtRestHoldsNothing ==
  ASSUME NEW c, InPhase(c), code[c] = <<>>
  PROVE  held[c] = 0
<1>1. ~AboutToClaim(c)
  BY DEF AboutToClaim, ExternalIrqHandler, PlicClaim, Load, Then
<1>2. ~HasClaimed(c)
  BY DEF HasClaimed, Then
<1>3. ~Completes(c)
  <2>. SUFFICES ASSUME NEW before \in Seq(Plain), before \o PlicComplete(held[c]) = <<>>
                PROVE  FALSE
    BY DEF Completes
  <2>. DEFINE last == <<"store", "claim", held[c]>>
              All == Plain \cup {last}
  <2>1. <<last>> \in Seq(All) /\ before \in Seq(All) /\ Len(<<last>>) = 1
    <3>1. last \in All /\ Plain \subseteq All
      OBVIOUS
    <3>. HIDE DEF last, All
    <3>. QED  BY <3>1, SeqMonotonic
  <2>2. PlicComplete(held[c]) = <<last>>
    BY DEF PlicComplete, Store
  <2>. HIDE DEF last, All
  <2>3. Len(before \o <<last>>) = Len(before) + 1 /\ Len(before) \in Nat
    BY <2>1, ConcatProperties, LenProperties
  <2>. QED  BY <2>2, <2>3, EmptySeq
<1>. QED  BY <1>1, <1>2, <1>3 DEF InPhase, MakesPlain
-----------------------------------------------------------------------------
(* Each access, call and event preserves the invariant.                    *)

LEMMA HighestIsFree ==
  ASSUME BspShape
  PROVE  Highest = 0 \/ (Highest \in Sources /\ Highest \notin plic.serving)
<1>1. \A s \in Sources : plic.priority[s] \in Nat
  BY BspAssumption DEF BspShape
<1>2. Eligible \subseteq Sources \ plic.serving
  BY DEF BspShape, Eligible
<1>3. CASE Eligible # {}
  <2>1. \E s \in Eligible : \A t \in Eligible : Goes(s, t)
    <3>1. CASE Eligible = {Uart}
      BY <1>1, <3>1 DEF Goes, Sources, Uart
    <3>2. CASE Eligible = {Dma}
      BY <1>1, <3>2 DEF Goes, Sources, Dma
    <3>3. CASE Eligible = {Uart, Dma}
      <4>1. Goes(Uart, Uart) /\ Goes(Dma, Dma) /\ (Goes(Uart, Dma) \/ Goes(Dma, Uart))
        BY <1>1 DEF Goes, Sources, Uart, Dma
      <4>. QED  BY <3>3, <4>1
    <3>. QED  BY <1>2, <1>3, <3>1, <3>2, <3>3 DEF Sources
  <2>. QED  BY <1>2, <1>3, <2>1 DEF Highest
<1>. QED  BY <1>3 DEF Highest

LEMMA DifferentCallees == Callees = {"program", "trap"}
BY DEF Callees

LEMMA BspStartsIn ==
  ASSUME BspInit
  PROVE  BspIInv
<1>1. /\ held = [c \in Callees |-> 0] /\ loaded = [c \in Callees |-> Nothing]
      /\ code = [program |-> IF program \in DOMAIN Example THEN Example[program] ELSE <<>>,
                 trap |-> <<>>]
      /\ machine = [mie |-> FALSE, trap |-> FALSE]
      /\ plic = [priority |-> [s \in Sources |-> 0], threshold |-> 0, on |-> {},
                 pending |-> {}, serving |-> {}]
  BY DEF BspInit
<1>2. code["program"] \in Seq(Plain) /\ code["trap"] = <<>>
  BY <1>1, PlainExamples, NoAccess
<1>3. \A c \in Callees : InPhase(c)
  BY <1>1, <1>2, NoAccess DEF InPhase, MakesPlain, Callees
<1>4. BspShape
  BY <1>1 DEF BspShape, Callees
<1>5. ClaimedOnce
  BY <1>1 DEF ClaimedOnce, Callees
<1>. QED  BY <1>2, <1>3, <1>4, <1>5 DEF BspIInv

\* A step which leaves the callees and the sources in service as they are.
LEMMA KeepsClaims ==
  ASSUME BspIInv, BspShape', UNCHANGED <<code, loaded, held>>,
         plic'.serving = plic.serving, machine'.trap = machine.trap
  PROVE  BspIInv'
<1>1. ASSUME NEW c \in Callees
      PROVE  InPhase(c)'
  BY SamePhase DEF BspIInv
<1>. QED  BY <1>1 DEF BspIInv, ClaimedOnce

\* A plain access, which leads to more of them.
LEMMA PlainSteps ==
  ASSUME BspIInv, BspShape', NEW c \in Callees, Runs(c), Plainly(c),
         NEW more \in Seq(Plain), Proceeds(c, more),
         loaded' = [loaded EXCEPT ![c] = loaded'[c]], UNCHANGED held,
         plic'.serving = plic.serving, machine'.trap = machine.trap
  PROVE  BspIInv'
<1>1. code'[c] = more \o Tail(code[c]) /\ \A d \in Callees \ {c} : code'[d] = code[d]
  BY DEF BspIInv, BspShape, Proceeds
<1>2. \A d \in Callees \ {c} : loaded'[d] = loaded[d]
  BY DEF BspIInv, BspShape
<1>3. ASSUME NEW d \in Callees
      PROVE  InPhase(d)'
  <2>1. CASE d = c
    BY <1>1, <2>1, PlainProceeds
  <2>2. CASE d # c
    BY <1>1, <1>2, <2>2, SamePhase DEF BspIInv
  <2>. QED  BY <2>1, <2>2
<1>4. ~machine'.trap => code'["trap"] = <<>>
  BY <1>1 DEF BspIInv, Runs, Callees
<1>5. ClaimedOnce'
  BY DEF BspIInv, ClaimedOnce
<1>. QED  BY <1>3, <1>4, <1>5 DEF BspIInv

\* What an access to a claim leaves: a phase, and the other callee's.
LEMMA ClaimSteps ==
  ASSUME BspIInv, BspShape', NEW c \in Callees, Runs(c),
         code' = [code EXCEPT ![c] = code'[c]], held' = [held EXCEPT ![c] = held'[c]],
         loaded' = [loaded EXCEPT ![c] = loaded'[c]], UNCHANGED machine,
         InPhase(c)', ClaimedOnce'
  PROVE  BspIInv'
<1>1. \A d \in Callees \ {c} :
        code'[d] = code[d] /\ loaded'[d] = loaded[d] /\ held'[d] = held[d]
  BY DEF BspIInv, BspShape
<1>2. ASSUME NEW d \in Callees
      PROVE  InPhase(d)'
  <2>1. CASE d = c
    BY <2>1
  <2>2. CASE d # c
    BY <1>1, <2>2, SamePhase DEF BspIInv
  <2>. QED  BY <2>1, <2>2
<1>3. ~machine'.trap => code'["trap"] = <<>>
  BY <1>1 DEF BspIInv, Runs, Callees
<1>. QED  BY <1>2, <1>3 DEF BspIInv
LEMMA LoadsSteps ==
  ASSUME BspIInv, NEW c \in Callees, Loads(c)
  PROVE  BspIInv'
<1>1. /\ Runs(c) /\ Access(c)[1] = "load" /\ code[c] # <<>>
      /\ loaded' = [loaded EXCEPT ![c] = <<Access(c)[2], Register(Access(c)[2])>>]
      /\ code' = [code EXCEPT ![c] = <<>> \o Tail(@)]
      /\ UNCHANGED machine
  BY DEF Loads, Runs, Does, Of, Proceeds
<1>2. BspShape
  BY DEF BspIInv
<1>3. CASE Plainly(c)
  <2>1. Access(c)[2] # "claim"
    BY <1>3, PlainForms DEF Plainly
  <2>2. UNCHANGED <<plic, held>>
    BY <2>1 DEF Loads, Of
  <2>3. BspShape'
    BY <1>1, <1>2, <2>2 DEF BspShape
  <2>4. Proceeds(c, <<>>) /\ loaded' = [loaded EXCEPT ![c] = loaded'[c]]
    BY <1>1, <1>2 DEF Proceeds, BspShape
  <2>. QED  BY <1>1, <1>3, <2>2, <2>3, <2>4, NoAccess, PlainSteps
<1>4. CASE /\ held[c] = 0 /\ Access(c) = <<"load", "claim">>
           /\ Tail(code[c]) = Then("dispatch")
  <2>1. Access(c)[2] = "claim"
    BY <1>4
  <2>2. plic' = Claimed /\ held' = [held EXCEPT ![c] = Highest]
    BY <2>1 DEF Loads, Of
  <2>3. Register("claim") = Highest
    BY DEF Register
  <2>4. Highest = 0 \/ (Highest \in Sources /\ Highest \notin plic.serving)
    BY <1>2, HighestIsFree
  <2>5. code'[c] = Then("dispatch")
    <3>1. <<>> \o Then("dispatch") = Then("dispatch")
      <4>. Then("dispatch") \in Seq({<<"then", "dispatch">>})
        BY DEF Then
      <4>. QED  BY ConcatEmptySeq
    <3>. QED  BY <1>1, <1>2, <1>4, <3>1 DEF BspShape
  <2>6. held'[c] = Highest /\ loaded'[c] = <<"claim", Highest>>
    BY <1>1, <1>2, <2>1, <2>2, <2>3 DEF BspShape
  <2>7. plic'.serving = IF Highest = 0 THEN plic.serving ELSE plic.serving \cup {Highest}
    BY <1>2, <2>2 DEF Claimed, BspShape
  <2>8. BspShape'
    <3>1. plic' \in [priority : [Sources -> Levels \cup {0}], threshold : {plic'.threshold},
                     on : {plic'.on}, pending : SUBSET Sources, serving : SUBSET Sources]
      BY <1>2, <2>2, <2>4 DEF BspShape, Claimed
    <3>2. held' \in [Callees -> Sources \cup {0}]
      BY <1>2, <2>2, <2>4 DEF BspShape
    <3>. QED  BY <1>1, <1>2, <3>1, <3>2 DEF BspShape
  <2>9. ClaimedOnce'
    <3>1. ClaimedOnce /\ held["program"] \in Sources \cup {0} /\ held["trap"] \in Sources \cup {0}
      BY <1>2 DEF BspIInv, BspShape, Callees
    <3>2. CASE c = "program"
      <4>1. held'["program"] = Highest /\ held'["trap"] = held["trap"]
        BY <1>2, <2>2, <3>2 DEF BspShape, Callees
      <4>. QED  BY <1>4, <2>4, <2>7, <3>1, <3>2, <4>1 DEF ClaimedOnce, Callees, Sources, Uart, Dma
    <3>3. CASE c = "trap"
      <4>1. held'["trap"] = Highest /\ held'["program"] = held["program"]
        BY <1>2, <2>2, <3>3 DEF BspShape, Callees
      <4>. QED  BY <1>4, <2>4, <2>7, <3>1, <3>3, <4>1 DEF ClaimedOnce, Callees, Sources, Uart, Dma
    <3>. QED  BY <3>2, <3>3 DEF Callees
  <2>10. InPhase(c)'
    BY <2>5, <2>6 DEF InPhase, HasClaimed
  <2>11. /\ code' = [code EXCEPT ![c] = code'[c]] /\ held' = [held EXCEPT ![c] = held'[c]]
         /\ loaded' = [loaded EXCEPT ![c] = loaded'[c]]
    BY <1>1, <1>2, <2>2 DEF BspShape
  <2>. QED  BY <1>1, <2>8, <2>9, <2>10, <2>11, ClaimSteps
<1>5. Access(c) # <<"then", "dispatch">> /\ Access(c) # <<"store", "claim", held[c]>>
  BY <1>1
<1>6. InPhase(c)
  BY DEF BspIInv
<1>. QED  BY <1>1, <1>3, <1>4, <1>5, <1>6, NextAccess

LEMMA StoresSteps ==
  ASSUME BspIInv, NEW c \in Callees, Stores(c)
  PROVE  BspIInv'
<1>1. /\ Runs(c) /\ Access(c)[1] \in {"store", "or", "andnot"} /\ code[c] # <<>>
      /\ loaded' = [loaded EXCEPT ![c] = Nothing]
      /\ code' = [code EXCEPT ![c] = <<>> \o Tail(@)]
  BY DEF Stores, Runs, Does, Of, Proceeds, Forgets
<1>2. BspShape /\ InPhase(c)
  BY DEF BspIInv
<1>3. PICK value :
        /\ Access(c)[1] = "store" => value = Access(c)[3]
        /\ IF Access(c)[2] \in PlicRegisters THEN StoresPlic(c, Access(c)[2], value)
           ELSE StoresDevice(Access(c)[2], value)
  BY DEF Stores, Does, Of, Value
<1>4. code' = [code EXCEPT ![c] = code'[c]] /\ loaded' = [loaded EXCEPT ![c] = loaded'[c]]
  BY <1>1, <1>2 DEF BspShape
<1>5. CASE Plainly(c)
  <2>1. /\ Access(c)[2] # "claim"
        /\ Access(c)[2] = "priority" => /\ Access(c)[1] = "store"
                                        /\ Access(c)[3] \in [source : Sources, is : Levels]
    BY <1>5, PlainForms DEF Plainly
  <2>2. CASE Access(c)[2] \in PlicRegisters
    <3>1. StoresPlic(c, Access(c)[2], value)
      BY <1>3, <2>2
    <3>2. UNCHANGED <<held, machine>>
      BY <2>1, <3>1 DEF StoresPlic
    <3>3. /\ plic'.serving = plic.serving
          /\ plic' \in [priority : [Sources -> Levels \cup {0}], threshold : {plic'.threshold},
                        on : {plic'.on}, pending : SUBSET Sources, serving : SUBSET Sources]
      <4>1. CASE Access(c)[2] = "priority"
        <5>1. /\ value.source \in Sources /\ value.is \in Levels
              /\ plic' = [plic EXCEPT !.priority[value.source] = value.is]
          BY <1>3, <2>1, <3>1, <4>1 DEF StoresPlic
        <5>. QED  BY <1>2, <5>1 DEF BspShape
      <4>2. CASE Access(c)[2] = "threshold"
        <5>1. plic' = [plic EXCEPT !.threshold = value]
          BY <3>1, <4>2 DEF StoresPlic
        <5>. QED  BY <1>2, <5>1 DEF BspShape
      <4>3. CASE Access(c)[2] = "enable"
        <5>1. plic' = [plic EXCEPT !.on = value]
          BY <3>1, <4>3 DEF StoresPlic
        <5>. QED  BY <1>2, <5>1 DEF BspShape
      <4>. QED  BY <2>1, <2>2, <4>1, <4>2, <4>3 DEF PlicRegisters
    <3>4. BspShape'
      BY <1>1, <1>2, <3>2, <3>3 DEF BspShape
    <3>5. Proceeds(c, <<>>)
      BY <1>1 DEF Proceeds
    <3>. QED  BY <1>1, <1>4, <1>5, <3>2, <3>3, <3>4, <3>5, NoAccess, PlainSteps
  <2>3. CASE Access(c)[2] \notin PlicRegisters
    <3>1. StoresDevice(Access(c)[2], value)
      BY <1>3, <2>3
    <3>2. /\ UNCHANGED <<plic, held>>
          /\ machine' = machine \/ machine' = [machine EXCEPT !.mie = value]
      BY <3>1 DEF StoresDevice
    <3>3. machine'.trap = machine.trap /\ machine' = [mie |-> machine'.mie, trap |-> machine'.trap]
      <4>. machine = [mie |-> machine.mie, trap |-> machine.trap]
        BY <1>2 DEF BspShape
      <4>. QED  BY <3>2
    <3>4. BspShape'
      BY <1>1, <1>2, <3>2, <3>3 DEF BspShape
    <3>5. Proceeds(c, <<>>)
      BY <1>1 DEF Proceeds
    <3>. QED  BY <1>1, <1>4, <1>5, <3>2, <3>3, <3>4, <3>5, NoAccess, PlainSteps
  <2>. QED  BY <2>2, <2>3
<1>6. CASE /\ held[c] \in Sources /\ Access(c) = <<"store", "claim", held[c]>>
           /\ Tail(code[c]) = <<>>
  <2>1. value = held[c] /\ StoresPlic(c, "claim", value)
    BY <1>3, <1>6 DEF PlicRegisters
  <2>2. /\ plic' = [plic EXCEPT !.serving = @ \ {held[c]}]
        /\ held' = [held EXCEPT ![c] = 0] /\ UNCHANGED machine
    BY <2>1 DEF StoresPlic, Completed
  <2>3. BspShape'
    <3>1. plic' \in [priority : [Sources -> Levels \cup {0}], threshold : {plic'.threshold},
                     on : {plic'.on}, pending : SUBSET Sources, serving : SUBSET Sources]
      BY <1>2, <2>2 DEF BspShape
    <3>2. held' \in [Callees -> Sources \cup {0}]
      BY <1>2, <2>2 DEF BspShape
    <3>. QED  BY <1>1, <1>2, <2>2, <3>1, <3>2 DEF BspShape
  <2>4. plic'.serving = plic.serving \ {held[c]}
    BY <1>2, <2>2 DEF BspShape
  <2>5. ClaimedOnce'
    <3>1. ClaimedOnce /\ held["program"] \in Sources \cup {0} /\ held["trap"] \in Sources \cup {0}
      BY <1>2 DEF BspIInv, BspShape, Callees
    <3>2. CASE c = "program"
      <4>1. held'["program"] = 0 /\ held'["trap"] = held["trap"]
        BY <1>2, <2>2, <3>2 DEF BspShape, Callees
      <4>. QED  BY <1>6, <2>4, <3>1, <3>2, <4>1 DEF ClaimedOnce, Callees, Sources, Uart, Dma
    <3>3. CASE c = "trap"
      <4>1. held'["trap"] = 0 /\ held'["program"] = held["program"]
        BY <1>2, <2>2, <3>3 DEF BspShape, Callees
      <4>. QED  BY <1>6, <2>4, <3>1, <3>3, <4>1 DEF ClaimedOnce, Callees, Sources, Uart, Dma
    <3>. QED  BY <3>2, <3>3 DEF Callees
  <2>6. InPhase(c)'
    <3>1. held'[c] = 0
      BY <1>2, <2>2 DEF BspShape
    <3>2. <<>> \o <<>> = <<>>
      BY NoAccess, ConcatEmptySeq
    <3>3. code'[c] = <<>>
      BY <1>1, <1>2, <1>6, <3>2 DEF BspShape
    <3>. QED  BY <3>1, <3>3, NoAccess DEF InPhase, MakesPlain
  <2>7. held' = [held EXCEPT ![c] = held'[c]]
    BY <1>2, <2>2 DEF BspShape
  <2>. QED  BY <1>1, <1>4, <2>2, <2>3, <2>5, <2>6, <2>7, ClaimSteps
<1>7. Access(c) # <<"load", "claim">> /\ Access(c) # <<"then", "dispatch">>
  BY <1>1
<1>. QED  BY <1>1, <1>2, <1>5, <1>6, <1>7, NextAccess
LEMMA DecidesSteps ==
  ASSUME BspIInv, NEW c \in Callees, Decides(c)
  PROVE  BspIInv'
<1>. DEFINE more == Decided(Of(c), Last(c)).more
<1>1. /\ Runs(c) /\ Access(c)[1] = "then" /\ code[c] # <<>>
      /\ loaded' = [loaded EXCEPT ![c] = Nothing]
      /\ code' = [code EXCEPT ![c] = more \o Tail(@)]
      /\ UNCHANGED <<held, machine, plic>>
  BY DEF Decides, Runs, Does, Proceeds, Forgets
<1>2. BspShape /\ InPhase(c)
  BY DEF BspIInv
<1>3. code' = [code EXCEPT ![c] = code'[c]] /\ loaded' = [loaded EXCEPT ![c] = loaded'[c]]
  BY <1>1, <1>2 DEF BspShape
<1>4. BspShape'
  BY <1>1, <1>2 DEF BspShape
<1>5. CASE Plainly(c)
  <2>1. Of(c) \in PlainThens
    BY <1>1, <1>5, PlainForms DEF Plainly, Of
  <2>2. more \in Seq(Plain)
    BY <2>1, PlainDecisions
  <2>3. Proceeds(c, more)
    BY <1>1 DEF Proceeds
  <2>. HIDE DEF more
  <2>. QED  BY <1>1, <1>3, <1>4, <1>5, <2>2, <2>3, PlainSteps
<1>6. CASE /\ Access(c) = <<"then", "dispatch">> /\ Tail(code[c]) = <<>>
           /\ loaded[c] = <<"claim", held[c]>>
  <2>1. more = Dispatch(held[c])
    BY <1>6 DEF Decided, Of, Last
  <2>2. code'[c] = Dispatch(held[c]) \o <<>>
    BY <1>1, <1>2, <1>6, <2>1 DEF BspShape
  <2>3. held[c] \in Sources \cup {0}
    BY <1>2 DEF BspShape
  <2>4. InPhase(c)'
    <3>1. CASE held[c] = 0
      <4>1. Dispatch(held[c]) = <<>>
        BY <3>1 DEF Dispatch, Uart, Dma
      <4>2. code'[c] = <<>>
        BY <2>2, <4>1, NoAccess, ConcatEmptySeq
      <4>. QED  BY <1>1, <3>1, <4>2, NoAccess DEF InPhase, MakesPlain
    <3>2. CASE held[c] \in Sources
      <4>1. PICK before \in Seq(Plain) :
              Dispatch(held[c]) = before \o PlicComplete(held[c])
        <5>1. CASE held[c] = Uart
          <6>1. UartIrqHandler \in Seq(Plain)
            BY PlainAccesses DEF UartIrqHandler
          <6>2. Dispatch(held[c]) = UartIrqHandler \o PlicComplete(held[c])
            BY <5>1 DEF Dispatch, Uart, Dma
          <6>. QED  BY <6>1, <6>2
        <5>2. CASE held[c] = Dma
          <6>. DmaIrqHandler \in Seq(Plain)
            BY PlainCalls, PlainConcat DEF DmaIrqHandler
          <6>. QED  BY <5>2 DEF Dispatch, Uart, Dma
        <5>. QED  BY <3>2, <5>1, <5>2 DEF Sources
      <4>2. Dispatch(held[c]) \o <<>> = Dispatch(held[c])
        <5>. DEFINE last == <<"store", "claim", held[c]>>
                    All == Plain \cup {last}
        <5>1. <<last>> \in Seq(All) /\ before \in Seq(All)
          <6>1. last \in All /\ Plain \subseteq All
            OBVIOUS
          <6>. HIDE DEF last, All
          <6>. QED  BY <6>1, SeqMonotonic
        <5>2. PlicComplete(held[c]) = <<last>>
          BY DEF PlicComplete, Store
        <5>. HIDE DEF last, All
        <5>3. before \o <<last>> \in Seq(All)
          BY <5>1, ConcatProperties
        <5>. QED  BY <4>1, <5>2, <5>3, ConcatEmptySeq
      <4>3. code'[c] = before \o PlicComplete(held'[c]) /\ held'[c] \in Sources
        BY <1>1, <2>2, <3>2, <4>1, <4>2
      <4>. QED  BY <4>3 DEF InPhase, Completes
    <3>. QED  BY <2>3, <3>1, <3>2
  <2>5. ClaimedOnce' /\ held' = [held EXCEPT ![c] = held'[c]]
    BY <1>1, <1>2 DEF BspIInv, ClaimedOnce, BspShape
  <2>. QED  BY <1>1, <1>3, <1>4, <2>4, <2>5, ClaimSteps
<1>7. Access(c) # <<"load", "claim">> /\ Access(c) # <<"store", "claim", held[c]>>
  BY <1>1
<1>. QED  BY <1>1, <1>2, <1>5, <1>6, <1>7, NextAccess

LEMMA ComputesSteps ==
  ASSUME BspIInv, Computes
  PROVE  BspIInv'
<1>1. /\ Runs("program") /\ Access("program")[1] = "compute" /\ code["program"] # <<>>
      /\ code' = [code EXCEPT !["program"] = <<>> \o Tail(@)]
      /\ UNCHANGED <<loaded, held, machine, plic>> /\ "program" \in Callees
  BY DEF Computes, Runs, Does, Proceeds, Callees
<1>2. BspShape /\ InPhase("program")
  BY <1>1 DEF BspIInv
<1>3. /\ Access("program") # <<"load", "claim">>
      /\ Access("program") # <<"then", "dispatch">>
      /\ Access("program") # <<"store", "claim", held["program"]>>
  BY <1>1
<1>4. Plainly("program")
  BY <1>1, <1>2, <1>3, NextAccess
<1>5. BspShape' /\ loaded' = [loaded EXCEPT !["program"] = loaded'["program"]]
  BY <1>1, <1>2 DEF BspShape
<1>6. Proceeds("program", <<>>)
  BY <1>1 DEF Proceeds
<1>. QED  BY <1>1, <1>4, <1>5, <1>6, NoAccess, PlainSteps

LEMMA CallsSteps ==
  ASSUME BspIInv, Calls
  PROVE  BspIInv'
<1>1. PICK call \in AnyCall : code' = [code EXCEPT !["program"] = call]
  BY DEF Calls
<1>2. /\ code["program"] = <<>> /\ UNCHANGED <<loaded, held, machine, plic>>
      /\ "program" \in Callees /\ "trap" \in Callees /\ BspShape
  BY DEF Calls, Callees, BspIInv
<1>3. held["program"] = 0
  BY <1>2, AtRestHoldsNothing DEF BspIInv
<1>4. code'["program"] = call /\ code'["trap"] = code["trap"]
  BY <1>1, <1>2 DEF BspShape
<1>5. InPhase("program")'
  BY <1>2, <1>3, <1>4, PlainAnyCall DEF InPhase, MakesPlain, AboutToClaim
<1>6. InPhase("trap")'
  BY <1>2, <1>4, SamePhase DEF BspIInv
<1>7. BspShape'
  BY <1>1, <1>2 DEF BspShape
<1>. QED  BY <1>2, <1>4, <1>5, <1>6, <1>7 DEF BspIInv, ClaimedOnce, Callees

LEMMA TrapsSteps ==
  ASSUME BspIInv, Traps
  PROVE  BspIInv'
<1>1. PICK cause \in {"external", "software"} :
        code' = [code EXCEPT !["trap"] = TrapHandler(cause)]
  BY DEF Traps
<1>2. /\ ~machine.trap /\ machine' = [machine EXCEPT !.trap = TRUE]
      /\ UNCHANGED <<loaded, held, plic>>
      /\ "program" \in Callees /\ "trap" \in Callees /\ BspShape
  BY DEF Traps, Callees, BspIInv
<1>3. held["trap"] = 0
  BY <1>2, AtRestHoldsNothing DEF BspIInv
<1>4. code'["trap"] = TrapHandler(cause) /\ code'["program"] = code["program"]
  BY <1>1, <1>2 DEF BspShape
<1>5. InPhase("trap")'
  <2>. ClintSetMsip(FALSE) \in Seq(Plain)
    BY PlainAccesses DEF ClintSetMsip
  <2>. QED  BY <1>2, <1>3, <1>4 DEF InPhase, MakesPlain, AboutToClaim, TrapHandler
<1>6. InPhase("program")'
  BY <1>2, <1>4, SamePhase DEF BspIInv
<1>7. machine'.trap = TRUE /\ machine' = [mie |-> machine'.mie, trap |-> machine'.trap]
  <2>. machine = [mie |-> machine.mie, trap |-> machine.trap]
    BY <1>2 DEF BspShape
  <2>. QED  BY <1>2
<1>8. BspShape'
  BY <1>1, <1>2, <1>7 DEF BspShape
<1>. QED  BY <1>2, <1>5, <1>6, <1>7, <1>8 DEF BspIInv, ClaimedOnce, Callees

LEMMA ReturnsSteps ==
  ASSUME BspIInv, Returns
  PROVE  BspIInv'
<1>1. /\ code["trap"] = <<>> /\ machine' = [machine EXCEPT !.trap = FALSE]
      /\ UNCHANGED <<code, loaded, held, plic>> /\ BspShape
  BY DEF Returns, BspIInv
<1>2. ASSUME NEW c \in Callees
      PROVE  InPhase(c)'
  BY <1>1, SamePhase DEF BspIInv
<1>3. machine' = [mie |-> machine'.mie, trap |-> machine'.trap]
  <2>. machine = [mie |-> machine.mie, trap |-> machine.trap]
    BY <1>1 DEF BspShape
  <2>. QED  BY <1>1
<1>4. BspShape' /\ ClaimedOnce'
  BY <1>1, <1>3 DEF BspShape, BspIInv, ClaimedOnce
<1>. QED  BY <1>1, <1>2, <1>4 DEF BspIInv

LEMMA EventSteps ==
  ASSUME BspIInv, PlicClock \/ DmacEnds \/ TimerReaches \/ DevicesAsk \/ UNCHANGED bspVars
  PROVE  BspIInv'
<1>1. UNCHANGED <<code, loaded, held, machine>> /\ BspShape
  BY DEF PlicClock, DmacEnds, TimerReaches, DevicesAsk, bspVars, BspIInv
<1>2. \/ UNCHANGED plic
      \/ \E pending \in SUBSET Sources : plic' = [plic EXCEPT !.pending = @ \cup pending]
  BY DEF PlicClock, DmacEnds, TimerReaches, DevicesAsk, bspVars
<1>3. /\ plic'.serving = plic.serving
      /\ plic' \in [priority : [Sources -> Levels \cup {0}], threshold : {plic'.threshold},
                    on : {plic'.on}, pending : SUBSET Sources, serving : SUBSET Sources]
  <2>1. CASE UNCHANGED plic
    BY <1>1, <2>1 DEF BspShape
  <2>2. ASSUME NEW pending \in SUBSET Sources, plic' = [plic EXCEPT !.pending = @ \cup pending]
        PROVE  /\ plic'.serving = plic.serving
               /\ plic' \in [priority : [Sources -> Levels \cup {0}], threshold : {plic'.threshold},
                             on : {plic'.on}, pending : SUBSET Sources, serving : SUBSET Sources]
    BY <1>1, <2>2 DEF BspShape
  <2>. QED  BY <1>2, <2>1, <2>2
<1>4. BspShape'
  BY <1>1, <1>3 DEF BspShape
<1>. QED  BY <1>1, <1>3, <1>4, KeepsClaims

(* Whatever a program does to the enables, the priorities and the claim    *)
(* register, and wherever the handler interrupts it, no source is claimed  *)
(* twice before it is completed, and each claim is in service until it is. *)
THEOREM ClaimsApart ==
  BspSpec => []ClaimedOnce
<1>1. BspInit => BspIInv
  BY BspStartsIn
<1>2. BspIInv /\ [BspNext]_bspVars => BspIInv'
  <2>. SUFFICES ASSUME BspIInv, [BspNext]_bspVars
                PROVE  BspIInv'
    OBVIOUS
  <2>1. ASSUME NEW c \in Callees, Executes(c)
        PROVE  BspIInv'
    BY <2>1, LoadsSteps, StoresSteps, DecidesSteps DEF Executes
  <2>2. CASE Handles \/ Continues
    BY <2>1, <2>2, ReturnsSteps, ComputesSteps DEF Handles, Continues, Callees
  <2>3. CASE Calls \/ Traps
    BY <2>3, CallsSteps, TrapsSteps
  <2>. QED  BY <2>2, <2>3, EventSteps DEF BspNext
<1>3. BspIInv => ClaimedOnce
  BY DEF BspIInv
<1>. QED  BY <1>1, <1>2, <1>3, PTL DEF BspSpec

=============================================================================
