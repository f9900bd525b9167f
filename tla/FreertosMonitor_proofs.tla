----------------------- MODULE FreertosMonitor_proofs -----------------------
(***************************************************************************)
(* The sample stream of the monitor stays whole, for every length of the   *)
(* event queue of at least two, every sequence of commands, and every      *)
(* interleaving that the priorities and the mutex allow.                   *)
(***************************************************************************)
EXTENDS FreertosMonitor, FiniteSetTheorems, SequenceTheorems, TLAPS

-----------------------------------------------------------------------------
(* Samples in a queue.                                                     *)

Kinds == {"sample", "burst", "queue", "bench"}

LEMMA SamplesFinite ==
  ASSUME NEW q \in Seq(Kinds)
  PROVE  IsFiniteSet(Samples(q)) /\ Cardinality(Samples(q)) \in Nat
<1>1. IsFiniteSet(1 .. Len(q))
  BY FS_Interval, LenProperties
<1>2. IsFiniteSet(Samples(q))
  BY <1>1, FS_Subset DEF Samples
<1>. QED  BY <1>2, FS_CardinalityType

LEMMA SamplesNone ==
  Samples(<<>>) = {} /\ Cardinality(Samples(<<>>)) = 0
BY FS_EmptySet DEF Samples

LEMMA SamplesAppend ==
  ASSUME NEW q \in Seq(Kinds), NEW k \in Kinds
  PROVE  Cardinality(Samples(Append(q, k)))
           = Cardinality(Samples(q)) + IF k = "sample" THEN 1 ELSE 0
<1>. DEFINE n == Len(q) + 1
            r == Append(q, k)
<1>1. /\ Len(q) \in Nat /\ Len(r) = n /\ r[n] = k
      /\ \A i \in 1 .. Len(q) : r[i] = q[i]
  BY LenProperties, AppendProperties
<1>2. n \notin Samples(q)
  BY <1>1 DEF Samples
<1>3. CASE k = "sample"
  <2>1. Samples(r) = Samples(q) \cup {n}
    BY <1>1, <1>3 DEF Samples
  <2>. QED  BY <1>2, <1>3, <2>1, SamplesFinite, FS_AddElement
<1>4. CASE k # "sample"
  <2>1. Samples(r) = Samples(q)
    BY <1>1, <1>4 DEF Samples
  <2>. QED  BY <1>4, <2>1, SamplesFinite
<1>. QED  BY <1>3, <1>4

LEMMA SamplesTail ==
  ASSUME NEW q \in Seq(Kinds), q # <<>>
  PROVE  Cardinality(Samples(q))
           = Cardinality(Samples(Tail(q))) + IF Head(q) = "sample" THEN 1 ELSE 0
<1>. DEFINE r == Tail(q)
            f == [i \in Samples(r) |-> i + 1]
            S == {i \in 2 .. Len(q) : q[i] = "sample"}
<1>1. /\ Len(q) \in Nat /\ Len(q) > 0 /\ r \in Seq(Kinds) /\ Len(r) = Len(q) - 1
      /\ \A i \in 1 .. Len(r) : r[i] = q[i + 1]
      /\ Head(q) = q[1]
  BY LenProperties, HeadTailProperties, EmptySeq
<1>2. f \in Bijection(Samples(r), S)
  <2>1. f \in [Samples(r) -> S]
    BY <1>1 DEF Samples
  <2>2. \A a, b \in Samples(r) : f[a] = f[b] => a = b
    BY <1>1 DEF Samples
  <2>3. \A s \in S : \E a \in Samples(r) : f[a] = s
    <3>. TAKE s \in S
    <3>1. s - 1 \in Samples(r)
      BY <1>1 DEF Samples
    <3>2. f[s - 1] = s
      BY <3>1
    <3>. QED  BY <3>1, <3>2
  <2>. QED  BY <2>1, <2>2, <2>3 DEF Bijection, Injection, Surjection, IsInjective
<1>3. IsFiniteSet(S) /\ Cardinality(S) = Cardinality(Samples(r))
  <2>1. IsFiniteSet(Samples(r))
    BY <1>1, SamplesFinite
  <2>2. ExistsBijection(Samples(r), S)
    <3>. HIDE DEF f, S, r
    <3>. QED  BY <1>2 DEF ExistsBijection
  <2>. HIDE DEF S, r
  <2>. QED  BY <2>1, <2>2, FS_Bijection
<1>4. Cardinality(Samples(r)) \in Nat
  BY <1>1, SamplesFinite
<1>5. CASE Head(q) = "sample"
  <2>1. Samples(q) = S \cup {1} /\ 1 \notin S
    BY <1>1, <1>5 DEF Samples
  <2>. QED  BY <1>3, <1>4, <1>5, <2>1, FS_AddElement
<1>6. CASE Head(q) # "sample"
  <2>1. Samples(q) = S
    BY <1>1, <1>6 DEF Samples
  <2>. QED  BY <1>3, <1>4, <1>6, <2>1
<1>. QED  BY <1>5, <1>6

-----------------------------------------------------------------------------
(* The invariant.                                                          *)

Commands == {"S", "q", "b", "r", "w", "d"}
Early == {"echo", "dispatch", "w_stop", "w_irqs", "w_frames", "w_drops", "w_start",
          "r_start", "d_stop", "d_note", "d_mode", "d_text", "send"}
Late == {"reply", "prompt", "unlock"}
ConsolePlaces == {"init", "lock", "getc", "take"} \cup Early \cup Late
WorkerPlaces == {"receive", "sample", "burst", "consumed", "bench", "lock", "print", "unlock"}
TimerPlaces == {"take", "lock", "print", "unlock"}
HoldPlaces == {"print"} \cup Early \cup Late

Places == [worker |-> WorkerPlaces, console |-> ConsolePlaces, timer |-> TimerPlaces]

TaskTypes ==
  /\ pc \in [Tasks -> WorkerPlaces \cup ConsolePlaces]
  /\ \A t \in Tasks : pc[t] \in Places[t]
  /\ wait \in [Tasks -> {"ready", "queue", "mutex", "notify", "tick"}]
  /\ holder \in Tasks \cup {"none"} /\ notified \subseteq Tasks

DataTypes ==
  /\ queue \in Seq(Kinds) /\ Len(queue) <= QueueLen /\ rxRing \in Seq(Commands)
  /\ key \in Commands \cup {"none"}
  /\ timer \in {"off", "on", "fired"} /\ mode \in {"idle", "bench"}
  /\ irq \in BOOLEAN /\ active \in BOOLEAN /\ overlap \in BOOLEAN /\ txFull \in BOOLEAN
  /\ sampleIrqs \in Nat /\ frames \in Nat /\ drops \in Nat

\* Who holds the mutex, and what a task may wait for where it is.  The worker
\* waits for the mutex only while another task holds it, since it is the first
\* to be woken.
Scheduled ==
  /\ \A t \in Tasks : holder = t <=> pc[t] \in HoldPlaces
  /\ \A t \in Tasks : /\ wait[t] = "mutex" => pc[t] = "lock"
                      /\ wait[t] = "tick" => pc[t] \in HoldPlaces
                      /\ wait[t] = "notify" => pc[t] = "take"
                      /\ wait[t] = "queue" => pc[t] = "receive" /\ queue = <<>>
  /\ wait["worker"] = "mutex" => holder # "none"

\* Until a command has had its effect the worker has nothing to do but one
\* sample: when the console came to run, the worker waited for its queue.
Quiet ==
  pc["console"] \in Early =>
    /\ pc["worker"] \in {"receive", "sample"}
    /\ \A i \in 1 .. Len(queue) : queue[i] = "sample"
    /\ Len(queue) <= 1 /\ (irq => queue = <<>>)

\* The place of the console goes with the command.
ForKey ==
  /\ pc["console"] \in {"echo", "dispatch"} => key \in Commands
  /\ pc["console"] \in {"w_stop", "w_irqs", "w_frames", "w_drops", "w_start"} => key = "w"
  /\ pc["console"] \in {"d_stop", "d_note", "d_mode", "d_text"} => key = "d"
  /\ pc["console"] = "send" => key \in {"q", "b", "d"}

\* The one benchmark under way: asked for, queued or running.
AskedFor == pc["console"] = "d_text" \/ (pc["console"] = "send" /\ key = "d")
Queued == \E i \in 1 .. Len(queue) : queue[i] = "bench"
OneBenchmark ==
  /\ mode = "idle" => ~AskedFor /\ ~Queued /\ pc["worker"] # "bench"
  /\ pc["worker"] = "bench" => ~AskedFor /\ ~Queued
  /\ \A i, j \in 1 .. Len(queue) : queue[i] = "bench" /\ queue[j] = "bench" => i = j
  /\ mode = "bench" => ~active
  /\ pc["console"] \in {"d_stop", "d_note", "d_mode"} => mode = "idle" /\ ~active

\* The counters, also while the console clears them.
Unused == queue = <<>> /\ pc["worker"] = "receive"
Counted ==
  \/ overlap
  \/ pc["console"] = "w_irqs" /\ Unused
  \/ pc["console"] = "w_frames" /\ Unused /\ sampleIrqs = 0
  \/ pc["console"] = "w_drops" /\ Unused /\ sampleIrqs = 0 /\ frames = 0
  \/ /\ pc["console"] \notin {"w_irqs", "w_frames", "w_drops"}
     /\ sampleIrqs = frames + drops + InHand

MonInv == TaskTypes /\ DataTypes /\ Scheduled /\ Quiet /\ ForKey /\ OneBenchmark /\ Counted

-----------------------------------------------------------------------------
(* Who runs.                                                               *)

\* The console runs only when the worker does not want to.
LEMMA ConsoleRuns ==
  ASSUME TaskTypes, Runs("console")
  PROVE  wait["worker"] # "ready"
<1>. SUFFICES ASSUME wait["worker"] = "ready" PROVE FALSE
  OBVIOUS
<1>. DEFINE W == {u \in Tasks : wait[u] = "mutex"}
            Best(t, p) == /\ p \in {Base[u] : u \in W \cup {t}}
                          /\ \A u \in W \cup {t} : Base[u] <= p
<1>1. /\ Base["worker"] = 3 /\ Base["console"] = 2 /\ Base["timer"] = 1
      /\ Tasks = {"worker", "console", "timer"} /\ "worker" \notin W
  BY DEF Base, Tasks
<1>2. \A t \in Tasks : Priority(t) = IF holder = t THEN CHOOSE p : Best(t, p) ELSE Base[t]
  BY DEF Priority
<1>3. Best("worker", 3) /\ Best("console", 2)
  BY <1>1
<1>4. Best("worker", CHOOSE p : Best("worker", p)) /\ Best("console", CHOOSE p : Best("console", p))
  BY <1>3
<1>5. \A p : /\ Best("worker", p) => p = 3
             /\ Best("console", p) => p = 2
  BY <1>1
<1>6. Priority("worker") = 3 /\ Priority("console") = 2
  BY <1>1, <1>2, <1>4, <1>5
<1>7. Priority("worker") <= Priority("console")
  BY <1>1 DEF Runs
<1>. QED  BY <1>6, <1>7

\* When it does, and holds the mutex or finds it free, the worker waits for
\* its queue.
LEMMA WorkerWaits ==
  ASSUME MonInv, Runs("console"),
         \/ pc["console"] \in Early
         \/ holder = "none"
  PROVE  Unused
<1>1. TaskTypes /\ Scheduled /\ Quiet
  BY DEF MonInv
<1>2. wait["worker"] \in {"queue", "mutex", "notify", "tick"}
  BY <1>1, ConsoleRuns DEF TaskTypes, Tasks
<1>3. wait["worker"] # "notify"
  BY <1>1 DEF TaskTypes, Places, Scheduled, Tasks, WorkerPlaces
<1>4. CASE pc["console"] \in Early
  BY <1>1, <1>2, <1>3, <1>4 DEF Scheduled, Quiet, Unused, Tasks, HoldPlaces, Early, Late
<1>5. CASE holder = "none"
  BY <1>1, <1>2, <1>3, <1>5 DEF Scheduled, Unused, Tasks
<1>. QED  BY <1>4, <1>5

-----------------------------------------------------------------------------
(* The kernel's operations, by any task.                                   *)

LEMMA LockKernel ==
  ASSUME TaskTypes, Scheduled, NEW t \in Tasks, NEW next \in Places[t] \cap HoldPlaces,
         Lock(t, next)
  PROVE  TaskTypes' /\ Scheduled'
<1>1. /\ pc[t] = "lock" /\ wait[t] = "ready" /\ queue' = queue /\ notified' = notified
      /\ holder # t /\ pc[t] \notin HoldPlaces
      /\ Places[t] \subseteq WorkerPlaces \cup ConsolePlaces
  BY DEF Lock, Runs, Scheduled, HoldPlaces, Early, Late, Places, Tasks, TimerPlaces, WorkerPlaces,
         ConsolePlaces
<1>2. CASE holder = "none" /\ holder' = t /\ pc' = [pc EXCEPT ![t] = next] /\ wait' = wait
  <2>1. TaskTypes'
    BY <1>1, <1>2 DEF TaskTypes
  <2>2. \A u \in Tasks : pc[u] \notin HoldPlaces
    BY <1>2 DEF Scheduled, Tasks
  <2>3. \A u \in Tasks : pc'[u] = IF u = t THEN next ELSE pc[u]
    BY <1>2 DEF TaskTypes
  <2>4. wait["worker"] # "mutex"
    BY <1>2 DEF Scheduled
  <2>. QED  BY <1>1, <1>2, <2>1, <2>2, <2>3, <2>4 DEF Scheduled
<1>3. CASE holder # "none" /\ wait' = [wait EXCEPT ![t] = "mutex"] /\ UNCHANGED <<holder, pc>>
  <2>1. TaskTypes'
    BY <1>1, <1>3 DEF TaskTypes
  <2>2. \A u \in Tasks : wait'[u] = IF u = t THEN "mutex" ELSE wait[u]
    BY <1>3 DEF TaskTypes
  <2>. QED  BY <1>1, <1>3, <2>1, <2>2 DEF Scheduled, Tasks
<1>. QED  BY <1>2, <1>3 DEF Lock, Goto, Block

LEMMA UnlockKernel ==
  ASSUME TaskTypes, Scheduled, NEW t \in Tasks, NEW next \in Places[t] \ HoldPlaces,
         Unlock(t, next)
  PROVE  TaskTypes' /\ Scheduled'
<1>1. /\ pc[t] = "unlock" /\ wait[t] = "ready" /\ queue' = queue /\ notified' = notified
      /\ holder = t /\ holder' = "none" /\ pc' = [pc EXCEPT ![t] = next]
      /\ Places[t] \subseteq WorkerPlaces \cup ConsolePlaces
  BY DEF Unlock, Runs, Scheduled, HoldPlaces, Early, Late, Goto, Places, Tasks, TimerPlaces,
         WorkerPlaces, ConsolePlaces
<1>2. /\ wait' \in [Tasks -> {"ready", "queue", "mutex", "notify", "tick"}]
      /\ \A u \in Tasks : wait'[u] \in {wait[u], "ready"}
      /\ wait'[t] = "ready"
      /\ wait["worker"] = "mutex" => wait'["worker"] = "ready"
  <2>1. \A v \in Tasks : Base[v] <= Base["worker"]
    BY DEF Base, Tasks
  <2>2. wait' = [u \in Tasks |->
                  IF wait[u] = "mutex" /\ \A v \in Tasks : wait[v] = "mutex" => Base[v] <= Base[u]
                  THEN "ready" ELSE wait[u]]
    BY DEF Unlock
  <2>. QED  BY <1>1, <2>1, <2>2 DEF TaskTypes, Tasks
<1>3. \A u \in Tasks : pc'[u] = IF u = t THEN next ELSE pc[u]
  BY <1>1 DEF TaskTypes
<1>4. TaskTypes'
  BY <1>1, <1>2, <1>3 DEF TaskTypes
<1>5. \A u \in Tasks : pc'[u] \notin HoldPlaces
  BY <1>1, <1>3 DEF Scheduled
<1>6. wait'["worker"] # "mutex"
  BY <1>2 DEF Tasks
<1>7. "none" \notin Tasks
  BY DEF Tasks
<1>. QED  BY <1>1, <1>2, <1>3, <1>4, <1>5, <1>6, <1>7 DEF Scheduled

LEMMA PutsKernel ==
  ASSUME TaskTypes, Scheduled, NEW t \in Tasks, NEW next \in Places[t] \cap HoldPlaces,
         NEW here \in HoldPlaces, Puts(t, here, next)
  PROVE  TaskTypes' /\ Scheduled'
<1>1. /\ pc[t] = here /\ wait[t] = "ready" /\ queue' = queue /\ notified' = notified
      /\ holder = t /\ holder' = holder
      /\ Places[t] \subseteq WorkerPlaces \cup ConsolePlaces
  BY DEF Puts, Runs, Scheduled, Places, Tasks, TimerPlaces, WorkerPlaces, ConsolePlaces
<1>2. CASE pc' = [pc EXCEPT ![t] = next] /\ wait' = wait
  <2>1. \A u \in Tasks : pc'[u] = IF u = t THEN next ELSE pc[u]
    BY <1>2 DEF TaskTypes
  <2>. QED  BY <1>1, <1>2, <2>1 DEF TaskTypes, Scheduled
<1>3. CASE wait' = [wait EXCEPT ![t] = "tick"] /\ pc' = pc
  <2>1. \A u \in Tasks : wait'[u] = IF u = t THEN "tick" ELSE wait[u]
    BY <1>3 DEF TaskTypes
  <2>. QED  BY <1>1, <1>3, <2>1 DEF TaskTypes, Scheduled, Tasks
<1>. QED  BY <1>2, <1>3 DEF Puts, Goto, Block

LEMMA TakeKernel ==
  ASSUME TaskTypes, Scheduled, NEW t \in Tasks, NEW next \in Places[t] \ HoldPlaces,
         TakeNotification(t, next)
  PROVE  TaskTypes' /\ Scheduled'
<1>1. /\ pc[t] = "take" /\ wait[t] = "ready" /\ queue' = queue /\ holder' = holder
      /\ notified' \subseteq Tasks /\ pc[t] \notin HoldPlaces
      /\ Places[t] \subseteq WorkerPlaces \cup ConsolePlaces
  <2>1. notified' = notified \ {t} \/ notified' = notified
    BY DEF TakeNotification
  <2>2. pc[t] = "take" /\ wait[t] = "ready" /\ queue' = queue /\ holder' = holder
    BY DEF TakeNotification, Runs
  <2>3. notified' \subseteq Tasks
    BY <2>1 DEF TaskTypes
  <2>4. pc[t] \notin HoldPlaces
    BY <2>2 DEF HoldPlaces, Early, Late
  <2>5. Places[t] \subseteq WorkerPlaces \cup ConsolePlaces
    BY DEF Places, Tasks, TimerPlaces, WorkerPlaces, ConsolePlaces
  <2>. QED  BY <2>2, <2>3, <2>4, <2>5
<1>2. CASE pc' = [pc EXCEPT ![t] = next] /\ wait' = wait
  <2>1. \A u \in Tasks : pc'[u] = IF u = t THEN next ELSE pc[u]
    BY <1>2 DEF TaskTypes
  <2>. QED  BY <1>1, <1>2, <2>1 DEF TaskTypes, Scheduled
<1>3. CASE wait' = [wait EXCEPT ![t] = "notify"] /\ pc' = pc
  <2>1. \A u \in Tasks : wait'[u] = IF u = t THEN "notify" ELSE wait[u]
    BY <1>3 DEF TaskTypes
  <2>. QED  BY <1>1, <1>3, <2>1 DEF TaskTypes, Scheduled, Tasks
<1>. QED  BY <1>2, <1>3 DEF TakeNotification, Goto, Block

-----------------------------------------------------------------------------
(* Steps beside the stream.                                                *)

\* Nothing that the stream depends on moves.
LEMMA Aside ==
  ASSUME MonInv, TaskTypes', DataTypes', Scheduled',
         pc'["worker"] = pc["worker"], pc'["console"] = pc["console"],
         UNCHANGED <<queue, key, mode, active, sampleIrqs, frames, drops, overlap>>,
         pc["console"] \in Early /\ irq' => irq \/ queue = <<>>
  PROVE  MonInv'
<1>1. Quiet' /\ ForKey' /\ OneBenchmark'
  BY DEF MonInv, Quiet, ForKey, OneBenchmark, AskedFor, Queued
<1>2. Counted'
  <2>1. InHand' = InHand /\ (Unused => Unused')
    BY DEF InHand, Samples, Unused
  <2>. QED  BY <2>1 DEF MonInv, Counted
<1>. QED  BY <1>1, <1>2 DEF MonInv

LEMMA TimerTaskStep ==
  ASSUME MonInv, TimerTask
  PROVE  MonInv'
<1>1. TaskTypes /\ DataTypes /\ Scheduled /\ "timer" \in Tasks
  BY DEF MonInv, Tasks
<1>2. /\ "lock" \in Places["timer"] \ HoldPlaces /\ "take" \in Places["timer"] \ HoldPlaces
      /\ "print" \in Places["timer"] \cap HoldPlaces
      /\ "unlock" \in Places["timer"] \cap HoldPlaces
  BY DEF Places, TimerPlaces, HoldPlaces, Early, Late
<1>3. TaskTypes' /\ Scheduled'
  BY <1>1, <1>2, LockKernel, UnlockKernel, PutsKernel, TakeKernel DEF TimerTask
<1>4. /\ UNCHANGED <<queue, key, mode, active, sampleIrqs, frames, drops, overlap, irq, timer,
                     rxRing>>
      /\ txFull' \in BOOLEAN
  BY <1>1 DEF TimerTask, TakeNotification, Lock, Puts, Unlock, uart, timer0, stream, DataTypes
<1>5. \A u \in {"worker", "console"} : pc'[u] = pc[u]
  BY <1>1 DEF TimerTask, TakeNotification, Lock, Puts, Unlock, Goto, TaskTypes, Tasks
<1>. QED  BY <1>1, <1>3, <1>4, <1>5, Aside DEF DataTypes

\* Ticks and notifications only make tasks ready.
LEMMA WakesKernel ==
  ASSUME TaskTypes, Scheduled, UNCHANGED <<pc, holder>>, notified' \subseteq Tasks,
         wait' \in [Tasks -> {"ready", "queue", "mutex", "notify", "tick"}],
         \A t \in Tasks : wait'[t] \in {wait[t], "ready"},
         queue' = queue \/ wait'["worker"] = "ready"
  PROVE  TaskTypes' /\ Scheduled'
<1>1. TaskTypes'
  BY DEF TaskTypes
<1>2. \A t \in Tasks : wait[t] = "queue" => t = "worker"
  BY DEF Scheduled, TaskTypes, Places, ConsolePlaces, TimerPlaces, Tasks, Early, Late
<1>. QED  BY <1>1, <1>2 DEF Scheduled, Tasks

LEMMA TickStep ==
  ASSUME MonInv, Tick
  PROVE  MonInv'
<1>1. TaskTypes /\ DataTypes /\ Scheduled
  BY DEF MonInv
<1>2. wait' = [t \in Tasks |-> IF wait[t] = "tick" THEN "ready" ELSE wait[t]]
  BY DEF Tick
<1>3. /\ UNCHANGED <<pc, holder, notified, queue, key, uart, timer0, stream, mode>>
  BY DEF Tick
<1>4. /\ wait' \in [Tasks -> {"ready", "queue", "mutex", "notify", "tick"}]
      /\ \A t \in Tasks : wait'[t] \in {wait[t], "ready"}
  BY <1>1, <1>2 DEF TaskTypes
<1>5. notified' \subseteq Tasks
  BY <1>1, <1>3 DEF TaskTypes
<1>6. TaskTypes' /\ Scheduled'
  BY <1>1, <1>3, <1>4, <1>5, WakesKernel
<1>. QED  BY <1>1, <1>3, <1>6, Aside DEF DataTypes, uart, timer0, stream

LEMMA NotifyKernel ==
  ASSUME TaskTypes, Scheduled, NEW t \in Tasks, Notify(t), UNCHANGED <<pc, holder, queue>>
  PROVE  TaskTypes' /\ Scheduled'
<1>1. /\ wait' = [wait EXCEPT ![t] = IF wait[t] = "notify" THEN "ready" ELSE wait[t]]
      /\ notified' = notified \cup {t}
  BY DEF Notify
<1>2. /\ wait' \in [Tasks -> {"ready", "queue", "mutex", "notify", "tick"}]
      /\ \A u \in Tasks : wait'[u] \in {wait[u], "ready"}
      /\ notified' \subseteq Tasks
  BY <1>1 DEF TaskTypes
<1>. QED  BY <1>2, WakesKernel

LEMMA UartIrqStep ==
  ASSUME MonInv, UartIrq
  PROVE  MonInv'
<1>1. TaskTypes /\ DataTypes /\ Scheduled /\ "console" \in Tasks
  BY DEF MonInv, Tasks
<1>2. UNCHANGED <<pc, holder, queue, key, timer0, stream, mode>> /\ Notify("console")
  BY DEF UartIrq
<1>3. TaskTypes' /\ Scheduled'
  BY <1>1, <1>2, NotifyKernel
<1>4. rxRing' \in Seq(Commands) /\ txFull' \in BOOLEAN
  <2>1. Keys \subseteq Commands
    BY MonitorAssumption DEF Commands
  <2>2. rxRing \in Seq(Commands) /\ txFull \in BOOLEAN
    BY <1>1 DEF DataTypes
  <2>3. \A k \in Keys : Append(rxRing, k) \in Seq(Commands)
    BY <2>1, <2>2, AppendProperties
  <2>4. \/ (\E k \in Keys : rxRing' = Append(rxRing, k)) /\ txFull' = txFull
        \/ txFull' = FALSE /\ rxRing' = rxRing
    BY DEF UartIrq
  <2>. QED  BY <2>2, <2>3, <2>4
<1>. QED  BY <1>1, <1>2, <1>3, <1>4, Aside DEF DataTypes, timer0, stream

LEMMA TimerExpiresStep ==
  ASSUME MonInv, TimerExpires
  PROVE  MonInv'
<1>1. TaskTypes /\ DataTypes /\ Scheduled /\ Quiet
  BY DEF MonInv
<1>2. UNCHANGED <<pc, kernel, queue, key, uart, stream, mode>>
      /\ timer' = "fired" /\ irq' = TRUE
  BY DEF TimerExpires
<1>3. TaskTypes' /\ Scheduled' /\ DataTypes'
  BY <1>1, <1>2 DEF TaskTypes, Scheduled, DataTypes, kernel, uart, stream
<1>4. pc["console"] \in Early => queue = <<>>
  <2>. SUFFICES ASSUME pc["console"] \in Early PROVE queue = <<>>
    OBVIOUS
  <2>1. pc["worker"] \in {"receive", "sample"}
    BY <1>1 DEF Quiet
  <2>2. wait["worker"] \in {"ready", "queue"}
    BY <1>1, <2>1 DEF TaskTypes, Scheduled, Tasks, HoldPlaces, Early, Late
  <2>. QED  BY <1>1, <2>2 DEF TimerExpires, Scheduled, Tasks
<1>. QED  BY <1>2, <1>3, <1>4, Aside DEF stream

\* A sample is queued, or dropped.
LEMMA SampleStep ==
  ASSUME MonInv, TimerIrq, active
  PROVE  MonInv'
<1>1. TaskTypes /\ DataTypes /\ Scheduled /\ Quiet /\ ForKey /\ OneBenchmark /\ Counted
  BY DEF MonInv
<1>2. /\ irq /\ irq' = FALSE /\ timer' = "on"
      /\ sampleIrqs' = sampleIrqs + 1
      /\ drops' = IF Len(queue) < QueueLen THEN drops ELSE drops + 1
      /\ overlap' = (overlap \/ pc["console"] \in {"w_irqs", "w_frames", "w_drops"})
      /\ UNCHANGED <<notified, active, frames, pc, holder, key, uart, mode>>
  BY DEF TimerIrq, CountSample
<1>3. \/ /\ Len(queue) < QueueLen /\ queue' = Append(queue, "sample")
         /\ wait' = [wait EXCEPT !["worker"] = IF @ = "queue" THEN "ready" ELSE @]
      \/ Len(queue) >= QueueLen /\ UNCHANGED <<queue, wait>>
  BY <1>1, MonitorAssumption, LenProperties DEF TimerIrq, CountSample, Send, DataTypes
<1>4. /\ queue' \in Seq(Kinds) /\ queue \in Seq(Kinds)
      /\ \A i \in 1 .. Len(queue') :
           queue'[i] = "sample" \/ (i \in 1 .. Len(queue) /\ queue'[i] = queue[i])
  <2>1. "sample" \in Kinds /\ queue \in Seq(Kinds) /\ Len(queue) \in Nat
    BY <1>1, LenProperties DEF Kinds, DataTypes
  <2>2. CASE queue' = Append(queue, "sample")
    <3>1. /\ queue' \in Seq(Kinds) /\ Len(queue') = Len(queue) + 1
          /\ \A i \in 1 .. Len(queue) : queue'[i] = queue[i]
          /\ queue'[Len(queue) + 1] = "sample"
      BY <2>1, <2>2, AppendProperties
    <3>. QED  BY <2>1, <3>1
  <2>. QED  BY <1>3, <2>1, <2>2
<1>5. DataTypes'
  <2>1. sampleIrqs' \in Nat /\ drops' \in Nat /\ overlap' \in BOOLEAN
    <3>1. sampleIrqs \in Nat /\ drops \in Nat /\ overlap \in BOOLEAN
      BY <1>1 DEF DataTypes
    <3>. QED  BY <1>2, <3>1
  <2>2. Len(queue') <= QueueLen
    <3>1. /\ Len(queue) \in Nat /\ Len(queue) <= QueueLen /\ QueueLen \in Nat
          /\ Len(Append(queue, "sample")) = Len(queue) + 1
      BY <1>1, MonitorAssumption, LenProperties, AppendProperties DEF DataTypes, Kinds
    <3>. QED  BY <1>3, <3>1
  <2>. QED  BY <1>1, <1>2, <1>4, <2>1, <2>2 DEF DataTypes, uart
<1>6. TaskTypes' /\ Scheduled'
  <2>1. /\ wait' \in [Tasks -> {"ready", "queue", "mutex", "notify", "tick"}]
        /\ \A t \in Tasks : wait'[t] \in {wait[t], "ready"}
        /\ wait'["worker"] # "queue" \/ queue' = queue
    BY <1>1, <1>3 DEF TaskTypes, Tasks
  <2>2. \A t \in Tasks : wait[t] = "queue" => t = "worker"
    BY <1>1 DEF Scheduled, TaskTypes, Places, ConsolePlaces, TimerPlaces, Tasks, Early, Late
  <2>3. TaskTypes'
    BY <1>1, <1>2, <2>1 DEF TaskTypes
  <2>. QED  BY <1>1, <1>2, <2>1, <2>2, <2>3 DEF Scheduled, Tasks
<1>7. Quiet'
  <2>. SUFFICES ASSUME pc["console"] \in Early PROVE Quiet'
    BY <1>2 DEF Quiet
  <2>1. queue = <<>> /\ pc["worker"] \in {"receive", "sample"}
    BY <1>1, <1>2 DEF Quiet
  <2>2. Len(queue') <= 1 /\ \A i \in 1 .. Len(queue') : queue'[i] = "sample"
    BY <1>3, <1>4, <2>1, AppendProperties, LenProperties, EmptySeq DEF Kinds
  <2>. QED  BY <1>2, <2>1, <2>2 DEF Quiet
<1>8. ForKey'
  BY <1>1, <1>2 DEF ForKey
<1>9. OneBenchmark'
  BY <1>1, <1>2, <1>4 DEF OneBenchmark, AskedFor, Queued
<1>10. Counted'
  <2>1. CASE overlap'
    BY <2>1 DEF Counted
  <2>2. CASE ~overlap'
    <3>1. /\ pc["console"] \notin {"w_irqs", "w_frames", "w_drops"}
          /\ sampleIrqs = frames + drops + InHand
      BY <1>1, <1>2, <2>2 DEF Counted
    <3>2. /\ InHand \in Nat
          /\ InHand' = InHand + IF Len(queue) < QueueLen THEN 1 ELSE 0
      <4>1. "sample" \in Kinds
        BY DEF Kinds
      <4>2. Cardinality(Samples(queue)) \in Nat
        BY <1>4, SamplesFinite
      <4>3. Cardinality(Samples(queue'))
              = Cardinality(Samples(queue)) + IF Len(queue) < QueueLen THEN 1 ELSE 0
        <5>1. Len(queue) \in Nat /\ QueueLen \in Nat
          BY <1>4, MonitorAssumption, LenProperties
        <5>2. CASE Len(queue) < QueueLen
          <6>1. queue' = Append(queue, "sample")
            BY <1>3, <5>1, <5>2
          <6>. QED  BY <1>4, <4>1, <5>2, <6>1, SamplesAppend
        <5>3. CASE Len(queue) >= QueueLen
          BY <1>3, <4>2, <5>1, <5>3
        <5>. QED  BY <5>1, <5>2, <5>3
      <4>. QED  BY <1>2, <4>2, <4>3 DEF InHand
    <3>3. sampleIrqs' = frames' + drops' + InHand'
      BY <1>1, <1>2, <3>1, <3>2 DEF DataTypes
    <3>. QED  BY <1>2, <3>1, <3>3 DEF Counted
  <2>. QED  BY <2>1, <2>2
<1>. QED  BY <1>5, <1>6, <1>7, <1>8, <1>9, <1>10 DEF MonInv

LEMMA TimerIrqStep ==
  ASSUME MonInv, TimerIrq
  PROVE  MonInv'
<1>1. CASE active
  BY <1>1, SampleStep
<1>2. CASE ~active
  <2>1. TaskTypes /\ DataTypes /\ Scheduled /\ "timer" \in Tasks
    BY DEF MonInv, Tasks
  <2>2. /\ Notify("timer") /\ irq' = FALSE /\ timer' = "off"
        /\ UNCHANGED <<pc, holder, queue, key, uart, stream, mode>>
    BY <1>2 DEF TimerIrq
  <2>3. TaskTypes' /\ Scheduled'
    BY <2>1, <2>2, NotifyKernel
  <2>. QED  BY <2>1, <2>2, <2>3, Aside DEF DataTypes, uart, stream
<1>. QED  BY <1>1, <1>2
-----------------------------------------------------------------------------
(* The worker's steps.                                                     *)

\* Locking, printing and what is done for a burst or a queue event.
LEMMA WorkerBeside ==
  ASSUME MonInv, TaskTypes', DataTypes', Scheduled', pc'["console"] = pc["console"],
         pc["worker"] \notin {"receive", "sample"}, pc'["worker"] \notin {"sample", "bench"},
         UNCHANGED <<queue, key, active, sampleIrqs, frames, drops, overlap>>,
         mode' = mode \/ (pc["worker"] = "bench" /\ mode' = "idle")
  PROVE  MonInv'
<1>1. pc["console"] \notin Early /\ ForKey /\ OneBenchmark /\ Counted
  BY DEF MonInv, Quiet
<1>2. Quiet' /\ ForKey'
  BY <1>1 DEF Quiet, ForKey
<1>3. OneBenchmark'
  <2>1. Queued' <=> Queued
    BY DEF Queued
  <2>2. ~AskedFor /\ ~AskedFor'
    BY <1>1 DEF AskedFor, Early
  <2>3. pc'["console"] \notin {"d_stop", "d_note", "d_mode"}
    BY <1>1 DEF Early
  <2>4. mode' = "bench" => ~active'
    BY <1>1 DEF OneBenchmark
  <2>5. mode' = "idle" => ~Queued'
    BY <1>1, <2>1 DEF OneBenchmark
  <2>. QED  BY <1>1, <2>1, <2>2, <2>3, <2>4, <2>5 DEF OneBenchmark
<1>4. Counted'
  <2>1. InHand' = InHand
    BY DEF InHand, Samples
  <2>. QED  BY <1>1, <2>1 DEF Counted, Early
<1>. QED  BY <1>2, <1>3, <1>4 DEF MonInv

LEMMA WorkerPrints ==
  ASSUME MonInv, \/ Lock("worker", "print") \/ Puts("worker", "print", "unlock")
                 \/ Unlock("worker", "receive")
  PROVE  MonInv'
<1>1. TaskTypes /\ DataTypes /\ Scheduled /\ "worker" \in Tasks
  BY DEF MonInv, Tasks
<1>2. /\ "receive" \in Places["worker"] \ HoldPlaces
      /\ "print" \in Places["worker"] \cap HoldPlaces
      /\ "unlock" \in Places["worker"] \cap HoldPlaces
      /\ "print" \in HoldPlaces
  BY DEF Places, WorkerPlaces, HoldPlaces, Early, Late
<1>3. TaskTypes' /\ Scheduled'
  BY <1>1, <1>2, LockKernel, UnlockKernel, PutsKernel
<1>4. /\ UNCHANGED <<queue, key, mode, active, sampleIrqs, frames, drops, overlap, irq, timer,
                     rxRing>>
      /\ txFull' \in BOOLEAN
  BY <1>1 DEF Lock, Puts, Unlock, uart, timer0, stream, DataTypes
<1>5. /\ pc["worker"] \in {"lock", "print", "unlock"}
      /\ pc'["worker"] \in {"lock", "print", "unlock", "receive"}
      /\ pc'["console"] = pc["console"]
  BY <1>1 DEF Lock, Puts, Unlock, Goto, TaskTypes, Tasks
<1>6. DataTypes'
  BY <1>1, <1>4 DEF DataTypes
<1>. QED  BY <1>3, <1>4, <1>5, <1>6, WorkerBeside

\* The worker moves on, outside the mutex.
LEMMA WorkerGoes ==
  ASSUME TaskTypes, Scheduled, Runs("worker"), pc["worker"] \notin HoldPlaces,
         NEW next \in WorkerPlaces \ HoldPlaces, Goto("worker", next),
         UNCHANGED kernel, queue' = queue \/ pc["worker"] = "receive"
  PROVE  /\ TaskTypes' /\ Scheduled'
         /\ pc'["worker"] = next /\ pc'["console"] = pc["console"]
<1>1. \A u \in Tasks : pc'[u] = IF u = "worker" THEN next ELSE pc[u]
  BY DEF Goto, TaskTypes
<1>2. /\ Tasks = {"worker", "console", "timer"} /\ wait["worker"] = "ready"
      /\ wait' = wait /\ holder' = holder /\ notified' = notified
  BY DEF Tasks, Runs, kernel
<1>3. TaskTypes'
  BY <1>1, <1>2 DEF TaskTypes, Goto, Places
<1>4. \A t \in Tasks : wait[t] = "queue" => t = "worker"
  BY <1>2 DEF Scheduled, TaskTypes, Places, ConsolePlaces, TimerPlaces, Early, Late
<1>5. Scheduled'
  BY <1>1, <1>2, <1>4 DEF Scheduled
<1>. QED  BY <1>1, <1>2, <1>3, <1>5

LEMMA WorkStep ==
  ASSUME MonInv, Work \/ BenchmarkEnds
  PROVE  MonInv'
<1>1. TaskTypes /\ DataTypes /\ Scheduled
  BY DEF MonInv
<1>2. PICK next \in {"receive", "lock"} :
        /\ Goto("worker", next) /\ Runs("worker") /\ pc["worker"] \in {"burst", "consumed", "bench"}
        /\ UNCHANGED <<kernel, queue, key, uart, timer0, stream>>
        /\ mode' = mode \/ (pc["worker"] = "bench" /\ mode' = "idle")
  <2>1. CASE Work
    BY <2>1 DEF Work
  <2>2. CASE BenchmarkEnds
    BY <2>2 DEF BenchmarkEnds
  <2>. QED  BY <2>1, <2>2
<1>3. next \in WorkerPlaces \ HoldPlaces /\ pc["worker"] \notin HoldPlaces
  BY <1>2 DEF WorkerPlaces, HoldPlaces, Early, Late
<1>4. /\ TaskTypes' /\ Scheduled'
      /\ pc'["worker"] = next /\ pc'["console"] = pc["console"]
  BY <1>1, <1>2, <1>3, WorkerGoes
<1>5. DataTypes'
  BY <1>1, <1>2 DEF DataTypes, uart, timer0, stream
<1>. QED  BY <1>2, <1>4, <1>5, WorkerBeside DEF stream

\* A sample that was in hand becomes a frame.
LEMMA ProcessSampleStep ==
  ASSUME MonInv, ProcessSample
  PROVE  MonInv'
<1>1. TaskTypes /\ DataTypes /\ Scheduled /\ Quiet /\ ForKey /\ OneBenchmark /\ Counted
  BY DEF MonInv
<1>2. /\ Goto("worker", "receive") /\ Runs("worker") /\ pc["worker"] = "sample"
      /\ frames' = frames + 1
      /\ UNCHANGED <<kernel, queue, key, uart, timer0, active, sampleIrqs, drops, overlap, mode>>
  BY DEF ProcessSample
<1>3. "receive" \in WorkerPlaces \ HoldPlaces /\ "sample" \notin HoldPlaces
  BY DEF WorkerPlaces, HoldPlaces, Early, Late
<1>4. /\ TaskTypes' /\ Scheduled'
      /\ pc'["worker"] = "receive" /\ pc'["console"] = pc["console"]
  BY <1>1, <1>2, <1>3, WorkerGoes
<1>5. DataTypes'
  BY <1>1, <1>2 DEF DataTypes, uart, timer0
<1>6. Quiet' /\ ForKey' /\ OneBenchmark'
  BY <1>1, <1>2, <1>4 DEF Quiet, ForKey, OneBenchmark, AskedFor, Queued, timer0
<1>7. Counted'
  <2>1. Cardinality(Samples(queue)) \in Nat /\ frames \in Nat /\ drops \in Nat
    BY <1>1, SamplesFinite DEF DataTypes
  <2>2. InHand = Cardinality(Samples(queue)) + 1 /\ InHand' = Cardinality(Samples(queue))
    BY <1>2, <1>4, <2>1 DEF InHand
  <2>. QED  BY <1>1, <1>2, <1>4, <2>1, <2>2 DEF Counted, Unused
<1>. QED  BY <1>4, <1>5, <1>6, <1>7 DEF MonInv

\* The worker waits for its queue, or takes its first event.
LEMMA ReceiveStep ==
  ASSUME MonInv, Receive
  PROVE  MonInv'
<1>1. TaskTypes /\ DataTypes /\ Scheduled /\ Quiet /\ ForKey /\ OneBenchmark /\ Counted
  BY DEF MonInv
<1>2. /\ Runs("worker") /\ pc["worker"] = "receive"
      /\ UNCHANGED <<holder, notified, key, uart, timer0, stream, mode>>
  BY DEF Receive
<1>3. CASE queue = <<>>
  <2>1. wait' = [wait EXCEPT !["worker"] = "queue"] /\ pc' = pc /\ queue' = queue
    BY <1>3 DEF Receive, Block
  <2>2. \A u \in Tasks : wait'[u] = IF u = "worker" THEN "queue" ELSE wait[u]
    BY <1>1, <2>1 DEF TaskTypes
  <2>3. TaskTypes'
    BY <1>1, <1>2, <2>1 DEF TaskTypes
  <2>4. Scheduled'
    BY <1>1, <1>2, <1>3, <2>1, <2>2 DEF Scheduled
  <2>5. DataTypes'
    BY <1>1, <1>2, <2>1 DEF DataTypes, uart, timer0, stream
  <2>. QED  BY <1>2, <1>3, <2>1, <2>3, <2>4, <2>5, Aside DEF stream, timer0
<1>4. CASE queue # <<>>
  <2>. DEFINE k == Head(queue)
              next == WorkerKind[k]
  <2>1. queue' = Tail(queue) /\ Goto("worker", next) /\ wait' = wait
    BY <1>4 DEF Receive
  <2>2. /\ queue \in Seq(Kinds) /\ Len(queue) \in Nat /\ Len(queue) > 0
        /\ queue' \in Seq(Kinds) /\ Len(queue') = Len(queue) - 1
        /\ \A i \in 1 .. Len(queue') : queue'[i] = queue[i + 1]
        /\ k = queue[1] /\ k \in Kinds
    BY <1>1, <1>4, <2>1, LenProperties, HeadTailProperties, EmptySeq DEF DataTypes
  <2>3. /\ next \in {"sample", "burst", "consumed", "bench"}
        /\ next = "sample" <=> k = "sample"
        /\ next = "bench" <=> k = "bench"
    BY <2>2 DEF WorkerKind, Kinds
  <2>4. next \in WorkerPlaces \ HoldPlaces /\ "receive" \notin HoldPlaces
    BY <2>3 DEF WorkerPlaces, HoldPlaces, Early, Late
  <2>. HIDE DEF next, k
  <2>5. /\ TaskTypes' /\ Scheduled'
        /\ pc'["worker"] = next /\ pc'["console"] = pc["console"]
    BY <1>1, <1>2, <2>1, <2>4, WorkerGoes DEF kernel
  <2>6. DataTypes'
    <3>1. Len(queue') <= QueueLen
      BY <1>1, <2>2, MonitorAssumption DEF DataTypes
    <3>. QED  BY <1>1, <1>2, <2>2, <3>1 DEF DataTypes, uart, timer0, stream
  <2>7. ForKey'
    BY <1>1, <1>2, <2>5 DEF ForKey
  <2>8. Quiet'
    <3>. SUFFICES ASSUME pc["console"] \in Early PROVE Quiet'
      BY <2>5 DEF Quiet
    <3>1. /\ \A i \in 1 .. Len(queue) : queue[i] = "sample"
          /\ Len(queue) <= 1
      BY <1>1 DEF Quiet
    <3>2. k = "sample" /\ Len(queue') = 0
      BY <2>2, <3>1
    <3>3. queue' = <<>>
      BY <2>2, <3>2, EmptySeq
    <3>. QED  BY <2>3, <2>5, <3>2, <3>3 DEF Quiet
  <2>9. OneBenchmark'
    <3>1. /\ 1 \in 1 .. Len(queue)
          /\ \A i \in 1 .. Len(queue') : i + 1 \in 1 .. Len(queue) /\ queue[i + 1] = queue'[i]
      BY <2>2
    <3>2. AskedFor' <=> AskedFor
      BY <1>2, <2>5 DEF AskedFor
    <3>3. Queued' => Queued
      BY <3>1 DEF Queued
    <3>4. k = "bench" => Queued /\ ~Queued' /\ ~AskedFor
      <4>1. k = "bench" => Queued
        BY <2>2, <3>1 DEF Queued
      <4>2. k = "bench" => ~Queued'
        <5>1. ASSUME k = "bench", Queued' PROVE FALSE
          <6>1. PICK i \in 1 .. Len(queue') : queue'[i] = "bench"
            BY <5>1 DEF Queued
          <6>2. queue[i + 1] = "bench" /\ queue[1] = "bench" /\ i + 1 \in 1 .. Len(queue)
                /\ i \in Nat /\ i > 0
            BY <2>2, <3>1, <5>1, <6>1
          <6>3. i + 1 = 1
            BY <1>1, <3>1, <6>2 DEF OneBenchmark
          <6>. QED  BY <6>2, <6>3
        <5>. QED  BY <5>1
      <4>3. k = "bench" => ~AskedFor
        BY <1>1, <2>2, <3>1 DEF AskedFor, Quiet, Early
      <4>. QED  BY <4>1, <4>2, <4>3
    <3>5. \A i, j \in 1 .. Len(queue') : queue'[i] = "bench" /\ queue'[j] = "bench" => i = j
      <4>. TAKE i, j \in 1 .. Len(queue')
      <4>1. queue'[i] = "bench" /\ queue'[j] = "bench" => i + 1 = j + 1
        BY <1>1, <3>1 DEF OneBenchmark
      <4>. QED  BY <2>2, <4>1
    <3>6. mode' = mode /\ active' = active
      BY <1>2 DEF stream
    <3>7. /\ mode' = "idle" => ~AskedFor' /\ ~Queued' /\ pc'["worker"] # "bench"
          /\ pc'["worker"] = "bench" => ~AskedFor' /\ ~Queued'
      BY <1>1, <2>3, <2>5, <3>2, <3>3, <3>4, <3>6 DEF OneBenchmark
    <3>. QED  BY <1>1, <2>5, <3>5, <3>6, <3>7 DEF OneBenchmark
  <2>10. Counted'
    <3>1. Cardinality(Samples(queue)) = Cardinality(Samples(queue')) + IF k = "sample" THEN 1 ELSE 0
      BY <1>4, <2>1, <2>2, SamplesTail DEF k
    <3>2. Cardinality(Samples(queue)) \in Nat /\ Cardinality(Samples(queue')) \in Nat
      BY <2>2, SamplesFinite
    <3>3. InHand' = InHand
      BY <1>2, <2>3, <2>5, <3>1, <3>2 DEF InHand
    <3>. QED  BY <1>1, <1>2, <1>4, <2>5, <3>3 DEF Counted, Unused, stream
  <2>. QED  BY <2>5, <2>6, <2>7, <2>8, <2>9, <2>10 DEF MonInv
<1>. QED  BY <1>3, <1>4

LEMMA WorkerStep ==
  ASSUME MonInv, Worker
  PROVE  MonInv'
BY ReceiveStep, ProcessSampleStep, WorkStep, WorkerPrints DEF Worker
-----------------------------------------------------------------------------
(* The console's steps.                                                    *)

Clearing == {"w_irqs", "w_frames", "w_drops"}

\* The console moves on, and keeps the mutex or goes without.
LEMMA ConsoleGoes ==
  ASSUME TaskTypes, Scheduled, Runs("console"),
         NEW next \in ConsolePlaces, pc["console"] \in HoldPlaces <=> next \in HoldPlaces,
         Goto("console", next), UNCHANGED <<kernel, queue>>
  PROVE  /\ TaskTypes' /\ Scheduled'
         /\ pc'["console"] = next /\ pc'["worker"] = pc["worker"]
<1>1. \A u \in Tasks : pc'[u] = IF u = "console" THEN next ELSE pc[u]
  BY DEF Goto, TaskTypes
<1>2. /\ Tasks = {"worker", "console", "timer"} /\ wait["console"] = "ready"
      /\ wait' = wait /\ holder' = holder /\ notified' = notified /\ queue' = queue
  BY DEF Tasks, Runs, kernel
<1>3. TaskTypes'
  BY <1>1, <1>2 DEF TaskTypes, Goto, Places
<1>4. Scheduled'
  BY <1>1, <1>2 DEF Scheduled
<1>. QED  BY <1>1, <1>2, <1>3, <1>4

\* Steps that neither touch the counters nor ask for a benchmark, and come
\* into a command only when the worker is through with its own.
LEMMA ConsoleBeside ==
  ASSUME MonInv, TaskTypes', DataTypes', Scheduled', ForKey',
         pc'["worker"] = pc["worker"],
         UNCHANGED <<queue, mode, active, sampleIrqs, frames, drops, overlap>>,
         pc'["console"] \in Early => Unused,
         AskedFor' => AskedFor,
         pc'["console"] \in {"d_stop", "d_note", "d_mode"}
           => pc["console"] \in {"d_stop", "d_note", "d_mode"},
         pc["console"] \notin Clearing, pc'["console"] \notin Clearing
  PROVE  MonInv'
<1>1. OneBenchmark /\ Counted
  BY DEF MonInv
<1>2. Quiet'
  <2>. SUFFICES ASSUME pc'["console"] \in Early PROVE Quiet'
    BY DEF Quiet
  <2>1. queue' = <<>> /\ Len(queue') = 0 /\ pc'["worker"] = "receive"
    BY EmptySeq DEF Unused
  <2>. QED  BY <2>1 DEF Quiet
<1>3. OneBenchmark'
  <2>1. Queued' <=> Queued
    BY DEF Queued
  <2>. QED  BY <1>1, <2>1 DEF OneBenchmark
<1>4. Counted'
  <2>1. InHand' = InHand
    BY DEF InHand, Samples
  <2>. QED  BY <1>1, <2>1 DEF Counted, Clearing
<1>. QED  BY <1>2, <1>3, <1>4 DEF MonInv

LEMMA ConsoleLockStep ==
  ASSUME MonInv, Lock("console", CASE key = "none" -> "prompt" [] key = "S" -> "dispatch"
                                   [] OTHER -> "echo")
  PROVE  MonInv'
<1>. DEFINE next == CASE key = "none" -> "prompt" [] key = "S" -> "dispatch" [] OTHER -> "echo"
<1>1. TaskTypes /\ DataTypes /\ Scheduled /\ ForKey /\ "console" \in Tasks
  BY DEF MonInv, Tasks
<1>2. /\ next \in {"prompt", "dispatch", "echo"}
      /\ next # "prompt" => key \in Commands
  BY <1>1 DEF DataTypes
<1>3. Lock("console", next)
  OBVIOUS
<1>. HIDE DEF next
<1>4. next \in Places["console"] \cap HoldPlaces
  BY <1>2 DEF Places, ConsolePlaces, HoldPlaces, Early, Late
<1>5. TaskTypes' /\ Scheduled'
  BY <1>1, <1>3, <1>4, LockKernel
<1>6. /\ UNCHANGED <<queue, key, uart, timer0, stream, mode>>
      /\ Runs("console") /\ pc["console"] = "lock"
  BY <1>3 DEF Lock
<1>7. DataTypes'
  BY <1>1, <1>6 DEF DataTypes, uart, timer0, stream
<1>8. \/ pc' = pc
      \/ /\ holder = "none" /\ pc'["console"] = next /\ pc'["worker"] = pc["worker"]
  BY <1>1, <1>3 DEF Lock, Goto, TaskTypes, Tasks
<1>9. CASE pc' = pc
  BY <1>5, <1>6, <1>7, <1>9, Aside DEF timer0, stream
<1>10. CASE holder = "none" /\ pc'["console"] = next /\ pc'["worker"] = pc["worker"]
  <2>1. Unused
    BY <1>6, <1>10, WorkerWaits
  <2>2. ForKey' /\ ~AskedFor' /\ pc["console"] \notin Clearing /\ pc'["console"] \notin Clearing
        /\ pc'["console"] \notin {"d_stop", "d_note", "d_mode"}
    BY <1>2, <1>6, <1>10 DEF ForKey, AskedFor, Clearing
  <2>. QED  BY <1>5, <1>6, <1>7, <1>10, <2>1, <2>2, ConsoleBeside DEF stream
<1>. QED  BY <1>8, <1>9, <1>10

\* Text under the mutex: the echo and the texts of a benchmark before the
\* command's effect, the answer and the prompt after it.
LEMMA ConsolePutsStep ==
  ASSUME MonInv, NEW here, NEW next, Puts("console", here, next),
         \/ <<here, next>> \in {<<"echo", "dispatch">>, <<"d_note", "d_mode">>, <<"d_text", "send">>}
         \/ here \in {"reply", "prompt"} /\ next \in {"prompt", "unlock"}
  PROVE  MonInv'
<1>1. TaskTypes /\ DataTypes /\ Scheduled /\ ForKey /\ "console" \in Tasks
  BY DEF MonInv, Tasks
<1>2. /\ next \in Places["console"] \cap HoldPlaces /\ here \in HoldPlaces
      /\ here \notin Clearing /\ next \notin Clearing
      /\ next \in Early => here \in Early
  BY DEF Places, ConsolePlaces, HoldPlaces, Early, Late, Clearing
<1>3. TaskTypes' /\ Scheduled'
  BY <1>1, <1>2, PutsKernel
<1>4. /\ UNCHANGED <<queue, key, rxRing, timer0, stream, mode>> /\ txFull' \in BOOLEAN
      /\ Runs("console") /\ pc["console"] = here
  BY <1>1 DEF Puts, DataTypes
<1>5. DataTypes'
  BY <1>1, <1>4 DEF DataTypes, timer0, stream
<1>6. \/ pc' = pc
      \/ pc'["console"] = next /\ pc'["worker"] = pc["worker"]
  BY <1>1 DEF Puts, Goto, TaskTypes, Tasks
<1>7. CASE pc' = pc
  BY <1>3, <1>4, <1>5, <1>7, Aside DEF timer0, stream
<1>8. CASE pc'["console"] = next /\ pc'["worker"] = pc["worker"]
  <2>1. pc'["console"] \in Early => Unused
    BY <1>2, <1>4, <1>8, WorkerWaits
  <2>2. /\ ForKey' /\ (AskedFor' => AskedFor)
        /\ pc'["console"] \in {"d_stop", "d_note", "d_mode"}
             => pc["console"] \in {"d_stop", "d_note", "d_mode"}
    BY <1>1, <1>4, <1>8 DEF ForKey, AskedFor
  <2>. QED  BY <1>2, <1>3, <1>4, <1>5, <1>8, <2>1, <2>2, ConsoleBeside DEF stream
<1>. QED  BY <1>6, <1>7, <1>8

LEMMA ConsoleUnlockStep ==
  ASSUME MonInv, Unlock("console", IF key = "none" THEN "take" ELSE "getc")
  PROVE  MonInv'
<1>1. TaskTypes /\ DataTypes /\ Scheduled /\ "console" \in Tasks
  BY DEF MonInv, Tasks
<1>2. PICK next \in {"take", "getc"} : Unlock("console", next)
  OBVIOUS
<1>3. next \in Places["console"] \ HoldPlaces
  BY <1>2 DEF Places, ConsolePlaces, HoldPlaces, Early, Late
<1>4. TaskTypes' /\ Scheduled'
  BY <1>1, <1>2, <1>3, UnlockKernel
<1>5. /\ UNCHANGED <<queue, uart, timer0, stream, mode>> /\ key' = "none"
      /\ pc["console"] = "unlock" /\ pc'["console"] = next /\ pc'["worker"] = pc["worker"]
  BY <1>1, <1>2 DEF Unlock, Goto, TaskTypes, Tasks
<1>6. DataTypes'
  BY <1>1, <1>5 DEF DataTypes, uart, timer0, stream
<1>7. /\ pc'["console"] \notin Early /\ ForKey' /\ ~AskedFor'
      /\ pc'["console"] \notin {"d_stop", "d_note", "d_mode"}
      /\ pc["console"] \notin Clearing /\ pc'["console"] \notin Clearing
  BY <1>5 DEF Early, ForKey, AskedFor, Clearing
<1>. QED  BY <1>4, <1>5, <1>6, <1>7, ConsoleBeside DEF stream

LEMMA ConsoleTakeStep ==
  ASSUME MonInv, TakeNotification("console", "getc")
  PROVE  MonInv'
<1>1. TaskTypes /\ DataTypes /\ Scheduled /\ "console" \in Tasks
  BY DEF MonInv, Tasks
<1>2. "getc" \in Places["console"] \ HoldPlaces
  BY DEF Places, ConsolePlaces, HoldPlaces, Early, Late
<1>3. TaskTypes' /\ Scheduled'
  BY <1>1, <1>2, TakeKernel
<1>4. /\ UNCHANGED <<queue, key, uart, timer0, stream, mode>> /\ pc["console"] = "take"
      /\ pc'["console"] \in {"take", "getc"} /\ pc'["worker"] = pc["worker"]
  BY <1>1 DEF TakeNotification, Goto, TaskTypes, Tasks
<1>5. DataTypes'
  BY <1>1, <1>4 DEF DataTypes, uart, timer0, stream
<1>6. /\ pc'["console"] \notin Early /\ ForKey' /\ ~AskedFor'
      /\ pc'["console"] \notin {"d_stop", "d_note", "d_mode"}
      /\ pc["console"] \notin Clearing /\ pc'["console"] \notin Clearing
  BY <1>4 DEF Early, ForKey, AskedFor, Clearing
<1>. QED  BY <1>3, <1>4, <1>5, <1>6, ConsoleBeside DEF stream

LEMMA ConsoleIdleStep ==
  ASSUME MonInv, ConsoleInit \/ GetKey
  PROVE  MonInv'
<1>1. TaskTypes /\ DataTypes /\ Scheduled
  BY DEF MonInv
<1>2. PICK next \in {"take", "lock"} :
        /\ Goto("console", next) /\ Runs("console") /\ pc["console"] \in {"init", "getc"}
        /\ UNCHANGED <<kernel, queue, txFull, timer0, stream, mode>>
  BY DEF ConsoleInit, GetKey, ConsoleAt, uart
<1>3. next \in ConsolePlaces \ HoldPlaces /\ pc["console"] \notin HoldPlaces
  BY <1>2 DEF ConsolePlaces, HoldPlaces, Early, Late
<1>4. /\ TaskTypes' /\ Scheduled'
      /\ pc'["console"] = next /\ pc'["worker"] = pc["worker"]
  BY <1>1, <1>2, <1>3, ConsoleGoes
<1>5. key' \in Commands \cup {"none"} /\ rxRing' \in Seq(Commands)
  <2>1. \/ key' = key /\ rxRing' = rxRing
        \/ rxRing # <<>> /\ key' = Head(rxRing) /\ rxRing' = Tail(rxRing)
    BY DEF ConsoleInit, GetKey, uart
  <2>2. rxRing \in Seq(Commands) /\ key \in Commands \cup {"none"}
    BY <1>1 DEF DataTypes
  <2>. QED  BY <2>1, <2>2, HeadTailProperties
<1>6. DataTypes'
  BY <1>1, <1>2, <1>5 DEF DataTypes, timer0, stream
<1>7. /\ pc'["console"] \notin Early /\ ForKey' /\ ~AskedFor'
      /\ pc'["console"] \notin {"d_stop", "d_note", "d_mode"}
      /\ pc["console"] \notin Clearing /\ pc'["console"] \notin Clearing
  BY <1>2, <1>4 DEF Early, ForKey, AskedFor, Clearing
<1>. QED  BY <1>2, <1>4, <1>6, <1>7, ConsoleBeside DEF stream
LEMMA CommandTimerStep ==
  ASSUME MonInv, CommandStartsTimer \/ CommandStopsTimer
  PROVE  MonInv'
<1>1. TaskTypes /\ DataTypes /\ Scheduled /\ ForKey
  BY DEF MonInv
<1>2. PICK next \in {"reply", "d_note"} :
        /\ Goto("console", next) /\ Runs("console")
        /\ pc["console"] \in {"r_start", "w_start", "w_stop", "d_stop"}
        /\ next = "d_note" => pc["console"] \in {"w_stop", "d_stop"} /\ key # "w"
        /\ UNCHANGED <<kernel, queue, key, uart, expired, stream, mode>>
  <2>1. CASE CommandStartsTimer
    BY <2>1 DEF CommandStartsTimer, ConsoleAt
  <2>2. CASE CommandStopsTimer
    BY <2>2 DEF CommandStopsTimer, ConsoleAt
  <2>. QED  BY <2>1, <2>2
<1>3. next \in ConsolePlaces \cap HoldPlaces /\ pc["console"] \in HoldPlaces \cap Early
  BY <1>2 DEF ConsolePlaces, HoldPlaces, Early, Late
<1>4. /\ TaskTypes' /\ Scheduled'
      /\ pc'["console"] = next /\ pc'["worker"] = pc["worker"]
  BY <1>1, <1>2, <1>3, ConsoleGoes
<1>5. timer' \in {"off", "on", "fired"} /\ irq' \in BOOLEAN
  BY <1>1 DEF CommandStartsTimer, CommandStopsTimer, StartTimer, StopTimer, DataTypes
<1>6. DataTypes'
  BY <1>1, <1>2, <1>5 DEF DataTypes, uart, stream
<1>7. Unused
  BY <1>2, <1>3, WorkerWaits
<1>8. next = "d_note" => pc["console"] = "d_stop"
  BY <1>1, <1>2 DEF ForKey
<1>9. /\ ForKey' /\ ~AskedFor' /\ pc["console"] \notin Clearing /\ pc'["console"] \notin Clearing
      /\ pc'["console"] \in {"d_stop", "d_note", "d_mode"}
           => pc["console"] \in {"d_stop", "d_note", "d_mode"}
  BY <1>1, <1>2, <1>4, <1>8 DEF ForKey, AskedFor, Clearing
<1>. QED  BY <1>2, <1>4, <1>6, <1>7, <1>9, ConsoleBeside DEF stream

\* Up to here the steps leave the stream alone.  The next ones change it, or
\* ask the worker for something, while the worker waits for its queue.
LEMMA CommandKernel ==
  ASSUME MonInv, Runs("console"), pc["console"] \in Early,
         NEW next \in Early \cup {"reply"}, Goto("console", next), UNCHANGED <<kernel, queue>>
  PROVE  /\ Unused /\ Unused' /\ InHand = 0 /\ InHand' = 0
         /\ TaskTypes' /\ Scheduled' /\ Quiet'
         /\ pc'["console"] = next /\ pc'["worker"] = pc["worker"]
<1>1. TaskTypes /\ Scheduled
  BY DEF MonInv
<1>2. next \in ConsolePlaces \cap HoldPlaces /\ pc["console"] \in HoldPlaces
  BY DEF ConsolePlaces, HoldPlaces, Early, Late
<1>3. /\ TaskTypes' /\ Scheduled'
      /\ pc'["console"] = next /\ pc'["worker"] = pc["worker"]
  BY <1>1, <1>2, ConsoleGoes
<1>4. Unused /\ Unused'
  BY <1>3, WorkerWaits DEF Unused
<1>5. Quiet'
  BY <1>4, EmptySeq DEF Quiet, Unused
<1>6. InHand = 0 /\ InHand' = 0
  BY <1>4, SamplesNone DEF InHand, Unused
<1>. QED  BY <1>3, <1>4, <1>5, <1>6

\* Nothing is queued and no benchmark runs.
LEMMA NoBenchmark ==
  ASSUME Unused
  PROVE  ~Queued /\ pc["worker"] # "bench"
BY EmptySeq DEF Unused, Queued

LEMMA DispatchStep ==
  ASSUME MonInv, Dispatch
  PROVE  MonInv'
<1>1. DataTypes /\ ForKey /\ OneBenchmark /\ Counted
  BY DEF MonInv
<1>2. /\ Runs("console") /\ pc["console"] = "dispatch" /\ key \in Commands
      /\ pc["console"] \in Early
  BY <1>1 DEF Dispatch, ConsoleAt, ForKey, Early
<1>3. /\ UNCHANGED <<kernel, queue, key, uart, timer0, sampleIrqs, frames, drops, mode>>
      /\ active' = IF key = "w" /\ mode = "idle" THEN ~active
                   ELSE IF key = "d" /\ mode = "idle" THEN FALSE ELSE active
      /\ overlap' = IF active' /\ ~active THEN FALSE ELSE overlap
  BY DEF Dispatch
<1>4. PICK next \in {"reply", "send", "r_start", "w_stop", "w_irqs", "d_stop", "d_mode"} :
        /\ Goto("console", next)
        /\ next = "send" => key \in {"q", "b"}
        /\ next = "w_irqs" => key = "w" /\ mode = "idle" /\ ~active
        /\ next = "w_stop" => key = "w"
        /\ next \in {"d_stop", "d_mode"} => key = "d" /\ mode = "idle"
        /\ key = "w" /\ mode = "idle" /\ ~active => next = "w_irqs"
  <2>. DEFINE next == CASE key \in {"S"} -> "reply"
                        [] key \in {"q", "b"} -> "send"
                        [] key = "r" -> IF active THEN "reply" ELSE "r_start"
                        [] key = "w" -> IF mode # "idle" THEN "reply"
                                        ELSE IF active THEN "w_stop" ELSE "w_irqs"
                        [] key = "d" -> IF mode # "idle" THEN "reply"
                                        ELSE IF active THEN "d_stop" ELSE "d_mode"
  <2>1. Goto("console", next)
    BY DEF Dispatch
  <2>2. /\ key = "S" => next = "reply"
        /\ key \in {"q", "b"} => next = "send"
        /\ key = "r" => next \in {"reply", "r_start"}
        /\ key = "w" => next = IF mode # "idle" THEN "reply"
                               ELSE IF active THEN "w_stop" ELSE "w_irqs"
        /\ key = "d" => next = IF mode # "idle" THEN "reply"
                               ELSE IF active THEN "d_stop" ELSE "d_mode"
    OBVIOUS
  <2>. HIDE DEF next
  <2>3. key \in {"S", "q", "b", "r", "w", "d"}
    BY <1>2 DEF Commands
  <2>. QED  BY <2>1, <2>2, <2>3
<1>5. next \in Early \cup {"reply"}
  BY <1>4 DEF Early
<1>6. /\ Unused /\ Unused' /\ InHand = 0 /\ InHand' = 0
      /\ TaskTypes' /\ Scheduled' /\ Quiet'
      /\ pc'["console"] = next /\ pc'["worker"] = pc["worker"]
  BY <1>2, <1>3, <1>4, <1>5, CommandKernel
<1>7. DataTypes'
  BY <1>1, <1>3 DEF DataTypes, uart, timer0
<1>8. ForKey'
  BY <1>3, <1>4, <1>6 DEF ForKey
<1>9. OneBenchmark'
  <2>1. ~Queued' /\ pc'["worker"] # "bench"
    BY <1>6, EmptySeq DEF Unused, Queued
  <2>2. ~AskedFor'
    BY <1>3, <1>4, <1>6 DEF AskedFor
  <2>3. mode' = "bench" => ~active'
    BY <1>1, <1>3 DEF OneBenchmark
  <2>4. next \in {"d_stop", "d_note", "d_mode"} => mode' = "idle" /\ ~active'
    BY <1>3, <1>4
  <2>. QED  BY <1>6, <2>1, <2>2, <2>3, <2>4 DEF OneBenchmark, Queued
<1>10. Counted'
  <2>1. CASE next = "w_irqs"
    BY <1>6, <2>1 DEF Counted
  <2>2. CASE next # "w_irqs"
    <3>1. overlap' = overlap
      BY <1>1, <1>3, <1>4, <2>2 DEF DataTypes
    <3>2. overlap \/ sampleIrqs = frames + drops + InHand
      BY <1>1, <1>2 DEF Counted
    <3>. QED  BY <1>3, <1>4, <1>6, <2>2, <3>1, <3>2 DEF Counted
  <2>. QED  BY <2>1, <2>2
<1>. QED  BY <1>6, <1>7, <1>8, <1>9, <1>10 DEF MonInv

\* The counters are cleared in order, with nothing in hand.
LEMMA ResetStep ==
  ASSUME MonInv, ResetIrqs \/ ResetFrames \/ ResetDrops
  PROVE  MonInv'
<1>1. DataTypes /\ ForKey /\ OneBenchmark /\ Counted
  BY DEF MonInv
<1>2. PICK next \in {"w_frames", "w_drops", "w_start"} :
        /\ Goto("console", next) /\ Runs("console")
        /\ \/ pc["console"] = "w_irqs" /\ next = "w_frames"
              /\ sampleIrqs' = 0 /\ UNCHANGED <<frames, drops>>
           \/ pc["console"] = "w_frames" /\ next = "w_drops"
              /\ frames' = 0 /\ UNCHANGED <<sampleIrqs, drops>>
           \/ pc["console"] = "w_drops" /\ next = "w_start"
              /\ drops' = 0 /\ UNCHANGED <<sampleIrqs, frames>>
        /\ UNCHANGED <<kernel, queue, key, uart, timer0, active, overlap, mode>>
  <2>1. CASE ResetIrqs
    BY <2>1 DEF ResetIrqs, ConsoleAt
  <2>2. CASE ResetFrames
    BY <2>2 DEF ResetFrames, ConsoleAt
  <2>3. CASE ResetDrops
    BY <2>3 DEF ResetDrops, ConsoleAt
  <2>. QED  BY <2>1, <2>2, <2>3
<1>3. next \in Early \cup {"reply"} /\ pc["console"] \in Early
  BY <1>2 DEF Early
<1>4. /\ Unused /\ Unused' /\ InHand = 0 /\ InHand' = 0
      /\ TaskTypes' /\ Scheduled' /\ Quiet'
      /\ pc'["console"] = next /\ pc'["worker"] = pc["worker"]
  BY <1>2, <1>3, CommandKernel
<1>5. DataTypes'
  BY <1>1, <1>2 DEF DataTypes, uart, timer0
<1>6. ForKey'
  BY <1>1, <1>2, <1>4 DEF ForKey
<1>7. OneBenchmark'
  <2>1. ~Queued' /\ pc'["worker"] # "bench"
    BY <1>4, EmptySeq DEF Unused, Queued
  <2>2. ~AskedFor'
    BY <1>2, <1>4 DEF AskedFor
  <2>3. mode' = "bench" => ~active'
    BY <1>1, <1>2 DEF OneBenchmark
  <2>. QED  BY <1>2, <1>4, <2>1, <2>2, <2>3 DEF OneBenchmark, Queued
<1>8. Counted'
  <2>1. CASE overlap
    BY <1>2, <2>1 DEF Counted
  <2>2. CASE ~overlap
    BY <1>1, <1>2, <1>4, <2>2 DEF Counted, DataTypes
  <2>. QED  BY <2>1, <2>2
<1>. QED  BY <1>4, <1>5, <1>6, <1>7, <1>8 DEF MonInv

LEMMA SetModeStep ==
  ASSUME MonInv, SetMode
  PROVE  MonInv'
<1>1. DataTypes /\ ForKey /\ OneBenchmark /\ Counted
  BY DEF MonInv
<1>2. /\ Goto("console", "d_text") /\ Runs("console") /\ pc["console"] = "d_mode"
      /\ mode' = "bench" /\ UNCHANGED <<kernel, queue, key, uart, timer0, stream>>
  BY DEF SetMode, ConsoleAt
<1>3. "d_text" \in Early \cup {"reply"} /\ pc["console"] \in Early
  BY <1>2 DEF Early
<1>4. /\ Unused /\ Unused' /\ InHand = 0 /\ InHand' = 0
      /\ TaskTypes' /\ Scheduled' /\ Quiet'
      /\ pc'["console"] = "d_text" /\ pc'["worker"] = pc["worker"]
  BY <1>2, <1>3, CommandKernel
<1>5. DataTypes'
  BY <1>1, <1>2 DEF DataTypes, uart, timer0, stream
<1>6. ForKey'
  BY <1>1, <1>2, <1>4 DEF ForKey
<1>7. OneBenchmark'
  <2>1. ~Queued' /\ pc'["worker"] # "bench"
    BY <1>4, EmptySeq DEF Unused, Queued
  <2>2. ~active'
    BY <1>1, <1>2 DEF OneBenchmark, stream
  <2>. QED  BY <1>2, <1>4, <2>1, <2>2 DEF OneBenchmark, Queued
<1>8. Counted'
  BY <1>1, <1>2, <1>4 DEF Counted, stream
<1>. QED  BY <1>4, <1>5, <1>6, <1>7, <1>8 DEF MonInv

\* The event goes into an empty queue.
LEMMA CommandSendsStep ==
  ASSUME MonInv, CommandSends
  PROVE  MonInv'
<1>1. TaskTypes /\ DataTypes /\ Scheduled /\ ForKey /\ OneBenchmark /\ Counted
  BY DEF MonInv
<1>. DEFINE kind == [q |-> "queue", b |-> "burst", d |-> "bench"][key]
<1>2. /\ Runs("console") /\ pc["console"] = "send" /\ Send(kind)
      /\ mode' = IF key = "d" /\ Len(queue) = QueueLen THEN "idle" ELSE mode
      /\ Goto("console", "reply")
      /\ UNCHANGED <<holder, notified, key, uart, timer0, stream>>
  BY DEF CommandSends, ConsoleAt
<1>3. /\ kind \in Kinds \ {"sample"} /\ (kind = "bench" <=> key = "d")
      /\ pc["console"] \in Early
  BY <1>1, <1>2 DEF ForKey, Kinds, Early
<1>. HIDE DEF kind
<1>4. Unused /\ queue = <<>> /\ Len(queue) = 0 /\ pc["worker"] = "receive"
  BY <1>2, <1>3, WorkerWaits, EmptySeq DEF Unused
<1>5. /\ queue' = Append(queue, kind) /\ mode' = mode
      /\ wait' = [wait EXCEPT !["worker"] = IF @ = "queue" THEN "ready" ELSE @]
  BY <1>2, <1>4, MonitorAssumption DEF Send
<1>6. queue' \in Seq(Kinds) /\ Len(queue') = 1 /\ queue'[1] = kind
  BY <1>1, <1>3, <1>4, <1>5, AppendProperties DEF DataTypes
<1>7. \A u \in Tasks : pc'[u] = IF u = "console" THEN "reply" ELSE pc[u]
  BY <1>1, <1>2 DEF Goto, TaskTypes
<1>8. /\ Tasks = {"worker", "console", "timer"} /\ wait["console"] = "ready"
      /\ wait' \in [Tasks -> {"ready", "queue", "mutex", "notify", "tick"}]
      /\ \A u \in Tasks : wait'[u] \in {wait[u], "ready"}
      /\ wait'["worker"] # "queue"
      /\ "reply" \in ConsolePlaces \cap HoldPlaces /\ "send" \in HoldPlaces
      /\ "receive" \notin HoldPlaces
  BY <1>1, <1>2, <1>5 DEF Tasks, TaskTypes, Runs, ConsolePlaces, HoldPlaces, Early, Late
<1>9. TaskTypes'
  BY <1>1, <1>2, <1>7, <1>8 DEF TaskTypes, Goto, Places
<1>10. Scheduled'
  <2>1. \A u \in Tasks : wait[u] = "queue" => u = "worker"
    BY <1>1, <1>8 DEF Scheduled, TaskTypes, Places, ConsolePlaces, TimerPlaces, Early, Late
  <2>2. \A u \in Tasks : pc'[u] \in HoldPlaces <=> pc[u] \in HoldPlaces
    BY <1>2, <1>7, <1>8
  <2>3. \A u \in Tasks : wait'[u] \in {"ready", "queue", "mutex", "notify", "tick"}
    BY <1>8
  <2>. QED  BY <1>1, <1>2, <1>7, <1>8, <2>1, <2>2, <2>3 DEF Scheduled
<1>11. DataTypes'
  BY <1>1, <1>2, <1>5, <1>6, MonitorAssumption DEF DataTypes, uart, timer0, stream
<1>12. /\ pc'["console"] = "reply" /\ pc'["worker"] = "receive"
  BY <1>4, <1>7, <1>8
<1>13. Quiet' /\ ForKey'
  BY <1>12 DEF Quiet, ForKey, Early
<1>14. OneBenchmark'
  <2>1. ~AskedFor' /\ (AskedFor <=> key = "d")
    BY <1>2, <1>12 DEF AskedFor
  <2>2. Queued' => key = "d"
    BY <1>3, <1>6 DEF Queued
  <2>3. mode' = "idle" => ~Queued'
    BY <1>1, <1>5, <2>1, <2>2 DEF OneBenchmark
  <2>4. \A i, j \in 1 .. Len(queue') : i = j
    BY <1>6
  <2>. QED  BY <1>1, <1>2, <1>5, <1>12, <2>1, <2>3, <2>4 DEF OneBenchmark, stream
<1>15. Counted'
  <2>1. InHand' = InHand
    <3>1. queue \in Seq(Kinds)
      BY <1>1 DEF DataTypes
    <3>2. Cardinality(Samples(queue')) = Cardinality(Samples(queue))
      BY <1>3, <1>5, <3>1, SamplesAppend, SamplesFinite
    <3>. QED  BY <1>4, <1>12, <3>2 DEF InHand
  <2>. QED  BY <1>1, <1>2, <1>12, <2>1 DEF Counted, stream
<1>. QED  BY <1>9, <1>10, <1>11, <1>13, <1>14, <1>15 DEF MonInv

LEMMA ConsoleStep ==
  ASSUME MonInv, Console
  PROVE  MonInv'
<1>1. CASE Puts("console", "echo", "dispatch")
  BY <1>1, ConsolePutsStep
<1>2. CASE Puts("console", "d_note", "d_mode")
  BY <1>2, ConsolePutsStep
<1>3. CASE Puts("console", "d_text", "send")
  BY <1>3, ConsolePutsStep
<1>4. CASE Reply
  <2>1. PICK next \in {"prompt", "unlock"} : Puts("console", "reply", next)
    BY <1>4 DEF Reply
  <2>. QED  BY <2>1, ConsolePutsStep
<1>5. CASE Puts("console", "prompt", "unlock")
  BY <1>5, ConsolePutsStep
<1>. QED  BY <1>1, <1>2, <1>3, <1>4, <1>5, ConsoleLockStep, ConsoleUnlockStep, ConsoleTakeStep,
             ConsoleIdleStep, CommandTimerStep, DispatchStep, ResetStep, SetModeStep,
             CommandSendsStep DEF Console

-----------------------------------------------------------------------------
(* The stream stays whole.                                                 *)

LEMMA MonInit ==
  ASSUME Init
  PROVE  MonInv
<1>1. TaskTypes
  BY DEF Init, TaskTypes, Tasks, Places, WorkerPlaces, ConsolePlaces, TimerPlaces, Early, Late
<1>2. DataTypes
  <2>1. <<>> \in Seq(Kinds) /\ <<>> \in Seq(Commands) /\ Len(<<>>) = 0
    OBVIOUS
  <2>2. 0 <= QueueLen
    BY MonitorAssumption
  <2>. QED  BY <2>1, <2>2 DEF Init, DataTypes
<1>3. Scheduled
  BY DEF Init, Scheduled, Tasks, HoldPlaces, Early, Late
<1>4. Quiet /\ ForKey
  BY DEF Init, Quiet, ForKey, Early
<1>5. OneBenchmark
  BY EmptySeq DEF Init, OneBenchmark, AskedFor, Queued
<1>6. Counted
  BY SamplesNone DEF Init, Counted, InHand
<1>. QED  BY <1>1, <1>2, <1>3, <1>4, <1>5, <1>6 DEF MonInv

LEMMA MonNext ==
  ASSUME MonInv, [Next]_vars
  PROVE  MonInv'
<1>1. CASE Next
  BY <1>1, WorkerStep, ConsoleStep, TimerTaskStep, TickStep, TimerExpiresStep, TimerIrqStep,
     UartIrqStep DEF Next
<1>2. CASE UNCHANGED vars
  <2>1. UNCHANGED <<pc, wait, holder, notified, queue, key, txFull, rxRing, timer, irq, active,
                    sampleIrqs, frames, drops, overlap, mode>>
    BY <1>2 DEF vars, kernel, uart, timer0, stream
  <2>2. TaskTypes' /\ DataTypes' /\ Scheduled'
    BY <2>1 DEF MonInv, TaskTypes, DataTypes, Scheduled
  <2>. QED  BY <2>1, <2>2, Aside
<1>. QED  BY <1>1, <1>2

(* Every sample of the stream becomes a frame, a counted drop, or is still *)
(* under way; a benchmark and the stream exclude each other; and a command *)
(* finds room in the queue of main.c, which must hold two events for that. *)
THEOREM StreamStaysWhole ==
  ASSUME QueueLen >= 2
  PROVE  Spec => []StreamSound
<1>1. MonInv => StreamSound
  <2>. SUFFICES ASSUME MonInv PROVE StreamSound
    OBVIOUS
  <2>1. SampleAccounting
    BY DEF MonInv, Counted, SampleAccounting
  <2>2. BenchmarkExclusive
    BY DEF MonInv, OneBenchmark, DataTypes, BenchmarkExclusive
  <2>3. QueueRoom
    <3>1. pc["console"] = "send" => Len(queue) <= 1
      BY DEF MonInv, Quiet, Early
    <3>2. Len(queue) \in Nat /\ QueueLen \in Nat
      BY MonitorAssumption, LenProperties DEF MonInv, DataTypes
    <3>. QED  BY <3>1, <3>2 DEF QueueRoom
  <2>. QED  BY <2>1, <2>2, <2>3 DEF StreamSound
<1>. QED  BY <1>1, MonInit, MonNext, PTL DEF Spec
(* Tasks, kernel objects and counters keep their ranges, and a task that   *)
(* prints or works on a command holds the mutex.                           *)
THEOREM TypeCorrect == Spec => []TypeOK
<1>1. MonInv => TypeOK
  <2>. SUFFICES ASSUME MonInv PROVE TypeOK
    OBVIOUS
  <2>1. DOMAIN WorkerKind = Kinds
    BY DEF WorkerKind, Kinds
  <2>2. {irq, active, txFull} \subseteq BOOLEAN
    BY DEF MonInv, DataTypes
  <2>3. {"print", "unlock", "dispatch"} \subseteq HoldPlaces
    BY DEF HoldPlaces, Early, Late
  <2>. QED  BY <2>1, <2>2, <2>3 DEF MonInv, TaskTypes, DataTypes, Scheduled, TypeOK
<1>. QED  BY <1>1, MonInit, MonNext, PTL DEF Spec

=============================================================================
