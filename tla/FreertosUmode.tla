--------------------------- MODULE FreertosUmode ---------------------------
(***************************************************************************)
(* The user-mode profile of FreeRTOS (sw/rtos/freertos_umode): four tasks  *)
(* of equal priority behind the PMP, which call the kernel by ECALL only.  *)
(* A system call runs in machine mode on the task's own stack and may      *)
(* block or be preempted there; the trap code (port_trap_umode.S) has to   *)
(* leave in the task control block the frame from which the task goes on.  *)
(*                                                                         *)
(* The kernel may select any ready task, which covers the order of its     *)
(* ready list.  The handler runs with interrupts off until the end of the  *)
(* first critical section of the kernel function it calls.  The restoring  *)
(* of a context is one step: portContext.h belongs to the kernel.          *)
(***************************************************************************)
EXTENDS Integers, Sequences

CONSTANT DelayTicks   \* of user0's system call
ASSUME UmodeAssumption == DelayTicks \in Nat \ {0}

Users == 0 .. 3
Idle == 4

Call(s, a) == [service |-> s, arg |-> a]
Record(id) == Call("record", id)

\* The system calls of each task, in order.
Script ==
  [t \in Users |->
     CASE t = 0 -> <<Record("yield_a_before"), Call("yield", 0),
                     Record("yield_a_resume"), Record("delay_before"),
                     Call("delay", DelayTicks), Record("delay_after"),
                     Record("notify_before"), Call("give", 1),
                     Record("notify_after"), Call("exit", 0)>>
       [] t = 1 -> <<Record("yield_b_entry"), Record("yield_b_before"),
                     Call("yield", 0), Record("wait_before"), Call("wait", 0),
                     Record("wait_after"), Call("give", 2), Call("exit", 0)>>
       [] t = 2 -> <<Call("wait", 0), Call("give", 3), Call("exit", 0)>>
       [] t = 3 -> <<Call("wait", 0), Call("exit", 0)>>]

VARIABLES
  current,    \* pxCurrentTCB
  pmp,        \* the task whose region pmpaddr1 opens
  next,       \* the next system call of each task
  inside,     \* where a task is in the handler, "user" outside
  frame,      \* pxTopOfStack: the kind of the saved frame and its owner
  wait, ticks,\* "ready", "tick", "notify" or "deleted"; ticks to wait
  notified,   \* the tasks whose notification count is not zero
  given, woken, copy, \* umode_notify_{given,woken}_mask; what was loaded of one
  complete,   \* user0_complete .. user2_complete
  stamped,    \* the entries of the timing report that are not zero
  result      \* eriscv_freertos_umode_result

kernel == <<wait, ticks, notified>>
gate == <<given, woken, copy, complete, stamped, result>>
vars == <<current, pmp, next, inside, frame, kernel, gate>>

-----------------------------------------------------------------------------
(* Scheduling and frames.                                                  *)

\* What vTaskSwitchContext may select when the tasks wait as they will.
Ready(wait2) ==
  LET ready == {t \in Users : wait2[t] = "ready"}
  IN IF ready = {} THEN {Idle} ELSE ready

\* eriscv_umode_pmp_load: a task without a template leaves the registers.
PmpLoad(t) == pmp' = IF t \in Users THEN t ELSE pmp

\* A wrong wrapper: the region loaded before the selection.
SwitchLoadsEarly(wait2) == PmpLoad(current) /\ current' \in Ready(wait2)

\* The wrapper of vTaskSwitchContext.
Switch(wait2) == current' \in Ready(wait2) /\ PmpLoad(current')

\* Save the frame of the task and leave it.
SaveAs(t, kind) == frame' = [frame EXCEPT ![t] = <<kind, t>>]

\* The frame from which a task that is at this point has to go on.
FrameFor(t, where) == <<IF where = "user" THEN "user" ELSE "kernel", t>>

\* A wrong return: the frame written to whichever task is current.
HandlerReturnsBlindly(t) ==
  /\ frame' = IF current' \in Users THEN [frame EXCEPT ![current'] = <<"user", t>>]
              ELSE frame
  /\ inside' = [inside EXCEPT ![t] = "user"]

\* The handler returns: if its task is still current, its user frame is the
\* one to go on from.
HandlerReturns(t) ==
  /\ frame' = IF current' = t THEN [frame EXCEPT ![t] = <<"user", t>>] ELSE frame
  /\ inside' = [inside EXCEPT ![t] = "user"]

Service(t) == Script[t][next[t]].service
Arg(t) == Script[t][next[t]].arg
At(t, where) == current = t /\ inside[t] = where

\* Trap entry: the user frame is saved with the address after the ECALL.
Ecall(t) ==
  /\ At(t, "user") /\ next[t] <= Len(Script[t])
  /\ SaveAs(t, "user")
  /\ inside' = [inside EXCEPT ![t] = "service"]
  /\ UNCHANGED <<current, pmp, next, kernel, gate>>

Handles(t, service) == At(t, "service") /\ Service(t) = service

Done(t) == next' = [next EXCEPT ![t] = @ + 1]

-----------------------------------------------------------------------------
(* The system calls.                                                       *)

SysRecord(t) ==
  /\ Handles(t, "record")
  /\ stamped' = stamped \cup {Arg(t)}
  /\ Done(t) /\ UNCHANGED <<current, pmp>> /\ HandlerReturns(t)
  /\ UNCHANGED <<kernel, given, woken, copy, complete, result>>

\* The kernel's selection alone: the user frame is saved already.
SysYield(t) ==
  /\ Handles(t, "yield")
  /\ Switch(wait) /\ Done(t) /\ HandlerReturns(t)
  /\ UNCHANGED <<kernel, gate>>

\* vTaskDelay blocks inside, and returns from there.
SysDelay(t) ==
  /\ Handles(t, "delay")
  /\ wait' = [wait EXCEPT ![t] = "tick"]
  /\ ticks' = [ticks EXCEPT ![t] = Arg(t)]
  /\ inside' = [inside EXCEPT ![t] = "return"]
  /\ SaveAs(t, "kernel") /\ Switch(wait')
  /\ UNCHANGED <<next, notified, gate>>

Return(t) ==
  /\ At(t, "return")
  /\ Done(t) /\ UNCHANGED <<current, pmp>> /\ HandlerReturns(t)
  /\ UNCHANGED <<kernel, gate>>

\* A wrong give: lost if the target does not wait yet.
SysGiveLost(t) ==
  /\ Handles(t, "give")
  /\ notified' = IF wait[Arg(t)] = "notify" THEN notified \cup {Arg(t)} ELSE notified
  /\ wait' = [wait EXCEPT ![Arg(t)] = IF @ = "notify" THEN "ready" ELSE @]
  /\ inside' = [inside EXCEPT ![t] = "load"]
  /\ UNCHANGED <<current, pmp, next, frame, ticks, gate>>

\* xTaskNotifyGive; its critical section leaves interrupts on.
SysGive(t) ==
  /\ Handles(t, "give")
  /\ notified' = notified \cup {Arg(t)}
  /\ wait' = [wait EXCEPT ![Arg(t)] = IF @ = "notify" THEN "ready" ELSE @]
  /\ inside' = [inside EXCEPT ![t] = "load"]
  /\ UNCHANGED <<current, pmp, next, frame, ticks, gate>>

\* ulTaskNotifyTake: take the count or block and try again.
SysWait(t) ==
  /\ Handles(t, "wait") \/ At(t, "again")
  /\ IF t \in notified
     THEN /\ notified' = notified \ {t}
          /\ inside' = [inside EXCEPT ![t] = "load"]
          /\ UNCHANGED <<current, pmp, wait, frame>>
     ELSE /\ wait' = [wait EXCEPT ![t] = "notify"]
          /\ inside' = [inside EXCEPT ![t] = "again"]
          /\ SaveAs(t, "kernel") /\ Switch(wait') /\ UNCHANGED notified
  /\ UNCHANGED <<next, ticks, gate>>

\* The mask of a give or of a wake: load, then store, with interrupts on.
LoadMask(t) ==
  /\ At(t, "load")
  /\ copy' = [copy EXCEPT ![t] = IF Service(t) = "give" THEN given ELSE woken]
  /\ inside' = [inside EXCEPT ![t] = "store"]
  /\ UNCHANGED <<current, pmp, next, frame, kernel, given, woken, complete,
                 stamped, result>>

StoreMask(t) ==
  /\ At(t, "store")
  /\ IF Service(t) = "give"
     THEN given' = copy[t] \cup {Arg(t)} /\ UNCHANGED woken
     ELSE woken' = copy[t] \cup {t} /\ UNCHANGED given
  /\ Done(t) /\ UNCHANGED <<current, pmp>> /\ HandlerReturns(t)
  /\ UNCHANGED <<kernel, copy, complete, stamped, result>>

\* What user3 looks at when it exits; the tasks' own progress words say no
\* more than their exits.
GateOpen ==
  /\ complete = 0 .. 2 /\ given = 1 .. 3 /\ woken = 1 .. 3
  /\ "wait_after" \in stamped

SysExit(t) ==
  /\ Handles(t, "exit")
  /\ IF t < 3 THEN complete' = complete \cup {t} /\ UNCHANGED result
     ELSE result' = (IF GateOpen THEN "pass" ELSE "failed") /\ UNCHANGED complete
  /\ wait' = [wait EXCEPT ![t] = "deleted"]
  /\ inside' = [inside EXCEPT ![t] = "gone"]
  /\ SaveAs(t, "kernel") /\ Switch(wait') /\ Done(t)
  /\ UNCHANGED <<ticks, notified, given, woken, copy, stamped>>

-----------------------------------------------------------------------------
\* Interrupts are on in user code, in Idle, and after a critical section.
Preemptible ==
  current \in Users => inside[current] \in {"user", "load", "store", "return"}

Tick ==
  /\ Preemptible
  /\ LET awake == {t \in Users : wait[t] = "tick" /\ ticks[t] = 1}
     IN wait' = [t \in Users |-> IF t \in awake THEN "ready" ELSE wait[t]]
  /\ ticks' = [t \in Users |-> IF ticks[t] > 0 THEN ticks[t] - 1 ELSE 0]
  /\ IF current = Idle THEN UNCHANGED frame
     ELSE frame' = [frame EXCEPT ![current] = FrameFor(current, inside[current])]
  /\ Switch(wait')
  /\ UNCHANGED <<next, inside, notified, gate>>

\* main registered and loaded the regions one by one; the start of the first
\* task loads its own again.
Init ==
  /\ current \in Users /\ pmp = current
  /\ next = [t \in Users |-> 1] /\ inside = [t \in Users |-> "user"]
  /\ frame = [t \in Users |-> <<"user", t>>]
  /\ wait = [t \in Users |-> "ready"] /\ ticks = [t \in Users |-> 0]
  /\ notified = {} /\ given = {} /\ woken = {} /\ copy = [t \in Users |-> {}]
  /\ complete = {} /\ stamped = {} /\ result = "none"

Step(t) == \/ Ecall(t) \/ SysRecord(t) \/ SysYield(t) \/ SysDelay(t) \/ Return(t)
           \/ SysGive(t) \/ SysWait(t) \/ LoadMask(t) \/ StoreMask(t) \/ SysExit(t)

Next == (\E t \in Users : Step(t)) \/ Tick

\* Ticks come, and the ready list gives each task its turns.
Fairness == WF_vars(Tick) /\ \A t \in Users : SF_vars(Step(t))

Spec == Init /\ [][Next]_vars /\ Fairness

-----------------------------------------------------------------------------
(* Type invariant: tasks, masks and the result keep their ranges.          *)
TypeOK ==
  /\ current \in Users \cup {Idle} /\ pmp \in Users
  /\ \A t \in Users : next[t] \in 1 .. Len(Script[t]) + 1
  /\ wait \in [Users -> {"ready", "tick", "notify", "deleted"}]
  /\ ticks \in [Users -> 0 .. DelayTicks]
  /\ given \cup woken \subseteq 1 .. 3 /\ complete \subseteq 0 .. 2
  /\ result \in {"none", "pass", "failed"}

(* Whenever a context is restored, on a switch or when a system call       *)
(* returns, the control block of the task that goes on names its own       *)
(* frame: that of its user code, or of its kernel code exactly if it is    *)
(* inside a system call.                                                   *)
ResumesWhereItWas ==
  [][/\ current' \in Users
     /\ \/ current' # current
        \/ inside'[current] = "user" /\ inside[current] # "user"
     => frame'[current'] = FrameFor(current', inside'[current'])]_vars

(* A task in user mode has its own region open in the PMP and no other.    *)
PmpIsCurrents == current # Idle => pmp = current

(* The chain completes: no notification is lost between give and wait, and *)
(* all four tasks exit.                                                    *)
ChainCompletes == <>(\A t \in Users : wait[t] = "deleted")

(* README.md (freertos_umode): user3 is the "final gate -> result=1".      *)
GatePasses == result # "failed"
=============================================================================
