---------------------------- MODULE AtomicMemory ----------------------------
(***************************************************************************)
(* What System SRAM promises to the CPU and to the DMA channel: one memory *)
(* in which every access happens at one instant between its request and    *)
(* its answer, every master having at most one access under way.  The two  *)
(* masters may progress on the same clock edge; two accesses to one word   *)
(* never happen on the same edge.                                          *)
(***************************************************************************)
CONSTANTS Masters, Addrs, Data,
          Cancellers,   \* the masters that may take back a waiting request
          InitMem

VARIABLES
  amem,   \* word -> value
  op      \* op[m]: the access of master m

NoOp == [st |-> "idle"]
PendingOps == [st : {"pending"}, we : BOOLEAN, addr : Addrs, data : Data]
Done(we, v) == [st |-> "done", we |-> we, value |-> v]

\* Master m's access happens on this edge: a load returns the word's value.
Performs(m) ==
  /\ op[m].st = "pending"
  /\ \/ op[m].we /\ op'[m] = Done(TRUE, op[m].data)
     \/ ~op[m].we /\ op'[m] = Done(FALSE, amem[op[m].addr])

Issues(m) == op[m].st = "idle" /\ op'[m] \in PendingOps

\* A request is taken back, or an answer is taken; the master may go on at once
\* with its next access.
Cancels(m) == m \in Cancellers /\ op[m].st = "pending" /\ op'[m] \in {NoOp} \cup PendingOps
Returns(m) == op[m].st = "done" /\ op'[m] \in {NoOp} \cup PendingOps

AtomicInit == amem = InitMem /\ op = [m \in Masters |-> NoOp]

AtomicNext ==
  LET performing == {m \in Masters : Performs(m)}
      stored(a) == {m \in performing : op[m].we /\ op[m].addr = a}
  IN  /\ \A m \in Masters \ performing :
           Issues(m) \/ Cancels(m) \/ Returns(m) \/ op'[m] = op[m]
      /\ \A m, n \in performing : m # n => op[m].addr # op[n].addr
      /\ amem' = [a \in Addrs |->
           IF stored(a) = {} THEN amem[a] ELSE op[CHOOSE m \in stored(a) : TRUE].data]

AtomicSpec == AtomicInit /\ [][AtomicNext]_<<amem, op>>

=============================================================================
