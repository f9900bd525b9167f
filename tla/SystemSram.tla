----------------------------- MODULE SystemSram -----------------------------
(***************************************************************************)
(* System SRAM with two masters that keep the valid/ready protocol its     *)
(* arbiters are written for: each holds its request until it is admitted,  *)
(* then waits for the answer.  The DMA channel may take a waiting request  *)
(* back, as it does for an abort.  System SRAM is then an atomic memory.   *)
(***************************************************************************)
EXTENDS SystemSramFabric

CONSTANTS
  Stores,      \* the stores that masters make, <<word, value>>
  WaitLimit    \* where the counters of waiting cycles saturate

ASSUME MasterAssumption == Stores \subseteq Addrs \X Data /\ WaitLimit \in Nat

VARIABLES
  master,   \* master[m]: what m drives, and whether it waits for an answer
  waited    \* history: the cycles that m's request has not been admitted

vars == <<fabricVars, master, waited>>

IdleMaster == [phase |-> "idle", we |-> FALSE, addr |-> 0, data |-> 0]
Request(we, a, d) == [phase |-> "request", we |-> we, addr |-> a, data |-> d]

\* The port of each master in this cycle.
Port == [m \in Masters |->
           [valid |-> master[m].phase = "request", we |-> master[m].we,
            addr |-> master[m].addr, data |-> master[m].data]]

Init ==
  /\ FabricInit
  /\ master = [m \in Masters |-> IdleMaster]
  /\ waited = [m \in Masters |-> 0]

\* What m may do next: raise a request, take it back, or wait for its answer.
NewRequests == {Request(FALSE, a, 0) : a \in Addrs} \cup
               {Request(TRUE, s[1], s[2]) : s \in Stores}

Moves(m, admitted) ==
  CASE master[m].phase = "idle" -> {IdleMaster} \cup NewRequests
    [] master[m].phase = "request" ->
         IF admitted THEN {[master[m] EXCEPT !.phase = "wait"]}
         ELSE {master[m]} \cup IF m = "dma" THEN {IdleMaster} \cup NewRequests ELSE {}
    [] master[m].phase = "wait" ->
         IF RespValid(m) THEN {IdleMaster} \cup NewRequests ELSE {master[m]}

Clock ==
  LET port == Port
      admitted == [m \in Masters |-> Ready(m, port)]
  IN  /\ FabricClock(port)
      /\ \E c \in Moves("cpu", admitted["cpu"]), d \in Moves("dma", admitted["dma"]) :
           master' = [m \in Masters |-> IF m = "cpu" THEN c ELSE d]
      /\ waited' = [m \in Masters |->
           IF master[m].phase # "request" \/ master'[m] # master[m] THEN 0
           ELSE IF waited[m] < WaitLimit THEN waited[m] + 1 ELSE waited[m]]

\* The only fairness is that the clock runs.
Spec == Init /\ [][Clock]_vars /\ WF_vars(Clock)

-----------------------------------------------------------------------------
(* Safety.                                                                 *)

TypeOK ==
  /\ arb \in [Banks -> [state : {"IDLE", "REQUEST", "RESPONSE"}, owner : Masters,
                        last : Masters, we : BOOLEAN, addr : Addrs, data : Data]]
  /\ sram \in [Banks -> [valid : BOOLEAN, rdata : Data]]
  /\ mem \in [Addrs -> Data]
  /\ fab \in [bank : [Masters -> Banks], cpuWe : BOOLEAN, loadValid : BOOLEAN,
              loadData : Data]
  /\ master \in [Masters -> [phase : {"idle", "request", "wait"}, we : BOOLEAN,
                             addr : Addrs, data : Data]]
  /\ waited \in [Masters -> 0 .. WaitLimit]

\* An answer reaches a master only while it waits for one, although eight banks
\* and the load register share the way back.
AnswersExpected ==
  \A m \in Masters : RespValid(m) => master[m].phase = "wait"

\* "Serialized fairly": a request waits for at most the rest of one access and,
\* if it lost the arbitration, for that access as a whole - three cycles.
WaitBounded == \A m \in Masters : waited[m] <= 3

-----------------------------------------------------------------------------
(* Refinement and liveness.                                                *)

\* The access of m has been made: its answer is in the bank's output register
\* or in the load-response register.
Performed(m) ==
  /\ master[m].phase = "wait"
  /\ LET a == arb[BankOf(master[m].addr)]
     IN  ~(a.state = "REQUEST" /\ a.owner = m)

Answer(m) ==
  IF master[m].we THEN master[m].data
  ELSE IF RespValid(m) THEN RespData(m)
  ELSE sram[fab.bank[m]].rdata

\* The access of m as the atomic memory sees it.
Op(m) ==
  IF master[m].phase = "idle" THEN [st |-> "idle"]
  ELSE IF Performed(m) THEN [st |-> "done", we |-> master[m].we, value |-> Answer(m)]
  ELSE [st |-> "pending", we |-> master[m].we, addr |-> master[m].addr,
        data |-> master[m].data]

Atomic == INSTANCE AtomicMemory WITH
  Cancellers <- {"dma"}, amem <- mem, op <- [m \in Masters |-> Op(m)]

\* System SRAM is an atomic memory: no access is lost, doubled or answered with
\* another access's data.
AtomicSpec == Atomic!AtomicSpec

\* Every request of the CPU is answered; so is every request of the DMA channel
\* once it is admitted.
Served ==
  /\ (master["cpu"].phase = "request") ~> RespValid("cpu")
  /\ (master["dma"].phase = "wait") ~> RespValid("dma")

=============================================================================
