-------------------------- MODULE SystemSramFabric --------------------------
(***************************************************************************)
(* System SRAM: word-interleaved single-port banks, each behind a          *)
(* registered round-robin arbiter, and the multiplexers that bring a       *)
(* bank's answer back to its master (system_sram_fabric.sv,                *)
(* system_sram_arbiter.sv, system_sram.sv).  The whole fabric makes one    *)
(* step per clock edge; what the masters drive in that cycle is the        *)
(* parameter `req` of the operators.                                       *)
(***************************************************************************)
EXTENDS Naturals

CONSTANTS
  NumBanks,    \* NUM_BANKS
  Addrs,       \* word addresses; the low bits choose the bank
  Data,
  InitMem,
  LoadBypass   \* SYS_SRAM_LOAD_BYPASS_P

ASSUME FabricAssumption ==
  /\ NumBanks \in Nat \ {0}
  /\ 0 \in Addrs /\ Addrs \subseteq Nat /\ 0 \in Data
  /\ InitMem \in [Addrs -> Data]
  /\ LoadBypass \in BOOLEAN

VARIABLES
  arb,    \* arb[b]: the arbiter of bank b
  sram,   \* sram[b]: the bank's output register and its valid bit
  mem,    \* the cells of all banks
  fab     \* which bank answers whom, and the CPU's load-response register

fabricVars == <<arb, sram, mem, fab>>

Masters == {"cpu", "dma"}
Banks == 0 .. NumBanks - 1
BankOf(a) == a % NumBanks

\* What a master drives on its port.
Requests == [valid : BOOLEAN, we : BOOLEAN, addr : Addrs, data : Data]

FabricInit ==
  /\ arb = [b \in Banks |-> [state |-> "IDLE", owner |-> "cpu", last |-> "dma",
                             we |-> FALSE, addr |-> 0, data |-> 0]]
  /\ sram = [b \in Banks |-> [valid |-> FALSE, rdata |-> 0]]
  /\ fab = [bank |-> [m \in Masters |-> 0], cpuWe |-> FALSE,
            loadValid |-> FALSE, loadData |-> 0]
  /\ mem = InitMem

-----------------------------------------------------------------------------
(* The request side.                                                       *)

Wants(m, b, req) == req[m].valid /\ BankOf(req[m].addr) = b

\* (A slip: the DMA always comes first.)
SelectedDma(b, req) == IF Wants("dma", b, req) THEN "dma" ELSE "cpu"

\* selected_dma: the DMA alone, or its turn when both ask.
Selected(b, req) ==
  IF Wants("dma", b, req) /\ (~Wants("cpu", b, req) \/ arb[b].last = "cpu")
  THEN "dma" ELSE "cpu"

\* (A slip: both masters take the idle arbiter for theirs.)
ReadyToAll(m, req) == req[m].valid /\ arb[BankOf(req[m].addr)].state = "IDLE"

\* A master is admitted by the idle arbiter of the bank that it addresses.
Ready(m, req) ==
  LET b == BankOf(req[m].addr)
  IN  req[m].valid /\ arb[b].state = "IDLE" /\ Selected(b, req) = m

ArbiterStep(b, req) ==
  LET a == arb[b]
      s == Selected(b, req)
  IN  IF a.state = "IDLE" /\ Wants(s, b, req)
      THEN [state |-> "REQUEST", owner |-> s, last |-> s, we |-> req[s].we,
            addr |-> req[s].addr, data |-> req[s].data]
      ELSE IF a.state = "REQUEST" THEN [a EXCEPT !.state = "RESPONSE"]
      ELSE IF a.state = "RESPONSE" /\ sram[b].valid THEN [a EXCEPT !.state = "IDLE"]
      ELSE a

-----------------------------------------------------------------------------
(* The response side.                                                      *)

BankResponds(m, b) == arb[b].state = "RESPONSE" /\ sram[b].valid /\ arb[b].owner = m

\* cpu_resp_valid and its data before the load-response register.
CpuRaw == BankResponds("cpu", fab.bank["cpu"])

\* (A slip: the load register answers for stores too, which do not fill it.)
RespValidOfLoads(m) ==
  IF m = "dma" THEN BankResponds("dma", fab.bank["dma"]) ELSE fab.loadValid

RespValid(m) ==
  IF m = "dma" THEN BankResponds("dma", fab.bank["dma"])
  ELSE IF LoadBypass THEN CpuRaw
  ELSE fab.loadValid \/ (CpuRaw /\ fab.cpuWe)

RespData(m) ==
  IF m = "cpu" /\ ~LoadBypass THEN fab.loadData ELSE sram[fab.bank[m]].rdata

-----------------------------------------------------------------------------
(* One clock edge.                                                         *)

\* The bank's array is accessed in the cycle of ARB_REQUEST; the
\* output register takes the word as it was before a write.
Accessed(b) == arb[b].state = "REQUEST"

\* The bank that will answer m.
AnswerBank(m, req) == IF Ready(m, req) THEN BankOf(req[m].addr) ELSE fab.bank[m]

FabricClock(req) ==
  /\ arb' = [b \in Banks |-> ArbiterStep(b, req)]
  /\ sram' = [b \in Banks |->
       [valid |-> Accessed(b),
        rdata |-> IF Accessed(b) THEN mem[arb[b].addr] ELSE sram[b].rdata]]
  /\ mem' = [a \in Addrs |->
       LET b == BankOf(a)
       IN  IF Accessed(b) /\ arb[b].we /\ arb[b].addr = a THEN arb[b].data ELSE mem[a]]
  /\ fab' = [bank |-> [m \in Masters |-> AnswerBank(m, req)],
             cpuWe |-> IF Ready("cpu", req) THEN req["cpu"].we ELSE fab.cpuWe,
             loadValid |-> CpuRaw /\ ~fab.cpuWe,
             loadData |-> IF CpuRaw /\ ~fab.cpuWe THEN sram[fab.bank["cpu"]].rdata
                          ELSE fab.loadData]

=============================================================================
