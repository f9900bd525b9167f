--------------------------- MODULE DataPath_proofs ---------------------------
(***************************************************************************)
(* Every load gets what the program stored last at its address, for every  *)
(* workload, every number of banks and whatever debugger and DMA channel   *)
(* do; and no request is lost, if the debugger stays away from the D-bus   *)
(* accesses of the program and the DMA channel from its banks.             *)
(***************************************************************************)
EXTENDS DataPath, TLAPS

-----------------------------------------------------------------------------
(* The inductive invariant.                                                *)

ArbType  == [state : {"IDLE", "REQUEST", "RESPONSE"}, owner : Masters,
             last : Masters, we : BOOLEAN, addr : Addrs, data : Data]
FabType  == [bank : [Masters -> Banks], cpuWe : BOOLEAN, loadValid : BOOLEAN,
             loadData : Data]
ApbType  == [state : {"IDLE", "SETUP", "ACCESS"}, valid : BOOLEAN, we : BOOLEAN,
             data : Data, addr : CpuAddrs \cup {<<"APB", 0>>}]
DmaType  == [phase : {"idle", "request", "wait"}, addr : Addrs]

PacketShape ==
  /\ pkt.op \in {"none", "load", "store"} /\ pkt.lmem \in BOOLEAN
  /\ pkt.op # "none" => pkt.addr \in work.addrs
  /\ pkt.op = "store" => pkt.val \in Data
  /\ pkt.lmem => pkt.op = "load" /\ pkt.addr[1] = "DMEM"

Types ==
  /\ TypeOK /\ PacketShape
  /\ apb \in ApbType /\ clint \in BOOLEAN /\ dma \in DmaType
  /\ prog \in [Answering -> Data] /\ work \in Workloads
  /\ arb \in [Banks -> ArbType] /\ sram \in [Banks -> [valid : BOOLEAN, rdata : Data]]
  /\ mem \in [Addrs -> Data] /\ fab \in FabType

\* MEM waits for an answer of target t, to which the multiplexer is set.
Waiting(t) == lsu.pending /\ MemOp /\ ~pkt.lmem /\ pkt.addr[1] = t /\ target = t

\* Only targets that answer later are waited for.
Waits ==
  lsu.pending =>
    /\ Waiting(pkt.addr[1])
    /\ pkt.addr[1] # "NONE" /\ (pkt.addr[1] = "CLINT" => pkt.op = "load")

\* An answer of the DTCM is the word for which MEM waits, or that of a load that
\* asked in EX; a word that is kept is that of the packet.
LocalAnswers ==
  /\ MemResp => Waiting("DMEM") /\ pkt.op = "load" /\ dtcm.rdata = prog[pkt.addr]
  /\ dtcm.valid /\ dtcm.owner = "LMEM" =>
       ~dtcm.write /\ pkt.lmem /\ dtcm.rdata = prog[pkt.addr]
  /\ lsu.hold => pkt.lmem /\ lsu.data = prog[pkt.addr]

\* The bridge works for the packet in MEM.
BridgeWorks ==
  /\ apb.state # "IDLE" =>
       /\ Waiting("APB") /\ ~apb.valid /\ apb.addr = pkt.addr
       /\ apb.we = (pkt.op = "store") /\ (apb.we => apb.data = pkt.val)
  /\ apb.valid =>
       /\ Waiting("APB")
       /\ pkt.op = "load" => apb.data = prog[pkt.addr]
       /\ pkt.op = "store" => cells[pkt.addr] = pkt.val

ClintWorks == clint => Waiting("CLINT") /\ pkt.op = "load"

CpuIn(b) == arb[b].state # "IDLE" /\ arb[b].owner = "cpu"

\* A bank that works for the CPU does so for the packet in MEM, and its answer is
\* the right one; one that works for the DMA channel reads.
BankWorks(b) ==
  /\ sram[b].valid <=> arb[b].state = "RESPONSE"
  /\ arb[b].owner = "dma" => ~arb[b].we
  /\ CpuIn(b) =>
       /\ Waiting("SRAM") /\ BankOf(pkt.addr[2]) = b /\ fab.bank["cpu"] = b
       /\ arb[b].addr = pkt.addr[2] /\ arb[b].we = (pkt.op = "store")
       /\ fab.cpuWe = arb[b].we /\ (arb[b].we => arb[b].data = pkt.val)
       /\ arb[b].state = "RESPONSE" =>
            IF pkt.op = "store" THEN mem[pkt.addr[2]] = pkt.val
            ELSE sram[b].rdata = prog[pkt.addr]

Loaded == ~LoadBypass /\ fab.loadValid
LoadKept ==
  Loaded => /\ Waiting("SRAM") /\ pkt.op = "load" /\ fab.loadData = prog[pkt.addr]
            /\ \A b \in Banks : ~CpuIn(b)

\* What the target of address a holds.
Stored(a) == IF a[1] = "SRAM" THEN mem[a[2]] ELSE cells[a]

\* The targets hold what the program stored, but for the store that is in MEM.
Memory ==
  /\ \A a \in Answering : Stored(a) = prog[a] \/ (pkt.op = "store" /\ pkt.addr = a)
  /\ pkt.op = "store" /\ pkt.addr \in Answering => prog[pkt.addr] = pkt.val

\* The debugger writes where the program does not read.
DebuggerApart == sba.req /\ sba.we => sba.addr \in SbaStores

IInv ==
  /\ Types /\ Waits /\ LocalAnswers /\ BridgeWorks /\ ClintWorks
  /\ (\A b \in Banks : BankWorks(b)) /\ LoadKept /\ Memory /\ DebuggerApart

-----------------------------------------------------------------------------
(* What the state space says of addresses, packets and instructions.       *)

LEMMA Addresses ==
  /\ \A a \in CpuAddrs \cup SbaAddrs : a[1] \in Targets \ {"IMEM"} /\ a[2] \in Addrs
  /\ \A a, b \in CpuAddrs \cup SbaAddrs : a[1] = b[1] /\ a[2] = b[2] => a = b
  /\ \A a \in CpuAddrs : a \notin SbaStores
  /\ \A a \in CpuAddrs : a[1] # "NONE" => a \in Answering
  /\ \A a \in CpuAddrs \cup SbaAddrs : a[1] \in {"DMEM", "APB", "CLINT"} => a \in Held
  /\ \A a \in Answering : a \in CpuAddrs /\ a[1] \in {"DMEM", "SRAM", "APB", "CLINT"}
  /\ \A a \in Held : a \in CpuAddrs \cup SbaAddrs
  /\ \A a \in SbaStores : a \in SbaAddrs
<1>1. CpuAddrs \cup SbaAddrs \subseteq (Targets \ {"IMEM"}) \X Addrs
  BY DataPathAssumption
<1>2. \A a \in CpuAddrs \cup SbaAddrs : a[1] \in Targets \ {"IMEM"} /\ a[2] \in Addrs
                                        /\ a = <<a[1], a[2]>>
  BY <1>1
<1>3. \A a, b \in CpuAddrs \cup SbaAddrs : a[1] = b[1] /\ a[2] = b[2] => a = b
  BY <1>2
<1>4. \A a \in Answering : a \in CpuAddrs /\ a[1] \in {"DMEM", "SRAM", "APB", "CLINT"}
  BY <1>2 DEF Answering, Targets
<1>. HIDE DEF CpuAddrs
<1>5. \A a \in CpuAddrs : a \notin SbaStores
  BY DataPathAssumption
<1>6. \A a \in SbaStores : a \in SbaAddrs
  BY DEF SbaAddrs
<1>. QED  BY <1>2, <1>3, <1>4, <1>5, <1>6 DEF Answering, Held

LEMMA WorkloadShape ==
  ASSUME NEW w \in Workloads
  PROVE  w.addrs \subseteq CpuAddrs /\ w.cycles \subseteq 1 .. 64 /\ w.sba \subseteq SbaAddrs
         /\ w.dma \in BOOLEAN
<1>1. w \in [addrs : SUBSET CpuAddrs, cycles : SUBSET (1 .. 64),
              sba : SUBSET SbaAddrs, dma : BOOLEAN]
  BY DataPathAssumption
<1>. HIDE DEF CpuAddrs, SbaAddrs
<1>. QED  BY <1>1

\* The instruction in EX.
LEMMA Executing ==
  ASSUME Types
  PROVE  /\ ex.op \in {"none", "load", "store", "md"}
         /\ ex.op \in {"load", "store"} => ex.addr \in CpuAddrs /\ ex.addr \in work.addrs
         /\ ex.op = "store" => ex.val \in Data
         /\ ex.op = "md" => ex.cycles \in 1 .. 64
<1>1. ex \in Instructions /\ work \in Workloads
  BY DEF Types, TypeOK
<1>2. work.addrs \subseteq CpuAddrs /\ work.cycles \subseteq 1 .. 64
  BY <1>1, WorkloadShape
<1>3. /\ ex.op \in {"none", "load", "store", "md"}
      /\ ex.op \in {"load", "store"} => ex.addr \in work.addrs
      /\ ex.op = "store" => ex.val \in Data
      /\ ex.op = "md" => ex.cycles \in work.cycles
  BY <1>1 DEF Instructions, Bubble
<1>. QED  BY <1>2, <1>3

\* The packet in MEM.
LEMMA Packet ==
  ASSUME Types
  PROVE  /\ pkt.op \in {"none", "load", "store"} /\ pkt.lmem \in BOOLEAN
         /\ pkt.op # "none" => pkt.addr \in CpuAddrs /\ pkt.addr \in CpuAddrs \cup SbaAddrs
                               /\ pkt.addr[2] \in Addrs /\ pkt.addr[1] \in Targets
         /\ pkt.op # "none" /\ pkt.addr[1] # "NONE" => pkt.addr \in Answering
         /\ pkt.op = "store" => pkt.val \in Data /\ ~pkt.lmem
         /\ pkt.lmem => pkt.op = "load" /\ pkt.addr[1] = "DMEM"
<1>1. work.addrs \subseteq CpuAddrs
  BY WorkloadShape DEF Types
<1>2. pkt.op # "none" => pkt.addr \in CpuAddrs
  BY <1>1 DEF Types, PacketShape
<1>. HIDE DEF CpuAddrs
<1>. QED  BY <1>2, Addresses DEF Types, PacketShape

LEMMA BankInBanks == ASSUME NEW a \in Addrs PROVE BankOf(a) \in Banks
BY FabricAssumption DEF BankOf, Banks

\* Only an advance brings another packet, and only a store another value.
LEMMA PacketStep ==
  ASSUME Types, Clock
  PROVE  /\ ~Advance => pkt' = pkt /\ ex' = ex /\ prog' = prog
         /\ Advance /\ ex.op = "load" =>
              pkt'.op = "load" /\ pkt'.addr = ex.addr /\ pkt'.lmem = LmemAccept
         /\ Advance /\ ex.op = "store" =>
              pkt'.op = "store" /\ pkt'.addr = ex.addr /\ pkt'.val = ex.val /\ pkt'.lmem = FALSE
         /\ Advance /\ ex.op \notin {"load", "store"} => pkt'.op = "none" /\ pkt'.lmem = FALSE
         /\ prog' = IF Advance /\ ex.op = "store" /\ ex.addr \in Answering
                    THEN [prog EXCEPT ![ex.addr] = ex.val] ELSE prog
         /\ work' = work
BY DEF Clock, CoreClock, NextPacket, NoPacket

-----------------------------------------------------------------------------
(* Answers of this cycle.                                                  *)

\* A request is a pulse: while MEM waits there is none.
LEMMA Phases ==
  ASSUME IInv
  PROVE  /\ lsu.pending => ~DataReq /\ (\A t \in Targets : ~Selects(t)) /\ ~FastStore /\ ~Unmapped
         /\ lsu.pending => (MemResponse <=> TargetResp)
         /\ ~pkt.lmem /\ ~DataReq /\ ~lsu.pending => ~MemOp
         /\ pkt.lmem => ~DataReq /\ ~lsu.pending
<1>1. lsu.pending => MemOp /\ ~pkt.lmem
  BY DEF IInv, Waits, Waiting
<1>2. \A t : Selects(t) => DataReq
  BY DEF Selects
<1>3. FastStore => DataReq
  BY DEF FastStore, MemWriteAccept, Selects
<1>4. lsu.pending => ~DataReq
  BY DEF DataReq
<1>5. lsu.pending => (MemResponse <=> TargetResp)
  BY <1>1, <1>2, <1>3, <1>4 DEF MemResponse, LmemResponse, DataResp, Unmapped
<1>. QED  BY <1>1, <1>2, <1>3, <1>4, <1>5 DEF DataReq, Unmapped

\* An answer of System SRAM is that of the packet.
LEMMA SramAnswer ==
  ASSUME IInv, RespValid("cpu")
  PROVE  /\ Waiting("SRAM")
         /\ pkt.op = "load" => RespData("cpu") = prog[pkt.addr]
         /\ pkt.op = "store" => mem[pkt.addr[2]] = pkt.val
         /\ \A b \in Banks : CpuIn(b) => arb[b].state = "RESPONSE"
         /\ ~LoadBypass => ~(CpuRaw /\ ~fab.cpuWe)
<1>1. fab.bank["cpu"] \in Banks
  BY DEF IInv, Types, FabType, Masters
<1>2. CpuRaw => CpuIn(fab.bank["cpu"]) /\ arb[fab.bank["cpu"]].state = "RESPONSE"
  BY DEF CpuRaw, BankResponds, CpuIn
<1>3. \A b \in Banks : CpuIn(b) => b = fab.bank["cpu"]
  BY DEF IInv, BankWorks
<1>4. CASE CpuRaw /\ (LoadBypass \/ fab.cpuWe)
  <2>1. BankWorks(fab.bank["cpu"])
    BY <1>1 DEF IInv
  <2>2. pkt.op = "load" => LoadBypass
    BY <1>2, <1>4, <2>1 DEF BankWorks
  <2>3. pkt.op \in {"none", "load", "store"}
    BY Packet DEF IInv
  <2>. QED  BY <1>2, <1>3, <1>4, <2>1, <2>2, <2>3 DEF BankWorks, RespData
<1>5. CASE Loaded
  <2>1. LoadKept
    BY DEF IInv
  <2>2. ~CpuRaw
    BY <1>1, <1>2, <1>5, <2>1 DEF LoadKept
  <2>. QED  BY <1>5, <2>1, <2>2 DEF LoadKept, RespData, Loaded
<1>. QED  BY <1>4, <1>5 DEF RespValid, Loaded

\* An answer of a target is that of the packet, and MEM waits for it.
LEMMA TargetAnswer ==
  ASSUME IInv, TargetResp
  PROVE  /\ lsu.pending /\ Waiting(pkt.addr[1])
         /\ pkt.op = "load" /\ pkt.addr \in Answering => DataRead = prog[pkt.addr]
         /\ pkt.op = "store" /\ pkt.addr \in Answering => Stored(pkt.addr) = pkt.val
         /\ pkt.addr[1] = "DMEM" => MemResp /\ pkt.op = "load"
         /\ pkt.addr[1] = "SRAM" => RespValid("cpu")
         /\ pkt.addr[1] = "APB" => apb.valid
         /\ pkt.addr[1] = "CLINT" => clint
<1>0. /\ LocalAnswers /\ BridgeWorks /\ ClintWorks /\ Memory
      /\ pkt.op \in {"none", "load", "store"}
      /\ pkt.op # "none" => pkt.addr \in CpuAddrs
  BY Packet DEF IInv
<1>1. CASE target = "DMEM" /\ MemResp
  <2>1. Waiting("DMEM") /\ pkt.op = "load" /\ dtcm.rdata = prog[pkt.addr]
    BY <1>0, <1>1 DEF LocalAnswers
  <2>. QED  BY <1>1, <2>1, Phases DEF Waiting, DataRead
<1>2. CASE target = "SRAM" /\ RespValid("cpu")
  BY <1>2, SramAnswer, Phases DEF Waiting, DataRead, Stored
<1>3. CASE target = "APB" /\ apb.valid
  <2>1. Waiting("APB")
    BY <1>0, <1>3 DEF BridgeWorks
  <2>. QED  BY <1>0, <1>3, <2>1, Phases DEF Waiting, DataRead, BridgeWorks, Stored
<1>4. CASE target = "CLINT" /\ clint
  <2>1. Waiting("CLINT") /\ pkt.op = "load"
    BY <1>0, <1>4 DEF ClintWorks
  <2>2. pkt.addr \in CpuAddrs /\ pkt.addr[1] = "CLINT" /\ MemOp
    BY <1>0, <2>1 DEF Waiting
  <2>3. pkt.addr \in Held /\ pkt.addr \in Answering
    BY <2>2, Addresses
  <2>4. cells[pkt.addr] = prog[pkt.addr]
    BY <1>0, <2>1, <2>2, <2>3 DEF Memory, Stored
  <2>. QED  BY <1>4, <2>1, <2>2, <2>3, <2>4, Phases DEF Waiting, DataRead
<1>. QED  BY <1>1, <1>2, <1>3, <1>4 DEF TargetResp

\* While MEM does not wait, nothing is on its way to it over the D-bus.
LEMMA NothingOut ==
  ASSUME IInv, ~lsu.pending
  PROVE  /\ ~MemResp /\ apb.state = "IDLE" /\ ~apb.valid /\ ~clint /\ ~Loaded /\ ~TargetResp
         /\ \A b \in Banks : ~CpuIn(b)
<1>1. ~TargetResp
  BY TargetAnswer
<1>. QED  BY <1>1 DEF IInv, LocalAnswers, BridgeWorks, ClintWorks, BankWorks, LoadKept, Waiting

\* What MEM takes for a load is what the program stored last.
LEMMA LoadsAnswered == IInv => LoadsSeeProgram
<1>. SUFFICES ASSUME IInv, MemResponse, pkt.op = "load", pkt.addr \in Answering
              PROVE  ResponseData = prog[pkt.addr]
  BY DEF LoadsSeeProgram
<1>1. CASE pkt.lmem
  <2>1. LmemResp => dtcm.rdata = prog[pkt.addr]
    BY DEF IInv, LocalAnswers, LmemResp
  <2>2. lsu.hold => lsu.data = prog[pkt.addr]
    BY DEF IInv, LocalAnswers
  <2>3. LmemResponse
    BY <1>1, Phases DEF MemResponse
  <2>. QED  BY <1>1, <2>1, <2>2, <2>3 DEF LmemResponse, ResponseData
<1>2. CASE ~pkt.lmem
  <2>1. ~LmemResponse
    BY <1>2 DEF LmemResponse
  <2>2. ~FastStore /\ ~Unmapped
    <3>1. pkt.addr[1] # "NONE"
      BY Addresses
    <3>. QED  BY <3>1 DEF FastStore, MemWriteAccept, Unmapped, Selects
  <2>3. TargetResp
    BY <2>1, <2>2 DEF MemResponse, DataResp
  <2>. QED  BY <2>1, <2>3, TargetAnswer DEF ResponseData
<1>. QED  BY <1>1, <1>2

-----------------------------------------------------------------------------
(* One edge.                                                               *)

\* A request that is not answered at once starts a wait, an answer ends it, and
\* while MEM waits nothing moves.
LEMMA WaitStep ==
  ASSUME IInv, Clock
  PROVE  /\ lsu'.pending <=> \/ DataReq /\ ~FastStore /\ ~Unmapped
                             \/ lsu.pending /\ ~TargetResp
         /\ lsu'.pending => /\ ~Advance /\ pkt' = pkt /\ prog' = prog /\ target' = pkt.addr[1]
                            /\ Waiting(pkt.addr[1])'
         /\ Waits'
<1>1. /\ lsu'.pending = ((DataReq /\ ~DataResp) \/ (lsu.pending /\ ~MemResponse))
      /\ target' = IF DataReq /\ ~FastStore /\ ~Unmapped THEN pkt.addr[1] ELSE target
  BY DEF Clock, CoreClock, InterconnectClock
<1>2. lsu'.pending <=> \/ DataReq /\ ~FastStore /\ ~Unmapped
                       \/ lsu.pending /\ ~TargetResp
  <2>1. CASE lsu.pending
    BY <1>1, <2>1, Phases
  <2>2. CASE ~lsu.pending
    BY <1>1, <2>2, NothingOut DEF DataResp
  <2>. QED  BY <2>1, <2>2
<1>3. ASSUME lsu'.pending
      PROVE  /\ MemOp /\ ~pkt.lmem /\ ~Advance /\ target' = pkt.addr[1]
             /\ pkt.addr[1] # "NONE" /\ (pkt.addr[1] = "CLINT" => pkt.op = "load")
  <2>1. CASE DataReq /\ ~FastStore /\ ~Unmapped
    <3>1. MemOp /\ ~pkt.lmem /\ ~lsu.pending
      BY <2>1 DEF DataReq
    <3>2. ~MemResponse
      BY <2>1, <3>1, NothingOut DEF MemResponse, LmemResponse, DataResp
    <3>3. pkt.addr[1] # "NONE" /\ (pkt.addr[1] = "CLINT" => pkt.op # "store")
      BY <2>1 DEF Unmapped, FastStore, Selects
    <3>. QED  BY <1>1, <2>1, <3>1, <3>2, <3>3, Packet DEF IInv, Advance, MemWait, MemOp
  <2>2. CASE lsu.pending /\ ~TargetResp
    <3>1. Waits /\ ~MemResponse /\ ~DataReq
      BY <2>2, Phases DEF IInv
    <3>. QED  BY <1>1, <2>2, <3>1 DEF Waits, Waiting, Advance, MemWait
  <2>. QED  BY <1>2, <1>3, <2>1, <2>2
<1>4. lsu'.pending => pkt' = pkt /\ prog' = prog
  BY <1>3, PacketStep DEF IInv
<1>5. lsu'.pending => Waiting(pkt.addr[1])'
  BY <1>3, <1>4 DEF Waiting, MemOp
<1>6. Waits'
  BY <1>3, <1>4, <1>5 DEF Waits
<1>. QED  BY <1>2, <1>3, <1>4, <1>5, <1>6

\* A request selects the target of the packet.
LEMMA Selecting ==
  ASSUME NEW t, Selects(t)
  PROVE  DataReq /\ MemOp /\ ~pkt.lmem /\ ~lsu.pending /\ pkt.addr[1] = t
BY DEF Selects, DataReq

LEMMA BridgeStep ==
  ASSUME IInv, Clock
  PROVE  BridgeWorks' /\ apb' \in ApbType
<1>0. /\ BridgeWorks /\ apb \in ApbType /\ Types
      /\ pkt.op \in {"none", "load", "store"}
      /\ apb.state \in {"IDLE", "SETUP", "ACCESS"}
  BY Packet DEF IInv, Types, ApbType
<1>1. CASE apb.state = "IDLE" /\ Selects("APB")
  <2>1. /\ apb' = [state |-> "SETUP", valid |-> FALSE, we |-> pkt.op = "store",
                   data |-> IF pkt.op = "store" THEN pkt.val ELSE 0, addr |-> pkt.addr]
    BY <1>1 DEF Clock, ApbClock
  <2>2. MemOp /\ pkt.addr[1] = "APB" /\ DataReq
    BY <1>1, Selecting
  <2>3. ~FastStore /\ ~Unmapped
    BY <1>1 DEF FastStore, MemWriteAccept, Unmapped, Selects
  <2>4. pkt' = pkt /\ Waiting("APB")'
    BY <2>2, <2>3, WaitStep
  <2>5. pkt.addr \in CpuAddrs /\ 0 \in Data /\ (pkt.op = "store" => pkt.val \in Data)
    BY <1>0, <2>2, Packet, FabricAssumption DEF MemOp
  <2>. HIDE DEF CpuAddrs
  <2>. QED  BY <2>1, <2>4, <2>5 DEF BridgeWorks, ApbType
<1>2. CASE apb.state = "IDLE" /\ ~Selects("APB")
  <2>1. apb' = [apb EXCEPT !.valid = FALSE]
    BY <1>2 DEF Clock, ApbClock
  <2>. QED  BY <1>0, <1>2, <2>1 DEF BridgeWorks, ApbType
<1>3. CASE apb.state # "IDLE"
  <2>1. /\ Waiting("APB") /\ ~apb.valid /\ apb.addr = pkt.addr /\ pkt.op # "none"
        /\ apb.we = (pkt.op = "store") /\ (apb.we => apb.data = pkt.val)
    BY <1>0, <1>3 DEF BridgeWorks, Waiting, MemOp
  <2>2. ~TargetResp
    BY <2>1, TargetAnswer DEF Waiting
  <2>3. pkt' = pkt /\ prog' = prog /\ Waiting("APB")'
    BY <2>1, <2>2, WaitStep DEF Waiting
  <2>4. CASE apb.state = "SETUP"
    <3>1. apb' = [apb EXCEPT !.state = "ACCESS"]
      BY <2>4 DEF Clock, ApbClock
    <3>. QED  BY <1>0, <2>1, <2>3, <3>1 DEF BridgeWorks, ApbType
  <2>5. CASE apb.state = "ACCESS"
    <3>1. apb' = [apb EXCEPT !.state = "IDLE", !.valid = TRUE,
                             !.data = IF apb.we THEN 0 ELSE cells[apb.addr]]
      BY <2>5 DEF Clock, ApbClock
    <3>2. pkt.addr \in CpuAddrs /\ pkt.addr[1] = "APB"
      BY <1>0, <2>1, Packet DEF Waiting
    <3>3. pkt.addr \in Held /\ pkt.addr \in Answering
      BY <3>2, Addresses
    <3>4. cells[pkt.addr] \in Data /\ 0 \in Data
      BY <1>0, <3>3, FabricAssumption DEF Types, TypeOK
    <3>5. pkt.op = "load" => cells[pkt.addr] = prog[pkt.addr]
      BY <3>2, <3>3 DEF IInv, Memory, Stored
    <3>6. pkt.op = "store" => cells'[pkt.addr] = pkt.val
      BY <2>1, <2>5, <3>2, <3>3 DEF Clock, CellsClock, StoredAt
    <3>7. /\ apb'.state = "IDLE" /\ apb'.valid = TRUE /\ apb'.we = apb.we
          /\ apb'.data = (IF apb.we THEN 0 ELSE cells[pkt.addr]) /\ apb'.addr = apb.addr
          /\ apb' \in ApbType
      BY <1>0, <2>1, <3>1, <3>4 DEF ApbType
    <3>8. BridgeWorks'
      BY <2>1, <2>3, <3>5, <3>6, <3>7 DEF BridgeWorks
    <3>. QED  BY <3>7, <3>8
  <2>. QED  BY <1>0, <1>3, <2>4, <2>5
<1>. QED  BY <1>1, <1>2, <1>3

LEMMA ClintStep ==
  ASSUME IInv, Clock
  PROVE  ClintWorks' /\ clint' \in BOOLEAN
<1>1. clint' = (Selects("CLINT") /\ pkt.op = "load")
  BY DEF Clock, ClintClock
<1>2. ASSUME Selects("CLINT"), pkt.op = "load"
      PROVE  pkt' = pkt /\ Waiting("CLINT")'
  <2>1. ~FastStore /\ ~Unmapped
    BY <1>2 DEF FastStore, MemWriteAccept, Unmapped, Selects
  <2>. QED  BY <1>2, <2>1, Selecting, WaitStep
<1>. QED  BY <1>1, <1>2 DEF ClintWorks

\* The port of the DTCM takes one request, whose word it returns.
LEMMA DtcmPort ==
  ASSUME Types
  PROVE  /\ DtcmRequest.owner \in {"NONE", "SBA", "CPU", "LMEM"}
         /\ DtcmRequest.owner # "NONE" => DtcmRequest.we \in BOOLEAN /\ DtcmRequest.addr \in Held
                                          /\ DtcmRequest.addr[1] = "DMEM" /\ DtcmRequest.data \in Data
         /\ DtcmRequest.owner = "SBA" <=> SbaDmem
         /\ DtcmRequest.owner = "SBA" => DtcmRequest.addr = sba.addr /\ DtcmRequest.we = sba.we
         /\ DtcmRequest.owner = "CPU" <=> Selects("DMEM") /\ ~SbaDmem
         /\ DtcmRequest.owner = "CPU" => DtcmRequest.addr = pkt.addr
                                         /\ DtcmRequest.we = (pkt.op = "store")
                                         /\ (pkt.op = "store" => DtcmRequest.data = pkt.val)
         /\ DtcmRequest.owner = "LMEM" <=> LmemAccept
         /\ DtcmRequest.owner = "LMEM" => DtcmRequest.addr = ex.addr /\ DtcmRequest.we = FALSE
<1>0. /\ sba.addr \in SbaAddrs /\ sba.data \in Data /\ sba.we \in BOOLEAN /\ 0 \in Data
      /\ \A a \in CpuAddrs \cup SbaAddrs : a[1] = "DMEM" => a \in Held
  BY FabricAssumption, Addresses DEF Types, TypeOK
<1>. HIDE DEF CpuAddrs, SbaAddrs
<1>1. CASE SbaDmem
  BY <1>0, <1>1 DEF SbaDmem, DtcmRequest, LmemAccept
<1>2. CASE ~SbaDmem /\ Selects("DMEM")
  <2>1. pkt.addr \in CpuAddrs /\ pkt.addr[1] = "DMEM" /\ (pkt.op = "store" => pkt.val \in Data)
    BY <1>2, Packet DEF Selects, DataReq, MemOp
  <2>2. DtcmRequest = [owner |-> "CPU", addr |-> pkt.addr, we |-> pkt.op = "store",
                       data |-> IF pkt.op = "store" THEN pkt.val ELSE 0]
    BY <1>2 DEF DtcmRequest
  <2>. QED  BY <1>0, <1>2, <2>1, <2>2 DEF LmemAccept
<1>3. CASE ~SbaDmem /\ ~Selects("DMEM")
  <2>1. LmemAccept => ex.addr \in CpuAddrs /\ ex.addr[1] = "DMEM"
    BY Executing DEF LmemAccept
  <2>. QED  BY <1>0, <1>3, <2>1 DEF DtcmRequest
<1>. QED  BY <1>1, <1>2, <1>3

\* A load asks in EX for its word only when no store to it is on its way.
LEMMA EarlyLoad ==
  ASSUME IInv, LmemAccept
  PROVE  /\ Advance /\ ex.op = "load" /\ ex.addr \in Answering /\ ex.addr[1] = "DMEM"
         /\ ex.addr \in Held /\ cells[ex.addr] = prog[ex.addr]
<1>1. /\ Advance /\ ex.op = "load" /\ ex.addr[1] = "DMEM" /\ ~Selects("DMEM")
      /\ ex.addr \in CpuAddrs /\ ex.addr \in CpuAddrs \cup SbaAddrs
  BY Executing DEF IInv, LmemAccept
<1>2. ex.addr \in Answering /\ ex.addr \in Held
  BY <1>1, Addresses
<1>3. ~(pkt.op = "store" /\ pkt.addr = ex.addr)
  <2>. SUFFICES ASSUME pkt.op = "store", pkt.addr = ex.addr PROVE FALSE
    OBVIOUS
  <2>1. MemOp /\ ~pkt.lmem /\ MemResponse
    BY <1>1, Packet DEF IInv, MemOp, Advance, MemWait
  <2>2. lsu.pending /\ ~DataReq
    BY <1>1, <2>1 DEF Selects, DataReq
  <2>3. TargetResp
    BY <2>1, <2>2, Phases
  <2>. QED  BY <1>1, <2>3, TargetAnswer
<1>. QED  BY <1>1, <1>2, <1>3 DEF IInv, Memory, Stored

LEMMA LocalStep ==
  ASSUME IInv, Clock
  PROVE  LocalAnswers'
<1>0. LocalAnswers /\ Types /\ Memory
  BY DEF IInv
<1>1. /\ dtcm'.owner = IF DtcmRequest.owner # "NONE" THEN DtcmRequest.owner
                       ELSE IF dtcm.valid THEN "NONE" ELSE dtcm.owner
      /\ dtcm'.valid = (DtcmRequest.owner # "NONE")
      /\ dtcm'.write = (DtcmRequest.owner # "NONE" /\ DtcmRequest.we)
      /\ DtcmRequest.owner # "NONE" => dtcm'.rdata = cells[DtcmRequest.addr]
  BY DEF Clock, DtcmClock
<1>2. MemResp' => Waiting("DMEM")' /\ pkt'.op = "load" /\ dtcm'.rdata = prog'[pkt'.addr]
  <2>. SUFFICES ASSUME dtcm'.valid, dtcm'.owner = "CPU", ~dtcm'.write
                PROVE  Waiting("DMEM")' /\ pkt'.op = "load" /\ dtcm'.rdata = prog'[pkt'.addr]
    BY DEF MemResp
  <2>1. DtcmRequest.owner = "CPU" /\ ~DtcmRequest.we
    BY <1>1
  <2>2. Selects("DMEM") /\ DtcmRequest.addr = pkt.addr /\ pkt.op # "store"
    BY <1>0, <2>1, DtcmPort
  <2>3. MemOp /\ DataReq /\ pkt.addr[1] = "DMEM" /\ ~FastStore /\ ~Unmapped
    BY <2>2, Selecting DEF FastStore, MemWriteAccept, Unmapped, Selects
  <2>4. pkt' = pkt /\ prog' = prog /\ Waiting("DMEM")'
    BY <2>3, WaitStep
  <2>5. pkt.op = "load" /\ pkt.addr \in Answering
    BY <1>0, <2>2, <2>3, Packet DEF MemOp
  <2>6. cells[pkt.addr] = prog[pkt.addr]
    BY <1>0, <2>3, <2>5 DEF Memory, Stored
  <2>. QED  BY <1>1, <2>1, <2>2, <2>4, <2>5, <2>6
<1>3. ASSUME dtcm'.valid, dtcm'.owner = "LMEM"
      PROVE  ~dtcm'.write /\ pkt'.lmem /\ dtcm'.rdata = prog'[pkt'.addr]
  <2>1. DtcmRequest.owner = "LMEM"
    BY <1>1, <1>3
  <2>2. LmemAccept /\ DtcmRequest.addr = ex.addr /\ DtcmRequest.we = FALSE
    BY <1>0, <2>1, DtcmPort
  <2>3. Advance /\ ex.op = "load" /\ cells[ex.addr] = prog[ex.addr]
    BY <2>2, EarlyLoad
  <2>4. pkt'.addr = ex.addr /\ pkt'.lmem /\ prog' = prog
    BY <1>0, <2>2, <2>3, PacketStep
  <2>. QED  BY <1>1, <2>1, <2>2, <2>3, <2>4
<1>4. ASSUME lsu'.hold
      PROVE  pkt'.lmem /\ lsu'.data = prog'[pkt'.addr]
  <2>. DEFINE keep == ~Advance /\ pkt.lmem /\ LmemResp
  <2>1. /\ lsu'.hold = (~Advance /\ (keep \/ lsu.hold))
        /\ lsu'.data = IF keep THEN dtcm.rdata ELSE lsu.data
    BY DEF Clock, CoreClock
  <2>2. ~Advance /\ pkt' = pkt /\ prog' = prog
    BY <1>0, <1>4, <2>1, PacketStep
  <2>3. CASE keep
    BY <1>0, <2>1, <2>2, <2>3 DEF LocalAnswers, LmemResp
  <2>4. CASE ~keep /\ lsu.hold
    BY <1>0, <2>1, <2>2, <2>4 DEF LocalAnswers
  <2>. QED  BY <1>4, <2>1, <2>3, <2>4
<1>. QED  BY <1>2, <1>3, <1>4 DEF LocalAnswers

\* The CPU's port of System SRAM shows the packet.
LEMMA SramPort ==
  ASSUME Types
  PROVE  /\ (Ports["cpu"].valid <=> Selects("SRAM")) /\ Ports["dma"].we = FALSE
         /\ \A m \in Masters : Ports[m].we \in BOOLEAN /\ Ports[m].addr \in Addrs
                               /\ Ports[m].data \in Data
         /\ Selects("SRAM") => /\ Ports["cpu"].addr = pkt.addr[2]
                               /\ Ports["cpu"].we = (pkt.op = "store")
                               /\ pkt.op = "store" => Ports["cpu"].data = pkt.val
         /\ Ready("cpu", Ports) => Selects("SRAM")
<1>1. 0 \in Addrs /\ 0 \in Data /\ dma.addr \in Addrs
  BY FabricAssumption DEF Types, DmaType
<1>2. Selects("SRAM") => pkt.addr[2] \in Addrs
  BY Packet DEF Selects, DataReq, MemOp
<1>3. pkt.op = "store" => pkt.val \in Data
  BY Packet
<1>4. Ports["dma"] = [valid |-> dma.phase = "request", we |-> FALSE, addr |-> dma.addr,
                      data |-> 0]
  BY DEF Ports, Masters
<1>5. Ports["cpu"] = [valid |-> Selects("SRAM"), we |-> pkt.op = "store",
                      addr |-> IF Selects("SRAM") THEN pkt.addr[2] ELSE 0,
                      data |-> IF Selects("SRAM") /\ pkt.op = "store" THEN pkt.val ELSE 0]
  BY DEF Ports, Masters
<1>6. Ready("cpu", Ports) => Ports["cpu"].valid
  BY DEF Ready
<1>7. Ports["cpu"].we = (pkt.op = "store") /\ Ports["cpu"].we \in BOOLEAN
  BY <1>5
<1>8. Ports["cpu"].addr \in Addrs /\ Ports["cpu"].data \in Data
  BY <1>1, <1>2, <1>3, <1>5
<1>9. Ports["dma"].we = FALSE /\ Ports["dma"].addr \in Addrs /\ Ports["dma"].data \in Data
  BY <1>1, <1>4
<1>10. (Ports["cpu"].valid <=> Selects("SRAM"))
  BY <1>5
<1>11. Selects("SRAM") => Ports["cpu"].addr = pkt.addr[2]
                         /\ (pkt.op = "store" => Ports["cpu"].data = pkt.val)
  BY <1>5
<1>. QED  BY <1>6, <1>7, <1>8, <1>9, <1>10, <1>11 DEF Masters

\* Bank b takes the request of master m on this edge.
Admits(m, b) ==
  arb'[b] = [state |-> "REQUEST", owner |-> m, last |-> m, we |-> Ports[m].we,
             addr |-> Ports[m].addr, data |-> Ports[m].data]

\* The arbiter of a bank admits, accesses, answers, and is idle again.
LEMMA BankEdge ==
  ASSUME IInv, Clock, NEW b \in Banks
  PROVE  /\ sram'[b].valid <=> arb[b].state = "REQUEST"
         /\ arb[b].state = "REQUEST" =>
              arb'[b] = [arb[b] EXCEPT !.state = "RESPONSE"] /\ sram'[b].rdata = mem[arb[b].addr]
         /\ arb[b].state = "RESPONSE" => arb'[b] = [arb[b] EXCEPT !.state = "IDLE"]
         /\ arb[b].state = "IDLE" =>
              \/ arb'[b] = arb[b]
              \/ Admits("cpu", b) /\ Ready("cpu", Ports) /\ BankOf(pkt.addr[2]) = b
              \/ Admits("dma", b) /\ dma.phase = "request" /\ BankOf(dma.addr) = b
         /\ arb'[b] \in ArbType
<1>0. /\ Types /\ BankWorks(b) /\ arb[b] \in ArbType
  BY DEF IInv, Types
<1>1. /\ arb'[b] = ArbiterStep(b, Ports)
      /\ sram'[b].valid <=> arb[b].state = "REQUEST"
      /\ arb[b].state = "REQUEST" => sram'[b].rdata = mem[arb[b].addr]
  BY DEF Clock, FabricClock, Accessed
<1>2. ASSUME arb[b].state = "REQUEST"
      PROVE  arb'[b] = [arb[b] EXCEPT !.state = "RESPONSE"] /\ arb'[b] \in ArbType
  <2>1. arb'[b] = [arb[b] EXCEPT !.state = "RESPONSE"]
    BY <1>1, <1>2 DEF ArbiterStep
  <2>. QED  BY <1>0, <2>1 DEF ArbType
<1>3. ASSUME arb[b].state = "RESPONSE"
      PROVE  arb'[b] = [arb[b] EXCEPT !.state = "IDLE"] /\ arb'[b] \in ArbType
  <2>1. arb'[b] = [arb[b] EXCEPT !.state = "IDLE"]
    BY <1>0, <1>1, <1>3 DEF ArbiterStep, BankWorks
  <2>. QED  BY <1>0, <2>1 DEF ArbType
<1>4. ASSUME arb[b].state = "IDLE"
      PROVE  \/ arb'[b] = arb[b]
             \/ Admits("cpu", b) /\ Ready("cpu", Ports) /\ BankOf(pkt.addr[2]) = b
             \/ Admits("dma", b) /\ dma.phase = "request" /\ BankOf(dma.addr) = b
  <2>1. CASE ~Wants(Selected(b, Ports), b, Ports)
    BY <1>1, <1>4, <2>1 DEF ArbiterStep
  <2>2. CASE Wants(Selected(b, Ports), b, Ports) /\ Selected(b, Ports) = "cpu"
    <3>1. Selects("SRAM") /\ BankOf(pkt.addr[2]) = b /\ BankOf(Ports["cpu"].addr) = b
      BY <1>0, <2>2, SramPort DEF Wants
    <3>2. Ready("cpu", Ports)
      BY <1>0, <1>4, <2>2, <3>1, SramPort DEF Ready
    <3>3. Admits("cpu", b)
      BY <1>1, <1>4, <2>2 DEF ArbiterStep, Admits
    <3>. QED  BY <3>1, <3>2, <3>3
  <2>3. CASE Wants(Selected(b, Ports), b, Ports) /\ Selected(b, Ports) = "dma"
    <3>1. Admits("dma", b)
      BY <1>1, <1>4, <2>3 DEF ArbiterStep, Admits
    <3>2. dma.phase = "request" /\ BankOf(dma.addr) = b
      BY <2>3 DEF Wants, Ports, Masters
    <3>. QED  BY <3>1, <3>2
  <2>. QED  BY <2>1, <2>2, <2>3 DEF Selected
<1>5. \A m \in Masters : Admits(m, b) => arb'[b] \in ArbType
  BY <1>0, SramPort DEF Admits, ArbType
<1>6. arb[b].state \in {"IDLE", "REQUEST", "RESPONSE"}
  BY <1>0 DEF ArbType
<1>. QED  BY <1>0, <1>1, <1>2, <1>3, <1>4, <1>5, <1>6 DEF Masters

\* Nothing moves for the CPU while its bank has the access before it.
LEMMA InAccess ==
  ASSUME IInv, Clock, NEW b \in Banks, CpuIn(b), arb[b].state = "REQUEST"
  PROVE  /\ ~TargetResp /\ lsu.pending /\ pkt' = pkt /\ prog' = prog /\ Waiting("SRAM")'
         /\ ~Ready("cpu", Ports)
<1>1. Waiting("SRAM")
  BY DEF IInv, BankWorks
<1>2. ~TargetResp
  BY <1>1, TargetAnswer, SramAnswer DEF Waiting
<1>3. ~Ready("cpu", Ports)
  BY <1>1, SramPort, Phases DEF Waiting, IInv, Targets
<1>. QED  BY <1>1, <1>2, <1>3, WaitStep DEF Waiting

LEMMA BankStep ==
  ASSUME IInv, Clock, NEW b \in Banks
  PROVE  BankWorks(b)'
<1>0. Types /\ BankWorks(b) /\ arb[b] \in ArbType /\ pkt.op \in {"none", "load", "store"}
  BY Packet DEF IInv, Types
<1>1. /\ fab'.bank["cpu"] = IF Ready("cpu", Ports) THEN BankOf(Ports["cpu"].addr) ELSE fab.bank["cpu"]
      /\ fab'.cpuWe = IF Ready("cpu", Ports) THEN Ports["cpu"].we ELSE fab.cpuWe
  BY DEF Clock, FabricClock, AnswerBank, Masters
<1>2. (sram'[b].valid <=> arb'[b].state = "RESPONSE") /\ (arb'[b].owner = "dma" => ~arb'[b].we)
  <2>0. sram'[b].valid <=> arb[b].state = "REQUEST"
    BY BankEdge
  <2>1. CASE arb[b].state = "REQUEST"
    <3>1. arb'[b] = [arb[b] EXCEPT !.state = "RESPONSE"]
      BY <2>1, BankEdge
    <3>. QED  BY <1>0, <2>0, <2>1, <3>1 DEF BankWorks, ArbType
  <2>2. CASE arb[b].state = "RESPONSE"
    <3>1. arb'[b] = [arb[b] EXCEPT !.state = "IDLE"]
      BY <2>2, BankEdge
    <3>. QED  BY <1>0, <2>0, <2>2, <3>1 DEF BankWorks, ArbType
  <2>3. CASE arb[b].state = "IDLE"
    <3>1. arb'[b] = arb[b] \/ Admits("cpu", b) \/ Admits("dma", b)
      BY <2>3, BankEdge
    <3>2. Ports["dma"].we = FALSE
      BY <1>0, SramPort
    <3>. QED  BY <1>0, <2>0, <2>3, <3>1, <3>2 DEF BankWorks, ArbType, Admits
  <2>. QED  BY <1>0, <2>1, <2>2, <2>3 DEF ArbType
<1>3. ASSUME CpuIn(b)', arb[b].state = "IDLE"
      PROVE  /\ Waiting("SRAM")' /\ BankOf(pkt'.addr[2]) = b /\ fab'.bank["cpu"] = b
             /\ arb'[b].addr = pkt'.addr[2] /\ arb'[b].we = (pkt'.op = "store")
             /\ fab'.cpuWe = arb'[b].we /\ (arb'[b].we => arb'[b].data = pkt'.val)
             /\ arb'[b].state # "RESPONSE"
  <2>0. Ready("cpu", Ports) /\ BankOf(pkt.addr[2]) = b /\ Admits("cpu", b)
    <3>1. \/ arb'[b] = arb[b]
          \/ Admits("cpu", b) /\ Ready("cpu", Ports) /\ BankOf(pkt.addr[2]) = b
          \/ Admits("dma", b)
      BY <1>3, BankEdge
    <3>2. arb'[b] # arb[b] /\ arb'[b].owner = "cpu"
      BY <1>3 DEF CpuIn
    <3>3. ~Admits("dma", b)
      BY <3>2 DEF Admits
    <3>. QED  BY <3>1, <3>2, <3>3
  <2>2. Selects("SRAM")
    BY <1>0, <2>0, SramPort
  <2>1. /\ Ready("cpu", Ports) /\ BankOf(pkt.addr[2]) = b
        /\ arb'[b].state = "REQUEST" /\ arb'[b].addr = pkt.addr[2]
        /\ arb'[b].we = (pkt.op = "store") /\ (pkt.op = "store" => arb'[b].data = pkt.val)
    BY <1>0, <2>0, <2>2, SramPort DEF Admits
  <2>3. ~FastStore /\ ~Unmapped
    BY <2>2 DEF FastStore, MemWriteAccept, Unmapped, Selects
  <2>4. pkt' = pkt /\ Waiting("SRAM")'
    BY <2>2, <2>3, Selecting, WaitStep
  <2>5. fab'.bank["cpu"] = b /\ fab'.cpuWe = (pkt.op = "store")
    BY <1>0, <1>1, <2>1, <2>2, SramPort
  <2>. QED  BY <2>1, <2>4, <2>5
<1>4. ASSUME CpuIn(b)', arb[b].state = "REQUEST"
      PROVE  /\ Waiting("SRAM")' /\ BankOf(pkt'.addr[2]) = b /\ fab'.bank["cpu"] = b
             /\ arb'[b].addr = pkt'.addr[2] /\ arb'[b].we = (pkt'.op = "store")
             /\ fab'.cpuWe = arb'[b].we /\ (arb'[b].we => arb'[b].data = pkt'.val)
             /\ arb'[b].state = "RESPONSE"
             /\ IF pkt'.op = "store" THEN mem'[pkt'.addr[2]] = pkt'.val
                ELSE sram'[b].rdata = prog'[pkt'.addr]
  <2>0. arb'[b] = [arb[b] EXCEPT !.state = "RESPONSE"] /\ sram'[b].rdata = mem[arb[b].addr]
    BY <1>4, BankEdge
  <2>1. /\ arb'[b].state = "RESPONSE" /\ arb'[b].owner = arb[b].owner /\ arb'[b].we = arb[b].we
        /\ arb'[b].addr = arb[b].addr /\ arb'[b].data = arb[b].data
        /\ sram'[b].rdata = mem[arb[b].addr]
    BY <1>0, <2>0 DEF ArbType
  <2>2. CpuIn(b)
    BY <1>4, <2>1 DEF CpuIn
  <2>3. /\ Waiting("SRAM") /\ BankOf(pkt.addr[2]) = b /\ fab.bank["cpu"] = b
        /\ arb[b].addr = pkt.addr[2] /\ arb[b].we = (pkt.op = "store")
        /\ fab.cpuWe = arb[b].we /\ (arb[b].we => arb[b].data = pkt.val)
    BY <1>0, <2>2 DEF BankWorks
  <2>4. pkt' = pkt /\ prog' = prog /\ Waiting("SRAM")' /\ ~Ready("cpu", Ports)
    BY <1>4, <2>2, InAccess
  <2>5. pkt.op # "none" /\ pkt.addr \in Answering /\ pkt.addr[1] = "SRAM" /\ pkt.addr[2] \in Addrs
    BY <1>0, <2>3, Packet DEF Waiting, MemOp
  <2>6. pkt.op = "store" => mem'[pkt.addr[2]] = pkt.val
    BY <1>4, <2>3, <2>5 DEF Clock, FabricClock, Accessed
  <2>7. pkt.op # "store" => mem[pkt.addr[2]] = prog[pkt.addr]
    BY <2>5 DEF IInv, Memory, Stored
  <2>. QED  BY <1>1, <2>1, <2>3, <2>4, <2>6, <2>7
<1>5. ASSUME arb[b].state = "RESPONSE" PROVE ~CpuIn(b)'
  BY <1>0, <1>5, BankEdge DEF ArbType, CpuIn
<1>6. arb[b].state \in {"IDLE", "REQUEST", "RESPONSE"}
  BY <1>0 DEF ArbType
<1>. QED  BY <1>2, <1>3, <1>4, <1>5, <1>6 DEF BankWorks

LEMMA LoadStep ==
  ASSUME IInv, Clock
  PROVE  LoadKept'
<1>. SUFFICES ASSUME Loaded'
              PROVE  /\ Waiting("SRAM")' /\ pkt'.op = "load" /\ fab'.loadData = prog'[pkt'.addr]
                     /\ \A b \in Banks : ~CpuIn(b)'
  BY DEF LoadKept
<1>0. fab.bank["cpu"] \in Banks /\ pkt.op \in {"none", "load", "store"}
  BY Packet DEF IInv, Types, FabType, Masters
<1>1. ~LoadBypass /\ CpuRaw /\ ~fab.cpuWe /\ fab'.loadData = sram[fab.bank["cpu"]].rdata
  BY DEF Loaded, Clock, FabricClock
<1>2. CpuIn(fab.bank["cpu"]) /\ arb[fab.bank["cpu"]].state = "RESPONSE"
  BY <1>1 DEF CpuRaw, BankResponds, CpuIn
<1>3. Waiting("SRAM") /\ pkt.op = "load" /\ sram[fab.bank["cpu"]].rdata = prog[pkt.addr]
  <2>1. BankWorks(fab.bank["cpu"])
    BY <1>0 DEF IInv
  <2>. QED  BY <1>0, <1>1, <1>2, <2>1 DEF BankWorks, Waiting, MemOp
<1>4. ~TargetResp
  BY <1>1, <1>3, TargetAnswer, SramAnswer DEF Waiting
<1>5. pkt' = pkt /\ prog' = prog /\ Waiting("SRAM")'
  BY <1>3, <1>4, WaitStep DEF Waiting
<1>6. ASSUME NEW b \in Banks, CpuIn(b)' PROVE FALSE
  <2>0. arb[b] \in ArbType /\ Types
    BY DEF IInv, Types
  <2>1. ~Ready("cpu", Ports)
    BY <1>3, <2>0, SramPort, Phases DEF Waiting, Targets
  <2>2. CASE CpuIn(b)
    <3>1. b = fab.bank["cpu"]
      BY <2>2 DEF IInv, BankWorks
    <3>2. arb'[b] = [arb[b] EXCEPT !.state = "IDLE"]
      BY <1>2, <3>1, BankEdge
    <3>. QED  BY <1>6, <2>0, <3>2 DEF ArbType, CpuIn
  <2>3. CASE ~CpuIn(b)
    <3>1. CASE arb[b].state = "REQUEST"
      <4>1. arb'[b] = [arb[b] EXCEPT !.state = "RESPONSE"]
        BY <3>1, BankEdge
      <4>. QED  BY <1>6, <2>0, <2>3, <3>1, <4>1 DEF ArbType, CpuIn
    <3>2. CASE arb[b].state = "RESPONSE"
      <4>1. arb'[b] = [arb[b] EXCEPT !.state = "IDLE"]
        BY <3>2, BankEdge
      <4>. QED  BY <1>6, <2>0, <4>1 DEF ArbType, CpuIn
    <3>3. CASE arb[b].state = "IDLE"
      <4>1. arb'[b] = arb[b] \/ Admits("dma", b)
        BY <2>1, <3>3, BankEdge
      <4>. QED  BY <1>6, <3>3, <4>1 DEF Admits, CpuIn
    <3>. QED  BY <2>0, <3>1, <3>2, <3>3 DEF ArbType
  <2>. QED  BY <2>2, <2>3
<1>. QED  BY <1>1, <1>3, <1>5, <1>6

\* What an edge changes in the memories is the store in MEM.
LEMMA OnlyTheStore ==
  ASSUME IInv, Clock, NEW a \in Answering
  PROVE  \/ Stored(a)' = Stored(a)
         \/ pkt.op = "store" /\ pkt.addr = a /\ Stored(a)' = pkt.val
<1>0. /\ Types /\ a \in CpuAddrs /\ a \in CpuAddrs \cup SbaAddrs
      /\ a[1] \in {"DMEM", "SRAM", "APB", "CLINT"} /\ a[2] \in Addrs
  BY Addresses DEF IInv
<1>1. CASE a[1] = "SRAM"
  <2>. DEFINE b == BankOf(a[2])
  <2>1. b \in Banks
    BY <1>0, BankInBanks
  <2>2. mem'[a[2]] = IF Accessed(b) /\ arb[b].we /\ arb[b].addr = a[2] THEN arb[b].data
                     ELSE mem[a[2]]
    BY <1>0 DEF Clock, FabricClock
  <2>3. ASSUME Accessed(b), arb[b].we, arb[b].addr = a[2]
        PROVE  pkt.op = "store" /\ pkt.addr = a /\ arb[b].data = pkt.val
    <3>1. BankWorks(b) /\ arb[b].owner \in {"cpu", "dma"}
      BY <1>0, <2>1 DEF IInv, Types, ArbType, Masters
    <3>2. CpuIn(b)
      BY <2>3, <3>1 DEF BankWorks, CpuIn, Accessed
    <3>3. /\ Waiting("SRAM") /\ pkt.addr[2] = a[2] /\ pkt.op = "store" /\ arb[b].data = pkt.val
      BY <2>3, <3>1, <3>2 DEF BankWorks
    <3>4. pkt.addr \in CpuAddrs \cup SbaAddrs /\ pkt.addr[1] = "SRAM"
      BY <1>0, <3>3, Packet DEF Waiting, MemOp
    <3>. QED  BY <1>0, <1>1, <3>3, <3>4, Addresses
  <2>. QED  BY <1>1, <2>2, <2>3 DEF Stored
<1>2. CASE a[1] # "SRAM"
  <2>1. a \in Held /\ a \notin SbaStores
    BY <1>0, <1>2, Addresses
  <2>2. cells'[a] = IF ~StoredAt(a) THEN cells[a]
                    ELSE IF a[1] = "DMEM" THEN DtcmRequest.data
                    ELSE IF a[1] = "APB" THEN apb.data ELSE pkt.val
    BY <2>1 DEF Clock, CellsClock
  <2>3. ASSUME StoredAt(a), a[1] = "DMEM"
        PROVE  pkt.op = "store" /\ pkt.addr = a /\ DtcmRequest.data = pkt.val
    <3>1. DtcmRequest.owner # "NONE" /\ DtcmRequest.we /\ DtcmRequest.addr = a
      BY <2>3 DEF StoredAt
    <3>2. DtcmRequest.owner # "SBA"
      <4>. SUFFICES ASSUME DtcmRequest.owner = "SBA" PROVE FALSE
        OBVIOUS
      <4>1. SbaDmem /\ sba.addr = a /\ sba.we
        BY <1>0, <3>1, DtcmPort
      <4>. QED  BY <2>1, <4>1 DEF IInv, DebuggerApart, SbaDmem
    <3>3. DtcmRequest.owner = "CPU"
      BY <1>0, <3>1, <3>2, DtcmPort
    <3>. QED  BY <1>0, <3>1, <3>3, DtcmPort
  <2>4. ASSUME StoredAt(a), a[1] = "APB"
        PROVE  pkt.op = "store" /\ pkt.addr = a /\ apb.data = pkt.val
    <3>1. apb.state = "ACCESS" /\ apb.we /\ apb.addr = a
      BY <2>4 DEF StoredAt
    <3>. QED  BY <3>1 DEF IInv, BridgeWorks
  <2>5. StoredAt(a) /\ a[1] = "CLINT" => pkt.op = "store" /\ pkt.addr = a
    BY DEF StoredAt
  <2>. QED  BY <1>0, <1>2, <2>2, <2>3, <2>4, <2>5 DEF Stored
<1>. QED  BY <1>1, <1>2

\* A store that leaves MEM has been made.
LEMMA StoreMade ==
  ASSUME IInv, Clock, Advance, NEW a \in Answering,
         pkt.op = "store", pkt.addr = a
  PROVE  Stored(a)' = pkt.val
<1>0. /\ Types /\ MemOp /\ ~pkt.lmem /\ a \in CpuAddrs
      /\ a[1] \in {"DMEM", "SRAM", "APB", "CLINT"}
  BY Packet, Addresses DEF IInv, MemOp
<1>1. MemResponse
  BY <1>0 DEF Advance, MemWait
<1>2. CASE TargetResp
  BY <1>2, TargetAnswer, OnlyTheStore
<1>3. CASE ~TargetResp
  <2>1. FastStore
    BY <1>0, <1>1, <1>3, Phases DEF MemResponse, LmemResponse, DataResp, Unmapped, Selects
  <2>2. a \in Held /\ a[1] # "SRAM"
    BY <1>0, <2>1, Addresses DEF FastStore, MemWriteAccept, Selects
  <2>3. CASE MemWriteAccept
    <3>1. Selects("DMEM") /\ ~SbaDmem /\ a[1] = "DMEM"
      BY <2>3 DEF MemWriteAccept, Selects
    <3>2. /\ DtcmRequest.owner = "CPU" /\ DtcmRequest.addr = a
          /\ DtcmRequest.we /\ DtcmRequest.data = pkt.val
      BY <1>0, <3>1, DtcmPort
    <3>3. StoredAt(a)
      BY <3>1, <3>2 DEF StoredAt
    <3>. QED  BY <2>2, <3>1, <3>2, <3>3 DEF Clock, CellsClock, Stored
  <2>4. CASE Selects("CLINT")
    <3>1. StoredAt(a) /\ a[1] = "CLINT"
      BY <2>4 DEF StoredAt, Selects
    <3>. QED  BY <2>2, <3>1 DEF Clock, CellsClock, Stored
  <2>. QED  BY <2>1, <2>3, <2>4 DEF FastStore
<1>. QED  BY <1>2, <1>3

LEMMA MemoryStep ==
  ASSUME IInv, Clock
  PROVE  Memory'
<1>0. Types /\ Memory
  BY DEF IInv
<1>1. ASSUME NEW a \in Answering
      PROVE  Stored(a)' = prog'[a] \/ (pkt'.op = "store" /\ pkt'.addr = a)
  <2>1. CASE ~Advance
    <3>1. pkt' = pkt /\ prog' = prog
      BY <1>0, <2>1, PacketStep
    <3>. QED  BY <1>0, <3>1, OnlyTheStore DEF Memory
  <2>2. CASE Advance
    <3>1. prog'[a] = prog[a] \/ (pkt'.op = "store" /\ pkt'.addr = a)
      <4>1. CASE ex.op = "store" /\ ex.addr \in Answering
        <5>1. prog' = [prog EXCEPT ![ex.addr] = ex.val] /\ pkt'.op = "store" /\ pkt'.addr = ex.addr
          BY <1>0, <2>2, <4>1, PacketStep
        <5>. QED  BY <1>0, <5>1 DEF Types
      <4>2. CASE ~(ex.op = "store" /\ ex.addr \in Answering)
        <5>1. prog' = prog
          BY <1>0, <4>2, PacketStep
        <5>. QED  BY <5>1
      <4>. QED  BY <4>1, <4>2
    <3>2. Stored(a)' = prog[a]
      <4>1. CASE pkt.op = "store" /\ pkt.addr = a
        BY <1>0, <2>2, <4>1, StoreMade DEF Memory
      <4>2. CASE ~(pkt.op = "store" /\ pkt.addr = a)
        BY <1>0, <4>2, OnlyTheStore DEF Memory
      <4>. QED  BY <4>1, <4>2
    <3>. QED  BY <3>1, <3>2
  <2>. QED  BY <2>1, <2>2
<1>2. ASSUME pkt'.op = "store", pkt'.addr \in Answering
      PROVE  prog'[pkt'.addr] = pkt'.val
  <2>1. CASE ~Advance
    <3>1. pkt' = pkt /\ prog' = prog
      BY <1>0, <2>1, PacketStep
    <3>. QED  BY <1>0, <1>2, <3>1 DEF Memory
  <2>2. CASE Advance
    <3>1. ex.op = "store"
      BY <1>0, <1>2, <2>2, PacketStep
    <3>2. pkt'.addr = ex.addr /\ pkt'.val = ex.val /\ prog' = [prog EXCEPT ![ex.addr] = ex.val]
      BY <1>0, <1>2, <2>2, <3>1, PacketStep
    <3>. QED  BY <1>0, <1>2, <3>2 DEF Types
  <2>. QED  BY <2>1, <2>2
<1>3. Answering' = Answering
  OBVIOUS
<1>. QED  BY <1>1, <1>2, <1>3 DEF Memory

\* What the debugger may ask for.
LEMMA Dmi ==
  ASSUME Types, NEW dmi \in DmiOps
  PROVE  /\ dmi.op \in {"none", "clear", "address", "read", "write"}
         /\ dmi.op = "address" => dmi.addr \in SbaAddrs
         /\ dmi.op = "read" => MayAccess
         /\ dmi.op = "write" => MayAccess /\ sba.addr \in SbaStores /\ dmi.data \in SbaData
<1>1. work.sba \subseteq SbaAddrs /\ SbaStores \subseteq SbaAddrs
  BY WorkloadShape, Addresses DEF Types
<1>. HIDE DEF SbaAddrs
<1>. QED  BY <1>1 DEF DmiOps

LEMMA DebuggerStep ==
  ASSUME IInv, Clock
  PROVE  /\ DebuggerApart'
         /\ sba' \in [req : BOOLEAN, we : BOOLEAN, busy : BOOLEAN, err : 0 .. 2,
                      addr : SbaAddrs, data : Data]
<1>0. /\ Types /\ sba.addr \in SbaAddrs /\ sba.data \in Data /\ sba.err \in 0 .. 2
      /\ sba.we \in BOOLEAN /\ sba.busy \in BOOLEAN /\ dtcm.rdata \in Data /\ SbaData \subseteq Data
  BY DataPathAssumption DEF IInv, Types, TypeOK
<1>1. PICK dmi \in DmiOps : SbaClock(dmi)
  BY DEF Clock, DebugClock
<1>. DEFINE start == ~sba.busy /\ dmi.op \in {"read", "write"}
            done == SbaResp /\ sba.busy
            bad == sba.req /\ ~SbaDmem
<1>2. /\ sba'.req = start
      /\ sba'.we = IF start THEN dmi.op = "write" ELSE sba.we
      /\ sba'.addr = IF dmi.op = "address" THEN dmi.addr ELSE sba.addr
  BY <1>1 DEF SbaClock
<1>3. DebuggerApart'
  BY <1>0, <1>2, Dmi DEF DebuggerApart
<1>4. dmi.op = "write" => dmi.data \in Data
  BY <1>0, Dmi
<1>5. dmi.op = "address" => dmi.addr \in SbaAddrs
  BY <1>0, Dmi
<1>. HIDE DEF SbaAddrs
<1>. DEFINE we   == IF start THEN dmi.op = "write" ELSE sba.we
            busy == start \/ (sba.busy /\ ~done)
            addr == IF dmi.op = "address" THEN dmi.addr ELSE sba.addr
            err  == IF dmi.op = "clear" THEN 0
                    ELSE IF dmi.op = "write" /\ sba.busy THEN 1
                    ELSE IF done /\ bad THEN 2 ELSE sba.err
            data == IF dmi.op = "write" THEN dmi.data
                    ELSE IF done /\ ~bad /\ ~sba.we THEN dtcm.rdata ELSE sba.data
<1>6. sba' = [req |-> start, we |-> we, busy |-> busy, addr |-> addr, err |-> err,
              data |-> data]
  BY <1>1 DEF SbaClock
<1>7. start \in BOOLEAN /\ we \in BOOLEAN /\ busy \in BOOLEAN
  BY <1>0
<1>8. addr \in SbaAddrs
  BY <1>0, <1>5
<1>9. err \in 0 .. 2
  BY <1>0
<1>10. data \in Data
  BY <1>0, <1>4
<1>. HIDE DEF start, we, busy, addr, err, data
<1>11. sba' \in [req : BOOLEAN, we : BOOLEAN, busy : BOOLEAN, err : 0 .. 2,
                 addr : SbaAddrs, data : Data]
  BY <1>6, <1>7, <1>8, <1>9, <1>10
<1>. QED  BY <1>3, <1>11

-----------------------------------------------------------------------------
(* Types.                                                                  *)

LEMMA TypeStep ==
  ASSUME IInv, Clock
  PROVE  Types'
<1>0. Types /\ 0 \in Data /\ 0 \in Addrs /\ work' = work
  BY PacketStep, FabricAssumption DEF IInv
<1>1. ex' \in Instructions'
  <2>1. ex' \in Instructions
    <3>1. CASE Advance
      BY <3>1 DEF Clock, CoreClock
    <3>2. CASE ~Advance
      BY <1>0, <3>2, PacketStep DEF Types, TypeOK
    <3>. QED  BY <3>1, <3>2
  <2>2. Instructions' = Instructions
    BY <1>0 DEF Instructions
  <2>. QED  BY <2>1, <2>2
<1>2. md' \in [busy : 0 .. 64, done : BOOLEAN]
  <2>1. MdWait => ex.cycles \in 1 .. 64
    BY <1>0, Executing DEF MdWait
  <2>2. md.busy \in 0 .. 64
    BY <1>0 DEF Types, TypeOK
  <2>3. CASE md.busy = 0
    <3>1. md' = [busy |-> IF MdWait THEN ex.cycles ELSE 0, done |-> FALSE]
      BY <2>3 DEF Clock, CoreClock, MdStep
    <3>. QED  BY <2>1, <3>1
  <2>4. CASE md.busy # 0
    <3>1. md' = [busy |-> md.busy - 1, done |-> md.busy = 1]
      BY <2>4 DEF Clock, CoreClock, MdStep
    <3>. QED  BY <2>2, <2>4, <3>1
  <2>. QED  BY <2>3, <2>4
<1>3. lsu' \in [pending : BOOLEAN, hold : BOOLEAN, data : Data]
  <2>1. dtcm.rdata \in Data /\ lsu.data \in Data
    BY <1>0 DEF Types, TypeOK
  <2>. QED  BY <2>1 DEF Clock, CoreClock
<1>4. target' \in Targets \ {"NONE"}
  <2>1. DataReq /\ ~Unmapped => pkt.addr[1] \in Targets \ {"NONE"}
    BY <1>0, Packet DEF DataReq, MemOp, Unmapped, Selects
  <2>. QED  BY <1>0, <2>1 DEF Clock, InterconnectClock, Types, TypeOK
<1>5. cells' \in [Held -> Data]
  <2>1. ASSUME NEW a \in Held
        PROVE  (IF ~StoredAt(a) THEN cells[a]
                ELSE IF a[1] = "DMEM" THEN DtcmRequest.data
                ELSE IF a[1] = "APB" THEN apb.data ELSE pkt.val) \in Data
    <3>1. cells[a] \in Data /\ apb.data \in Data
      BY <1>0 DEF Types, TypeOK, ApbType
    <3>2. StoredAt(a) /\ a[1] = "DMEM" => DtcmRequest.data \in Data
      BY <1>0, DtcmPort DEF StoredAt
    <3>3. StoredAt(a) /\ a[1] # "DMEM" /\ a[1] # "APB" => pkt.val \in Data
      BY <1>0, Packet DEF StoredAt
    <3>. QED  BY <3>1, <3>2, <3>3
  <2>. QED  BY <2>1 DEF Clock, CellsClock
<1>6. dtcm' \in [owner : {"NONE", "SBA", "CPU", "LMEM"}, valid : BOOLEAN,
                 write : BOOLEAN, rdata : Data]
  <2>1. /\ dtcm.owner \in {"NONE", "SBA", "CPU", "LMEM"} /\ dtcm.rdata \in Data
        /\ DtcmRequest.owner \in {"NONE", "SBA", "CPU", "LMEM"}
        /\ DtcmRequest.owner # "NONE" => DtcmRequest.we \in BOOLEAN
    BY <1>0, DtcmPort DEF Types, TypeOK
  <2>2. DtcmRequest.owner # "NONE" => cells[DtcmRequest.addr] \in Data
    BY <1>0, DtcmPort DEF Types, TypeOK
  <2>. QED  BY <2>1, <2>2 DEF Clock, DtcmClock
<1>7. PacketShape'
  <2>1. CASE ~Advance
    <3>1. pkt' = pkt
      BY <1>0, <2>1, PacketStep
    <3>. QED  BY <1>0, <3>1 DEF Types, PacketShape
  <2>2. CASE Advance
    <3>1. LmemAccept \in BOOLEAN /\ (LmemAccept => ex.addr[1] = "DMEM")
      BY DEF LmemAccept
    <3>2. CASE ex.op = "load"
      BY <1>0, <2>2, <3>1, <3>2, PacketStep, Executing DEF PacketShape
    <3>3. CASE ex.op = "store"
      BY <1>0, <2>2, <3>3, PacketStep, Executing DEF PacketShape
    <3>4. CASE ex.op \notin {"load", "store"}
      BY <1>0, <2>2, <3>4, PacketStep DEF PacketShape
    <3>. QED  BY <3>2, <3>3, <3>4
  <2>. QED  BY <2>1, <2>2
<1>8. prog' \in [Answering -> Data]
  BY <1>0, PacketStep, Executing DEF Types
<1>9. dma' \in DmaType
  <2>1. DmaWords \subseteq Addrs /\ dma \in DmaType
    BY <1>0, DataPathAssumption DEF Types
  <2>2. \/ dma' = [phase |-> "idle", addr |-> 0] \/ dma' = dma
        \/ dma' = [dma EXCEPT !.phase = "wait"]
        \/ dma' \in [phase : {"request"}, addr : DmaWords]
    BY DEF Clock, DmaClock
  <2>. QED  BY <1>0, <2>1, <2>2 DEF DmaType
<1>10. arb' \in [Banks -> ArbType]
  <2>1. \A b \in Banks : arb'[b] \in ArbType
    BY BankEdge
  <2>2. arb' = [b \in Banks |-> ArbiterStep(b, Ports)]
    BY DEF Clock, FabricClock
  <2>. QED  BY <2>1, <2>2
<1>11. sram' \in [Banks -> [valid : BOOLEAN, rdata : Data]]
  <2>1. \A b \in Banks : mem[arb[b].addr] \in Data /\ sram[b].rdata \in Data
    BY <1>0 DEF Types, ArbType
  <2>. QED  BY <2>1 DEF Clock, FabricClock, Accessed
<1>12. mem' \in [Addrs -> Data]
  BY <1>0, BankInBanks DEF Clock, FabricClock, Types, ArbType
<1>13. fab' \in FabType
  <2>1. \A m \in Masters : AnswerBank(m, Ports) \in Banks
    BY <1>0, BankInBanks, SramPort DEF AnswerBank, Types, FabType
  <2>2. sram[fab.bank["cpu"]].rdata \in Data /\ Ports["cpu"].we \in BOOLEAN
    BY <1>0, SramPort DEF Types, FabType, Masters
  <2>3. (CpuRaw /\ ~fab.cpuWe) \in BOOLEAN
    OBVIOUS
  <2>. QED  BY <1>0, <2>1, <2>2, <2>3 DEF Clock, FabricClock, Types, FabType
<1>14. TypeOK'
  BY <1>1, <1>2, <1>3, <1>4, <1>5, <1>6, DebuggerStep DEF TypeOK
<1>. QED  BY <1>0, <1>7, <1>8, <1>9, <1>10, <1>11, <1>12, <1>13, <1>14, BridgeStep, ClintStep
          DEF Types

-----------------------------------------------------------------------------
(* The invariant holds.                                                    *)

LEMMA InitIInv == Init => IInv
<1>. SUFFICES ASSUME Init PROVE IInv
  OBVIOUS
<1>0. /\ 0 \in Data /\ 0 \in Addrs /\ 0 \in Banks /\ InitMem \in [Addrs -> Data]
      /\ <<"NONE", 0>> \in SbaAddrs /\ work \in Workloads
  BY FabricAssumption DEF Init, Banks, SbaAddrs
<1>1. arb \in [Banks -> ArbType] /\ fab \in FabType /\ mem \in [Addrs -> Data]
      /\ sram \in [Banks -> [valid : BOOLEAN, rdata : Data]]
  BY <1>0 DEF Init, FabricInit, ArbType, FabType, Masters
<1>2. TypeOK
  <2>1. ex \in Instructions
    BY DEF Init, Instructions
  <2>2. md \in [busy : 0 .. 64, done : BOOLEAN] /\ lsu \in [pending : BOOLEAN, hold : BOOLEAN, data : Data]
    BY <1>0 DEF Init
  <2>3. target \in Targets \ {"NONE"} /\ cells \in [Held -> Data]
    BY <1>0 DEF Init, Targets
  <2>4. dtcm \in [owner : {"NONE", "SBA", "CPU", "LMEM"}, valid : BOOLEAN,
                  write : BOOLEAN, rdata : Data]
    BY <1>0 DEF Init
  <2>5. sba \in [req : BOOLEAN, we : BOOLEAN, busy : BOOLEAN, err : 0 .. 2,
                 addr : SbaAddrs, data : Data]
    <3>. HIDE DEF SbaAddrs
    <3>. QED  BY <1>0 DEF Init
  <2>. QED  BY <2>1, <2>2, <2>3, <2>4, <2>5 DEF TypeOK
<1>3. PacketShape /\ apb \in ApbType /\ clint \in BOOLEAN /\ dma \in DmaType
  BY <1>0 DEF Init, PacketShape, NoPacket, ApbType, DmaType
<1>4. prog \in [Answering -> Data] /\ \A a \in Answering : Stored(a) = prog[a]
  <2>1. \A a \in Answering : a[2] \in Addrs /\ a[1] \in {"DMEM", "SRAM", "APB", "CLINT"}
                             /\ a \in CpuAddrs /\ (a[1] # "SRAM" => a \in Held)
    BY Addresses
  <2>. HIDE DEF Answering, CpuAddrs, Held
  <2>2. /\ prog = [a \in Answering |-> IF a[1] = "SRAM" THEN InitMem[a[2]] ELSE 0]
        /\ cells = [a \in Held |-> 0] /\ mem = InitMem
    BY DEF Init, FabricInit
  <2>. QED  BY <1>0, <2>1, <2>2 DEF Stored
<1>5. Waits /\ LocalAnswers /\ BridgeWorks /\ ClintWorks /\ LoadKept /\ DebuggerApart
  BY DEF Init, FabricInit, Waits, LocalAnswers, BridgeWorks, ClintWorks, LoadKept, Loaded,
         DebuggerApart, MemResp
<1>6. \A b \in Banks : BankWorks(b)
  BY DEF Init, FabricInit, BankWorks, CpuIn
<1>7. Memory
  BY <1>4 DEF Init, NoPacket, Memory
<1>. QED  BY <1>0, <1>1, <1>2, <1>3, <1>4, <1>5, <1>6, <1>7 DEF IInv, Types

LEMMA NextIInv == IInv /\ [Clock]_vars => IInv'
<1>. SUFFICES ASSUME IInv, [Clock]_vars PROVE IInv'
  OBVIOUS
<1>1. CASE Clock
  BY <1>1, TypeStep, WaitStep, LocalStep, BridgeStep, ClintStep, BankStep, LoadStep,
     MemoryStep, DebuggerStep DEF IInv
<1>2. CASE UNCHANGED vars
  <2>1. Types'
    BY <1>2 DEF vars, coreVars, fabricVars, IInv, Types, TypeOK, PacketShape, Instructions
  <2>2. Waits' /\ LocalAnswers' /\ BridgeWorks' /\ ClintWorks' /\ LoadKept' /\ DebuggerApart'
    BY <1>2 DEF vars, coreVars, fabricVars, IInv, Waits, LocalAnswers, BridgeWorks, ClintWorks,
                LoadKept, Loaded, DebuggerApart, MemResp, Waiting, MemOp, CpuIn
  <2>3. \A b \in Banks : BankWorks(b)'
    BY <1>2 DEF vars, coreVars, fabricVars, IInv, BankWorks, CpuIn, Waiting, MemOp
  <2>4. Memory'
    BY <1>2 DEF vars, coreVars, fabricVars, IInv, Memory, Stored
  <2>. QED  BY <2>1, <2>2, <2>3, <2>4 DEF IInv
<1>. QED  BY <1>1, <1>2

LEMMA Invariance == Spec => []IInv
BY InitIInv, NextIInv, PTL DEF Spec

\* Registers, packets, queues and memories keep their types: the core asks only
\* for addresses of the workload, and every answer is a word.
THEOREM TypeCorrect == Spec => []TypeOK
<1>1. IInv => TypeOK
  BY DEF IInv, Types
<1>. QED  BY <1>1, Invariance, PTL

\* Every load gets the value that the program stored last at its address,
\* whichever targets answer at whatever latency, and whatever debugger and DMA
\* channel do at the memories meanwhile.
THEOREM LoadsCorrect == Spec => []LoadsSeeProgram
BY LoadsAnswered, Invariance, PTL

-----------------------------------------------------------------------------
(* No request is lost, if the other masters keep away: the debugger starts *)
(* an access only while the program is not at the DTCM, and the DMA        *)
(* channel works in banks that the program does not use.                   *)

DmaApart ==
  \A w \in Workloads : \A a \in w.addrs, d \in DmaWords :
    w.dma /\ a[1] = "SRAM" => BankOf(a[2]) # BankOf(d)
Coordinated == ~SbaUncoordinated /\ DmaApart

\* The debugger has the DTCM's port only while no D-bus access of the packet
\* wants it, and makes one access at a time.
PortFree ==
  /\ sba.req => sba.busy
  /\ SbaDmem => ~(MemOp /\ ~pkt.lmem /\ pkt.addr[1] = "DMEM")

\* The DMA channel is in its own banks.
DmaIn(b) == arb[b].state # "IDLE" /\ arb[b].owner = "dma"
OwnBanks ==
  /\ dma.phase = "request" => work.dma /\ dma.addr \in DmaWords
  /\ \A b \in Banks : DmaIn(b) => work.dma /\ \E d \in DmaWords : BankOf(d) = b

\* What MEM waits for is on its way.
OnItsWay ==
  lsu.pending =>
    /\ pkt.addr[1] = "DMEM" => MemResp
    /\ pkt.addr[1] = "SRAM" => Loaded \/ \E b \in Banks : CpuIn(b)
    /\ pkt.addr[1] = "APB" => apb.state # "IDLE" \/ apb.valid
    /\ pkt.addr[1] = "CLINT" => clint

HInv == IInv /\ PortFree /\ OwnBanks /\ OnItsWay


LEMMA PortFreeStep ==
  ASSUME IInv, PortFree, ~SbaUncoordinated, Clock
  PROVE  PortFree'
<1>0. Types
  BY DEF IInv
<1>1. PICK dmi \in DmiOps : SbaClock(dmi)
  BY DEF Clock, DebugClock
<1>. DEFINE start == ~sba.busy /\ dmi.op \in {"read", "write"}
<1>2. /\ sba'.req = start
      /\ start => sba'.busy
      /\ sba'.addr = IF dmi.op = "address" THEN dmi.addr ELSE sba.addr
  BY <1>1 DEF SbaClock
<1>3. ASSUME SbaDmem', MemOp', ~pkt'.lmem, pkt'.addr[1] = "DMEM" PROVE FALSE
  <2>1. start /\ ~SbaDmem
    BY <1>2, <1>3 DEF SbaDmem, PortFree
  <2>2. DtcmQuiet
    BY <1>0, <2>1, Dmi DEF MayAccess
  <2>3. CASE ~Advance
    <3>1. pkt' = pkt
      BY <1>0, <2>3, PacketStep
    <3>. QED  BY <1>3, <2>2, <3>1 DEF DtcmQuiet, MemOp
  <2>4. CASE Advance /\ ex.op = "load"
    <3>1. pkt'.addr = ex.addr /\ pkt'.lmem = LmemAccept
      BY <1>0, <2>4, PacketStep
    <3>2. ~Selects("DMEM")
      BY <2>2 DEF DtcmQuiet, Selects, DataReq
    <3>. QED  BY <1>3, <2>1, <2>4, <3>1, <3>2 DEF LmemAccept
  <2>5. CASE Advance /\ ex.op = "store"
    <3>1. pkt'.addr = ex.addr
      BY <1>0, <2>5, PacketStep
    <3>. QED  BY <1>3, <2>2, <2>5, <3>1 DEF DtcmQuiet
  <2>6. CASE Advance /\ ex.op \notin {"load", "store"}
    BY <1>0, <1>3, <2>6, PacketStep DEF MemOp
  <2>. QED  BY <2>3, <2>4, <2>5, <2>6
<1>. QED  BY <1>2, <1>3 DEF PortFree

LEMMA OwnBanksStep ==
  ASSUME IInv, OwnBanks, Clock
  PROVE  OwnBanks'
<1>0. Types /\ work' = work /\ dma \in DmaType
  BY PacketStep DEF IInv, Types
<1>1. ASSUME dma'.phase = "request" PROVE work.dma /\ dma'.addr \in DmaWords
  <2>1. \/ dma' = [phase |-> "idle", addr |-> 0]
        \/ dma' = dma
        \/ dma' = [dma EXCEPT !.phase = "wait"]
        \/ dma' \in [phase : {"request"}, addr : IF work.dma THEN DmaWords ELSE {}]
    BY DEF Clock, DmaClock
  <2>. QED  BY <1>0, <1>1, <2>1 DEF OwnBanks, DmaType
<1>2. ASSUME NEW b \in Banks, DmaIn(b)' PROVE work.dma /\ \E d \in DmaWords : BankOf(d) = b
  <2>0. arb[b] \in ArbType
    BY <1>0 DEF Types
  <2>1. CASE arb[b].state = "IDLE"
    <3>1. \/ arb'[b] = arb[b] \/ Admits("cpu", b)
          \/ dma.phase = "request" /\ BankOf(dma.addr) = b
      BY <2>1, BankEdge
    <3>2. arb'[b] # arb[b] /\ ~Admits("cpu", b)
      BY <1>2, <2>1 DEF DmaIn, Admits
    <3>. QED  BY <3>1, <3>2 DEF OwnBanks
  <2>2. CASE arb[b].state = "REQUEST"
    <3>1. arb'[b] = [arb[b] EXCEPT !.state = "RESPONSE"]
      BY <2>2, BankEdge
    <3>. QED  BY <1>2, <2>0, <2>2, <3>1 DEF OwnBanks, DmaIn, ArbType
  <2>3. CASE arb[b].state = "RESPONSE"
    <3>1. arb'[b] = [arb[b] EXCEPT !.state = "IDLE"]
      BY <2>3, BankEdge
    <3>. QED  BY <1>2, <2>0, <3>1 DEF DmaIn, ArbType
  <2>. QED  BY <2>0, <2>1, <2>2, <2>3 DEF ArbType
<1>. QED  BY <1>0, <1>1, <1>2 DEF OwnBanks

\* The bank that the program addresses takes its request at once.
LEMMA BankFree ==
  ASSUME IInv, OwnBanks, DmaApart, Clock, Selects("SRAM")
  PROVE  \E b \in Banks : CpuIn(b)'
<1>. DEFINE b == BankOf(pkt.addr[2])
<1>0. /\ Types /\ pkt.addr \in work.addrs /\ pkt.addr[1] = "SRAM" /\ pkt.addr[2] \in Addrs
      /\ ~lsu.pending /\ work \in Workloads
  BY Selecting, Packet DEF IInv, Types, PacketShape, MemOp
<1>1. b \in Banks
  BY <1>0, BankInBanks
<1>2. \A d \in DmaWords : work.dma => BankOf(d) # b
  BY <1>0 DEF DmaApart
<1>3. arb[b].state = "IDLE"
  <2>1. ~CpuIn(b) /\ ~DmaIn(b)
    BY <1>0, <1>1, <1>2, NothingOut DEF OwnBanks
  <2>. QED  BY <1>0, <1>1, <2>1 DEF CpuIn, DmaIn, Types, ArbType, Masters
<1>4. Wants("cpu", b, Ports)
  BY <1>0, SramPort DEF Wants
<1>5. ~Wants("dma", b, Ports)
  <2>1. Ports["dma"].valid = (dma.phase = "request") /\ Ports["dma"].addr = dma.addr
    BY DEF Ports, Masters
  <2>. QED  BY <1>2, <2>1 DEF Wants, OwnBanks
<1>6. Selected(b, Ports) = "cpu"
  BY <1>5 DEF Selected
<1>7. arb'[b] = ArbiterStep(b, Ports)
  BY <1>1 DEF Clock, FabricClock
<1>. HIDE DEF b
<1>8. Admits("cpu", b)
  BY <1>3, <1>4, <1>6, <1>7 DEF ArbiterStep, Admits
<1>. QED  BY <1>1, <1>8 DEF CpuIn, Admits

LEMMA OnItsWayStep ==
  ASSUME IInv, PortFree, OwnBanks, OnItsWay, DmaApart, Clock
  PROVE  OnItsWay'
<1>. SUFFICES ASSUME lsu'.pending
              PROVE  /\ pkt.addr[1] = "DMEM" => MemResp'
                     /\ pkt.addr[1] = "SRAM" => Loaded' \/ \E b \in Banks : CpuIn(b)'
                     /\ pkt.addr[1] = "APB" => apb'.state # "IDLE" \/ apb'.valid
                     /\ pkt.addr[1] = "CLINT" => clint'
  BY WaitStep DEF OnItsWay
<1>0. Types /\ apb \in ApbType
  BY DEF IInv, Types
<1>1. CASE DataReq /\ ~FastStore /\ ~Unmapped
  <2>1. ~lsu.pending /\ MemOp /\ ~pkt.lmem
    BY <1>1 DEF DataReq
  <2>2. ASSUME pkt.addr[1] = "DMEM" PROVE MemResp'
    <3>1. Selects("DMEM") /\ ~SbaDmem
      BY <1>1, <2>1, <2>2 DEF Selects, PortFree
    <3>2. pkt.op # "store"
      BY <1>1, <3>1 DEF FastStore, MemWriteAccept
    <3>3. DtcmRequest.owner = "CPU" /\ ~DtcmRequest.we
      BY <1>0, <3>1, <3>2, DtcmPort
    <3>. QED  BY <3>3 DEF Clock, DtcmClock, MemResp
  <2>3. pkt.addr[1] = "SRAM" => \E b \in Banks : CpuIn(b)'
    BY <1>1, BankFree DEF Selects
  <2>4. ASSUME pkt.addr[1] = "APB" PROVE apb'.state # "IDLE"
    <3>1. apb.state = "IDLE" /\ Selects("APB")
      BY <1>1, <2>1, <2>4, NothingOut DEF Selects
    <3>. QED  BY <3>1 DEF Clock, ApbClock
  <2>5. ASSUME pkt.addr[1] = "CLINT" PROVE clint'
    <3>1. Selects("CLINT") /\ pkt.op = "load"
      BY <1>0, <1>1, <2>1, <2>5, Packet DEF Selects, FastStore, MemOp
    <3>. QED  BY <3>1 DEF Clock, ClintClock
  <2>. QED  BY <2>2, <2>3, <2>4, <2>5
<1>2. CASE lsu.pending /\ ~TargetResp
  <2>1. target = pkt.addr[1]
    BY <1>2 DEF IInv, Waits, Waiting
  <2>2. pkt.addr[1] # "DMEM" /\ pkt.addr[1] # "CLINT"
    BY <1>2, <2>1 DEF OnItsWay, TargetResp
  <2>3. ASSUME pkt.addr[1] = "APB" PROVE apb'.state # "IDLE" \/ apb'.valid
    <3>1. apb.state \in {"SETUP", "ACCESS"}
      BY <1>0, <1>2, <2>1, <2>3 DEF OnItsWay, TargetResp, ApbType
    <3>. QED  BY <1>0, <3>1 DEF Clock, ApbClock, ApbType
  <2>4. ASSUME pkt.addr[1] = "SRAM" PROVE Loaded' \/ \E b \in Banks : CpuIn(b)'
    <3>1. ~RespValid("cpu")
      BY <1>2, <2>1, <2>4 DEF TargetResp
    <3>2. ~Loaded
      BY <3>1 DEF RespValid, Loaded
    <3>3. PICK b \in Banks : CpuIn(b)
      BY <1>2, <2>4, <3>2 DEF OnItsWay
    <3>4. BankWorks(b) /\ fab.bank["cpu"] = b /\ arb[b] \in ArbType
      BY <1>0, <3>3 DEF IInv, BankWorks, Types
    <3>5. CASE arb[b].state = "REQUEST"
      <4>1. arb'[b] = [arb[b] EXCEPT !.state = "RESPONSE"]
        BY <3>5, BankEdge
      <4>. QED  BY <3>3, <3>4, <4>1 DEF CpuIn, ArbType
    <3>6. CASE arb[b].state = "RESPONSE"
      <4>1. CpuRaw
        BY <3>3, <3>4, <3>6 DEF CpuRaw, BankResponds, CpuIn, BankWorks
      <4>2. ~LoadBypass /\ ~fab.cpuWe
        BY <3>1, <4>1 DEF RespValid
      <4>. QED  BY <4>1, <4>2 DEF Clock, FabricClock, Loaded
    <3>. QED  BY <3>3, <3>4, <3>5, <3>6 DEF CpuIn, ArbType
  <2>. QED  BY <2>2, <2>3, <2>4
<1>. QED  BY <1>1, <1>2, WaitStep

LEMMA HInvariance == ASSUME Coordinated PROVE Spec => []HInv
<1>1. Init => HInv
  <2>. SUFFICES ASSUME Init PROVE PortFree /\ OwnBanks /\ OnItsWay
    BY InitIInv DEF HInv
  <2>. QED  BY DEF Init, FabricInit, PortFree, SbaDmem, OwnBanks, DmaIn, OnItsWay
<1>2. HInv /\ [Clock]_vars => HInv'
  <2>. SUFFICES ASSUME HInv, [Clock]_vars PROVE HInv'
    OBVIOUS
  <2>1. IInv'
    BY NextIInv DEF HInv
  <2>2. CASE Clock
    BY <2>1, <2>2, PortFreeStep, OwnBanksStep, OnItsWayStep DEF HInv, Coordinated
  <2>3. CASE UNCHANGED vars
    <3>1. PortFree' /\ OwnBanks'
      BY <2>3 DEF HInv, vars, coreVars, fabricVars, PortFree, SbaDmem, MemOp, OwnBanks, DmaIn
    <3>2. OnItsWay'
      BY <2>3 DEF HInv, vars, coreVars, fabricVars, OnItsWay, MemResp, Loaded, CpuIn
    <3>. QED  BY <2>1, <3>1, <3>2 DEF HInv
  <2>. QED  BY <2>2, <2>3
<1>. QED  BY <1>1, <1>2, PTL DEF Spec

\* While MEM waits, the request or its answer is somewhere between the D-bus and
\* the target, if debugger and DMA channel keep away.
THEOREM NoRequestLost ==
  ASSUME Coordinated
  PROVE  Spec => []PendingIsHeld
<1>1. HInv => PendingIsHeld
  <2>. SUFFICES ASSUME HInv, lsu.pending
                PROVE  \/ pkt.addr[1] = "DMEM" /\ dtcm.valid /\ dtcm.owner = "CPU"
                       \/ pkt.addr[1] = "SRAM" /\ \/ fab.loadValid
                                                  \/ \E b \in Banks : arb[b].state # "IDLE" /\ arb[b].owner = "cpu"
                       \/ pkt.addr[1] = "APB" /\ (apb.state # "IDLE" \/ apb.valid)
                       \/ pkt.addr[1] = "CLINT" /\ clint
    BY DEF PendingIsHeld
  <2>1. pkt.addr[1] \in {"DMEM", "SRAM", "APB", "CLINT"}
    <3>1. pkt.addr \in CpuAddrs /\ pkt.addr[1] # "NONE"
      BY Packet DEF HInv, IInv, Waits, Waiting, MemOp
    <3>. QED  BY <3>1, Addresses
  <2>. QED  BY <2>1 DEF HInv, OnItsWay, MemResp, Loaded, CpuIn
<1>. QED  BY <1>1, HInvariance, PTL

\* The APB bridge never has to queue: a request finds it idle.
THEOREM QueueUnused == Spec => []BridgeIdle
<1>1. IInv => BridgeIdle
  BY NothingOut DEF BridgeIdle, Selects, DataReq
<1>. QED  BY <1>1, Invariance, PTL

-----------------------------------------------------------------------------
(* The debugger.                                                           *)

\* An answer of the DTCM for the debugger is the word of its last request.
SbaAnswer ==
  /\ sba.req => sba.busy
  /\ dtcm.valid /\ dtcm.owner = "SBA" =>
       sba.busy /\ ~sba.req /\ (~sba.we => dtcm.rdata = asked)

\* The debugger reads what its word held when it asked: the answer of the shared
\* port that it takes is never one of the core's, coordinated or not.
THEOREM DebuggerReads == Spec => SbaReadsBack
<1>. DEFINE Reads ==
       /\ sba.busy /\ ~sba'.busy /\ ~sba.we
       /\ sba.req => SbaDmem
       /\ sba'.err # 1
       => sba'.data = asked'
<1>1. ASSUME NEW dmi \in DmiOps, SbaClock(dmi)
      PROVE  LET start == ~sba.busy /\ dmi.op \in {"read", "write"}
                 done == SbaResp /\ sba.busy
             IN  /\ sba'.req = start
                 /\ sba'.we = IF start THEN dmi.op = "write" ELSE sba.we
                 /\ sba'.busy = (start \/ (sba.busy /\ ~done))
                 /\ dmi.op = "write" /\ sba.busy => sba'.err = 1
                 /\ dmi.op # "write" /\ done /\ ~(sba.req /\ ~SbaDmem) /\ ~sba.we =>
                      sba'.data = dtcm.rdata
  BY <1>1 DEF SbaClock
<1>2. Init => SbaAnswer
  BY DEF Init, SbaAnswer
<1>3. ASSUME IInv, SbaAnswer, Clock PROVE SbaAnswer' /\ Reads
  <2>0. Types
    BY <1>3 DEF IInv
  <2>1. PICK dmi \in DmiOps : SbaClock(dmi)
    BY <1>3 DEF Clock, DebugClock
  <2>2. asked' = IF SbaDmem THEN cells[sba.addr] ELSE asked
    BY <1>3 DEF Clock, DebugClock
  <2>3. sba'.req => sba'.busy
    BY <1>1, <2>1
  <2>4. ASSUME dtcm'.valid, dtcm'.owner = "SBA"
        PROVE  sba'.busy /\ ~sba'.req /\ (~sba'.we => dtcm'.rdata = asked')
    <3>1. DtcmRequest.owner = "SBA" /\ dtcm'.rdata = cells[DtcmRequest.addr]
      BY <1>3, <2>4 DEF Clock, DtcmClock
    <3>2. SbaDmem /\ DtcmRequest.addr = sba.addr
      BY <2>0, <3>1, DtcmPort
    <3>3. sba.req /\ sba.busy /\ ~SbaResp
      BY <1>3, <3>2 DEF SbaDmem, SbaAnswer, SbaResp
    <3>. QED  BY <1>1, <2>1, <2>2, <3>1, <3>2, <3>3
  <2>5. Reads
    <3>. SUFFICES ASSUME sba.busy, ~sba'.busy, ~sba.we, sba.req => SbaDmem, sba'.err # 1
                  PROVE  sba'.data = asked'
      OBVIOUS
    <3>1. SbaResp /\ dmi.op # "write"
      BY <1>1, <2>1
    <3>2. dtcm.valid /\ dtcm.owner = "SBA"
      BY <3>1 DEF SbaResp
    <3>3. ~SbaDmem /\ dtcm.rdata = asked
      BY <1>3, <3>2 DEF SbaAnswer, SbaDmem
    <3>. QED  BY <1>1, <2>1, <2>2, <3>1, <3>3
  <2>. QED  BY <2>3, <2>4, <2>5 DEF SbaAnswer
<1>4. ASSUME SbaAnswer, UNCHANGED vars PROVE SbaAnswer'
  BY <1>4 DEF vars, SbaAnswer
<1>5. IInv /\ SbaAnswer /\ [Clock]_vars => SbaAnswer' /\ [Reads]_vars
  BY <1>3, <1>4
<1>6. SbaReadsBack <=> [][Reads]_vars
  BY PTL DEF SbaReadsBack
<1>. HIDE DEF Reads
<1>. QED  BY <1>2, <1>5, <1>6, Invariance, PTL DEF Spec

=============================================================================
