------------------------------ MODULE DataPath ------------------------------
(***************************************************************************)
(* The data side of the core and of the SoC: the EX/MEM boundary and the   *)
(* MEM stage (mem_stage.sv), the D-bus interconnect (dbus_interconnect.sv),*)
(* the arbiter of the local data SRAM (data_mem_arbiter.sv, data_mem.sv),  *)
(* the APB bridge (dbus_to_apb.sv), the CLINT's bus port, the System SRAM  *)
(* fabric with the DMA channel as its other master, and the debugger's     *)
(* System Bus Access (sba_dmi.sv).  A step is one clock edge of all of     *)
(* them.  The wires of a cycle are operators over the registers.           *)
(***************************************************************************)
EXTENDS SystemSramFabric

CONSTANTS
  Workloads,         \* what is active: the addresses that the program uses, and
                     \* the busy cycles of its multiplications and divisions,
                     \* the addresses that the debugger reads, and whether the
                     \* DMA channel is at work
  SbaStores,         \* the addresses that the debugger writes
  SbaData,           \* ... and the values that it writes there
  DmaWords,          \* the System SRAM words that the DMA channel reads
  SbaUncoordinated   \* may SBA start while the program uses the DTCM's D-bus port

VARIABLES
  ex,      \* the instruction in EX
  md,      \* the multiply/divide unit
  pkt,     \* the EX/MEM packet
  lsu,     \* mem_pending_q and the held local-memory response
  target,  \* response_target_q
  dtcm,    \* the owner and the response of the local data SRAM
  cells,   \* what the DTCM, the APB peripheral and the CLINT hold
  apb,     \* the bridge
  clint,   \* resp_valid of the CLINT
  sba,     \* the System Bus Access registers
  dma,     \* the DMA channel's memory port
  prog,    \* history: prog[a], the last value that the program stored to a
  work,    \* the workload, chosen at the start
  issued,  \* history: the D-bus requests made for the packet in MEM, up to 2
  asked    \* history: the word that the debugger's last request was made for

coreVars == <<ex, md, pkt, lsu>>
vars == <<fabricVars, coreVars, target, dtcm, cells, apb, clint, sba, dma,
          prog, work, issued, asked>>

\* An address is its target and a word of it: the decoder of soc_pkg.sv.
Targets == {"IMEM", "DMEM", "SRAM", "APB", "CLINT", "NONE"}
CpuAddrs == UNION {w.addrs : w \in Workloads}
SbaAddrs == {<<"NONE", 0>>} \cup SbaStores \cup UNION {w.sba : w \in Workloads}
Held == {a \in CpuAddrs \cup SbaAddrs : a[1] \in {"DMEM", "APB", "CLINT"}}
Answering == {a \in CpuAddrs : a[1] # "NONE"}

ASSUME DataPathAssumption ==
  /\ Workloads \subseteq [addrs : SUBSET CpuAddrs, cycles : SUBSET (1 .. 64),
                           sba : SUBSET SbaAddrs, dma : BOOLEAN]
  /\ CpuAddrs \cup SbaAddrs \subseteq (Targets \ {"IMEM"}) \X Addrs
  /\ \A a \in SbaStores : a \notin CpuAddrs
  /\ DmaWords \subseteq Addrs
  /\ SbaData \subseteq Data /\ SbaUncoordinated \in BOOLEAN

Bubble == [op |-> "none"]
Instructions ==
  {Bubble} \cup [op : {"load"}, addr : work.addrs] \cup
  [op : {"store"}, addr : work.addrs, val : Data] \cup [op : {"md"}, cycles : work.cycles]

NoPacket == [op |-> "none", lmem |-> FALSE]

-----------------------------------------------------------------------------
(* Requests of this cycle.                                                 *)

SbaDmem == sba.req /\ sba.addr[1] = "DMEM"
MemOp   == pkt.op # "none"

DataReq == MemOp /\ ~pkt.lmem /\ ~lsu.pending
Selects(t) == DataReq /\ pkt.addr[1] = t

Unmapped == Selects("NONE")
MemWriteAccept == Selects("DMEM") /\ pkt.op = "store" /\ ~SbaDmem
FastStore == MemWriteAccept \/ (Selects("CLINT") /\ pkt.op = "store")

\* The ports of System SRAM.  The CPU's ready comes back to nobody.
Ports ==
  [m \in Masters |->
     IF m = "dma"
     THEN [valid |-> dma.phase = "request", we |-> FALSE, addr |-> dma.addr, data |-> 0]
     ELSE [valid |-> Selects("SRAM"), we |-> pkt.op = "store",
           addr |-> IF Selects("SRAM") THEN pkt.addr[2] ELSE 0,
           data |-> IF Selects("SRAM") /\ pkt.op = "store" THEN pkt.val ELSE 0]]

-----------------------------------------------------------------------------
(* Responses of this cycle.                                                *)

\* (Slips: the delayed answer of a store is not consumed; any answer of the
\* shared port is taken for the debugger's.)
MemRespOfAny == dtcm.valid /\ dtcm.owner = "CPU"
MemResp  == dtcm.valid /\ dtcm.owner = "CPU" /\ ~dtcm.write
LmemResp == dtcm.valid /\ dtcm.owner = "LMEM" /\ ~dtcm.write
SbaResp  == (dtcm.valid /\ dtcm.owner = "SBA") \/ (sba.req /\ ~SbaDmem)

TargetResp ==
  \/ target = "DMEM" /\ MemResp
  \/ target = "SRAM" /\ RespValid("cpu")
  \/ target = "APB" /\ apb.valid
  \/ target = "CLINT" /\ clint

DataResp == FastStore \/ Unmapped \/ TargetResp

DataRead ==
  IF FastStore \/ Unmapped THEN 0
  ELSE IF target = "DMEM" THEN dtcm.rdata
  ELSE IF target = "SRAM" THEN RespData("cpu")
  ELSE IF target = "APB" THEN apb.data
  ELSE IF target = "CLINT" /\ MemOp /\ pkt.addr \in Held THEN cells[pkt.addr]
  ELSE 0

\* (A slip: the answer is not kept while a younger instruction holds EX.)
LmemResponseNow == pkt.lmem /\ LmemResp
LmemResponse == pkt.lmem /\ (LmemResp \/ lsu.hold)
MemResponse  == LmemResponse \/ (DataResp /\ (lsu.pending \/ DataReq))
ResponseData ==
  IF LmemResponse THEN IF LmemResp THEN dtcm.rdata ELSE lsu.data ELSE DataRead

-----------------------------------------------------------------------------
(* The core.                                                               *)

MemWait == MemOp /\ ~MemResponse
MdWait  == ex.op = "md" /\ ~md.done
Advance == ~MemWait /\ ~MdWait      \* backend_advance: no full stall

\* The EX stage asks for a load's word early; only the DTCM's free port takes it.
LmemAccept ==
  /\ Advance /\ ex.op = "load" /\ ex.addr[1] = "DMEM"
  /\ ~SbaDmem /\ ~Selects("DMEM")

NextPacket ==
  IF ex.op = "load" THEN [op |-> "load", addr |-> ex.addr, lmem |-> LmemAccept]
  ELSE IF ex.op = "store"
  THEN [op |-> "store", addr |-> ex.addr, val |-> ex.val, lmem |-> FALSE]
  ELSE NoPacket

\* done_o is a pulse of one cycle: an instruction that cannot leave EX then
\* starts the unit again.
MdStep ==
  IF md.busy = 0
  THEN [busy |-> IF MdWait THEN ex.cycles ELSE 0, done |-> FALSE]
  ELSE [busy |-> md.busy - 1, done |-> md.busy = 1]

CoreClock ==
  /\ IF Advance THEN pkt' = NextPacket /\ ex' \in Instructions
                ELSE UNCHANGED <<pkt, ex>>
  /\ md' = MdStep
  /\ lsu' = LET keep == ~Advance /\ pkt.lmem /\ LmemResp
            IN  [hold |-> ~Advance /\ (keep \/ lsu.hold),
                 data |-> IF keep THEN dtcm.rdata ELSE lsu.data,
                 pending |-> (DataReq /\ ~DataResp) \/ (lsu.pending /\ ~MemResponse)]
  /\ prog' = IF Advance /\ ex.op = "store" /\ ex.addr \in Answering
             THEN [prog EXCEPT ![ex.addr] = ex.val] ELSE prog
  /\ work' = work
  /\ issued' = IF Advance THEN 0
               ELSE IF DataReq /\ issued < 2 THEN issued + 1 ELSE issued

-----------------------------------------------------------------------------
(* The interconnect and its targets.                                       *)

InterconnectClock ==
  target' = IF DataReq /\ ~FastStore /\ ~Unmapped THEN pkt.addr[1] ELSE target

\* The request that the DTCM's port takes: SBA, then the D-bus, then EX.
DtcmRequest ==
  IF SbaDmem THEN [owner |-> "SBA", addr |-> sba.addr, we |-> sba.we, data |-> sba.data]
  ELSE IF Selects("DMEM")
  THEN [owner |-> "CPU", addr |-> pkt.addr, we |-> pkt.op = "store",
        data |-> IF pkt.op = "store" THEN pkt.val ELSE 0]
  ELSE IF LmemAccept THEN [owner |-> "LMEM", addr |-> ex.addr, we |-> FALSE, data |-> 0]
  ELSE [owner |-> "NONE"]

DtcmClock ==
  LET r == DtcmRequest
      taken == r.owner # "NONE"
  IN  dtcm' = [owner |-> IF taken THEN r.owner
                         ELSE IF dtcm.valid THEN "NONE" ELSE dtcm.owner,
               valid |-> taken,
               write |-> taken /\ r.we,
               rdata |-> IF taken THEN cells[r.addr] ELSE dtcm.rdata]

\* (A slip: a posted write, which is not answered.)
ApbClockPosted ==
  apb' = IF apb.state = "IDLE"
         THEN IF Selects("APB")
              THEN [state |-> "SETUP", valid |-> FALSE, we |-> pkt.op = "store",
                    data |-> IF pkt.op = "store" THEN pkt.val ELSE 0,
                    addr |-> pkt.addr]
              ELSE [apb EXCEPT !.valid = FALSE]
         ELSE IF apb.state = "SETUP" THEN [apb EXCEPT !.state = "ACCESS"]
         ELSE [apb EXCEPT !.state = "IDLE", !.valid = ~apb.we,
                          !.data = IF apb.we THEN 0 ELSE cells[apb.addr]]

\* The bridge; every APB slave of the SoC is ready in the access phase.
ApbClock ==
  apb' = IF apb.state = "IDLE"
         THEN IF Selects("APB")
              THEN [state |-> "SETUP", valid |-> FALSE, we |-> pkt.op = "store",
                    data |-> IF pkt.op = "store" THEN pkt.val ELSE 0,
                    addr |-> pkt.addr]
              ELSE [apb EXCEPT !.valid = FALSE]
         ELSE IF apb.state = "SETUP" THEN [apb EXCEPT !.state = "ACCESS"]
         ELSE [apb EXCEPT !.state = "IDLE", !.valid = TRUE,
                          !.data = IF apb.we THEN 0 ELSE cells[apb.addr]]

ClintClock == clint' = (Selects("CLINT") /\ pkt.op = "load")

\* Every store reaches its target on this edge or not at all.
StoredAt(a) ==
  \/ a[1] = "DMEM" /\ DtcmRequest.owner # "NONE" /\ DtcmRequest.we /\ DtcmRequest.addr = a
  \/ a[1] = "APB" /\ apb.state = "ACCESS" /\ apb.we /\ apb.addr = a
  \/ a[1] = "CLINT" /\ Selects("CLINT") /\ pkt.op = "store" /\ pkt.addr = a

CellsClock ==
  cells' = [a \in Held |->
    IF ~StoredAt(a) THEN cells[a]
    ELSE IF a[1] = "DMEM" THEN DtcmRequest.data
    ELSE IF a[1] = "APB" THEN apb.data ELSE pkt.val]

-----------------------------------------------------------------------------
(* The other masters.                                                      *)

\* The DMA channel keeps the valid/ready protocol.
DmaClock ==
  LET idle == [phase |-> "idle", addr |-> 0]
  IN  dma' \in
        IF dma.phase = "idle" \/ (dma.phase = "wait" /\ RespValid("dma"))
        THEN {idle} \cup [phase : {"request"}, addr : IF work.dma THEN DmaWords ELSE {}]
        ELSE IF dma.phase = "request" /\ Ready("dma", Ports)
        THEN {[dma EXCEPT !.phase = "wait"]}
        ELSE {dma}

\* A debugger that coordinates with the program starts an access only when no
\* D-bus access of the program is at the DTCM, nor about to be.
DtcmQuiet ==
  /\ ~(MemOp /\ ~pkt.lmem /\ pkt.addr[1] = "DMEM")
  /\ ~(ex.op = "store" /\ ex.addr[1] = "DMEM")
MayAccess == SbaUncoordinated \/ DtcmQuiet

DmiOps ==
  IF work.sba = {} THEN [op : {"none"}] ELSE
  [op : {"none", "clear"}] \cup
  [op : {"address"}, addr : work.sba \cup SbaStores] \cup
  (IF MayAccess THEN [op : {"read"}] ELSE {}) \cup
  (IF MayAccess /\ sba.addr \in SbaStores THEN [op : {"write"}, data : SbaData] ELSE {})

\* The response first, then the DMI operation; 32-bit accesses only.
SbaClock(dmi) ==
  LET done  == SbaResp /\ sba.busy
      bad   == sba.req /\ ~SbaDmem
      start == ~sba.busy /\ dmi.op \in {"read", "write"}
  IN  sba' = [req  |-> start,
              we   |-> IF start THEN dmi.op = "write" ELSE sba.we,
              busy |-> start \/ (sba.busy /\ ~done),
              addr |-> IF dmi.op = "address" THEN dmi.addr ELSE sba.addr,
              err  |-> IF dmi.op = "clear" THEN 0
                       ELSE IF dmi.op = "write" /\ sba.busy THEN 1
                       ELSE IF done /\ bad THEN 2 ELSE sba.err,
              data |-> IF dmi.op = "write" THEN dmi.data
                       ELSE IF done /\ ~bad /\ ~sba.we THEN dtcm.rdata ELSE sba.data]

DebugClock ==
  /\ \E dmi \in DmiOps : SbaClock(dmi)
  /\ asked' = IF SbaDmem THEN cells[sba.addr] ELSE asked

-----------------------------------------------------------------------------

Init ==
  /\ FabricInit
  /\ ex = Bubble /\ md = [busy |-> 0, done |-> FALSE] /\ pkt = NoPacket
  /\ lsu = [pending |-> FALSE, hold |-> FALSE, data |-> 0]
  /\ target = "IMEM"
  /\ dtcm = [owner |-> "NONE", valid |-> FALSE, write |-> FALSE, rdata |-> 0]
  /\ cells = [a \in Held |-> 0]
  /\ apb = [state |-> "IDLE", valid |-> FALSE, we |-> FALSE, data |-> 0,
            addr |-> <<"APB", 0>>]
  /\ clint = FALSE
  /\ sba = [req |-> FALSE, we |-> FALSE, busy |-> FALSE, addr |-> <<"NONE", 0>>,
            err |-> 0, data |-> 0]
  /\ dma = [phase |-> "idle", addr |-> 0]
  /\ prog = [a \in Answering |-> IF a[1] = "SRAM" THEN InitMem[a[2]] ELSE 0]
  /\ work \in Workloads
  /\ issued = 0 /\ asked = 0

Clock ==
  /\ CoreClock /\ InterconnectClock
  /\ DtcmClock /\ ApbClock /\ ClintClock /\ CellsClock
  /\ FabricClock(Ports) /\ DmaClock /\ DebugClock

\* The only fairness is that the clock runs.
Spec == Init /\ [][Clock]_vars /\ WF_vars(Clock)

-----------------------------------------------------------------------------
(* Safety.                                                                 *)

TypeOK ==
  /\ ex \in Instructions
  /\ md \in [busy : 0 .. 64, done : BOOLEAN]
  /\ lsu \in [pending : BOOLEAN, hold : BOOLEAN, data : Data]
  /\ target \in Targets \ {"NONE"}
  /\ dtcm \in [owner : {"NONE", "SBA", "CPU", "LMEM"}, valid : BOOLEAN,
               write : BOOLEAN, rdata : Data]
  /\ cells \in [Held -> Data]
  /\ sba \in [req : BOOLEAN, we : BOOLEAN, busy : BOOLEAN, err : 0 .. 2,
              addr : SbaAddrs, data : Data]

\* Whatever target answers, at whatever latency, and however long a younger
\* multiply holds the packet in MEM: a load gets the value that the program
\* stored last at its address.  No answer is a store's, an older load's, the
\* debugger's or the DMA channel's.
LoadsSeeProgram ==
  MemResponse /\ pkt.op = "load" /\ pkt.addr \in Answering =>
    ResponseData = prog[pkt.addr]

\* While the MEM stage waits, some component holds its request or its answer:
\* no request is lost between the pulse on the D-bus and its target.
PendingIsHeld ==
  lsu.pending =>
    \/ pkt.addr[1] = "DMEM" /\ dtcm.valid /\ dtcm.owner = "CPU"
    \/ pkt.addr[1] = "SRAM" /\ \/ fab.loadValid
                               \/ \E b \in Banks : arb[b].state # "IDLE" /\ arb[b].owner = "cpu"
    \/ pkt.addr[1] = "APB" /\ (apb.state # "IDLE" \/ apb.valid)
    \/ pkt.addr[1] = "CLINT" /\ clint

\* "A request is issued once per EX/MEM packet."
IssuedOnce == DataReq => issued = 0

\* The APB bridge gets a request only when it is idle: its queue stays empty.
BridgeIdle == Selects("APB") => apb.state = "IDLE"

-----------------------------------------------------------------------------
(* Actions and liveness.                                                   *)

\* The debugger reads what its word held when it asked: the answer of the
\* shared port is never one of the core's.  (A request outside the DTCM is
\* refused at once; a write to sbdata on the edge of the answer shows as
\* sberror 1.)
SbaReadsBack ==
  [][ /\ sba.busy /\ ~sba'.busy /\ ~sba.we
      /\ sba.req => SbaDmem
      /\ sba'.err # 1
      => sba'.data = asked' ]_vars

\* The backend never stops for good: every access is answered and every packet
\* leaves MEM, even when the multiplier's pulse and the answer must coincide.
BackendAdvances == []<>Advance

=============================================================================
