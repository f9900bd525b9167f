--------------------------- MODULE DmaController ---------------------------
(***************************************************************************)
(* The generic System SRAM DMA channel, dma_controller.sv.                 *)
(*                                                                         *)
(* Every action is one rising clock edge.  The inputs of the edge are its  *)
(* parameters: `cfg`, the register write that the CPU presents in that     *)
(* cycle (NoCfg when there is none), and, in the actions that need them,   *)
(* the memory port's ready and response and the UART's ready.  A register  *)
(* write that arrives while the channel is busy and the step of the state  *)
(* machine happen on the same edge, the state machine's assignments last.  *)
(***************************************************************************)
EXTENDS Naturals

CONSTANTS
  WordMod,         \* 2^32: registers and addresses are 0..WordMod-1
  SramBase,        \* first byte address of System SRAM
  SramSize,        \* its size in bytes
  UartBase,        \* UART0's address, the only UART-TX destination
  MaxDescriptors   \* DMA_MAX_DESCRIPTOR_COUNT

ASSUME DmaAssumption ==
  /\ WordMod \in Nat /\ SramBase \in Nat /\ SramSize \in Nat
  /\ WordMod > 64 /\ SramSize > 0 /\ SramBase + SramSize <= WordMod
  /\ UartBase \in 0 .. WordMod - 1
  /\ MaxDescriptors \in Nat

VARIABLES
  state,   \* state_q
  ctl,     \* control flags of the state machine
  xfer,    \* the working source, destination, length and byte count
  desc,    \* the descriptor being processed
  csr      \* what software sees in CTRL and STATUS, and the reply to a write

dmaVars == <<state, ctl, xfer, desc, csr>>

Word == 0 .. WordMod - 1

RequestStates == {"FETCH_REQ", "READ_REQ", "WRITE_REQ",
                  "WB_CTRL_REQ", "WB_STATUS_REQ", "WB_BYTES_REQ"}
WaitStates    == {"FETCH_WAIT", "READ_WAIT", "WRITE_WAIT", "WB_CTRL_WAIT",
                  "WB_STATUS_WAIT", "WB_BYTES_WAIT", "ABORT_WAIT"}
DmaStates     == {"IDLE", "UART_TX_REQ"} \cup RequestStates \cup WaitStates

-----------------------------------------------------------------------------
(* Arithmetic and checks.                                                  *)

Add(x, k) == IF x + k < WordMod THEN x + k ELSE x + k - WordMod
Sub(x, k) == IF k <= x THEN x - k ELSE WordMod + x - k

RangeAllowed(addr, length) ==
  /\ length # 0
  /\ length <= SramSize
  /\ addr >= SramBase
  /\ addr < SramBase + SramSize
  /\ addr - SramBase <= SramSize - length

DescriptorAddr(a) == a % 32 = 0 /\ RangeAllowed(a, 32)

\* The bits of a descriptor's control word.
Own(c)    == c % 2 = 1
IrqEn(c)  == (c \div 2) % 2 = 1
End(c)    == (c \div 4) % 2 = 1
SrcInc(c) == (c \div 8) % 2 = 1
DstInc(c) == (c \div 16) % 2 = 1

StatusDone  == 1
StatusError == 2

DescriptorValid(d) ==
  /\ DescriptorAddr(d.addr)
  /\ Own(d.ctrl) /\ SrcInc(d.ctrl) /\ DstInc(d.ctrl)
  /\ d.src % 4 = 0 /\ d.dst % 4 = 0 /\ d.len % 4 = 0
  /\ RangeAllowed(d.src, d.len)
  /\ RangeAllowed(d.dst, d.len)
  /\ d.next # 0 => DescriptorAddr(d.next)
  /\ (d.next = 0) <=> End(d.ctrl)

DirectStartAllowed(uart) ==
  /\ xfer.len # 0
  /\ xfer.src % 4 = 0
  /\ RangeAllowed(xfer.src, xfer.len)
  /\ IF uart THEN xfer.dst = UartBase
             ELSE /\ xfer.dst % 4 = 0
                  /\ xfer.len % 4 = 0
                  /\ RangeAllowed(xfer.dst, xfer.len)

-----------------------------------------------------------------------------
(* Register writes.                                                        *)

CtrlWrites   == [reg : {"CTRL"}, irqEn : BOOLEAN, uart : BOOLEAN,
                 abort : BOOLEAN, descStart : BOOLEAN, start : BOOLEAN]
StatusWrites == [reg : {"STATUS"}, done : BOOLEAN, error : BOOLEAN,
                 descIrq : BOOLEAN]
ParamWrites  == [reg : {"SRC", "DST", "LEN", "DESC_HEAD"}, value : Word]
NoCfg        == [reg |-> "none"]
CfgWrites    == CtrlWrites \cup StatusWrites \cup ParamWrites \cup {NoCfg}

\* A write is taken only when no reply to the previous one is on the bus.
CfgAccepted(cfg) == cfg.reg # "none" => csr.resp = "none"

AbortRequest(cfg) == cfg.reg = "CTRL" /\ cfg.abort

\* abort_pending_q || abort_request, as every busy state tests it.
Aborting(cfg) == ctl.abort \/ AbortRequest(cfg)

\* CTRL, STATUS and the reply after the edge.  While a transfer runs, its
\* parameters are refused with an error reply, and an abort drops DONE and
\* raises ERROR at once.
CsrAfterCtrl(cfg) ==
  LET aborted == cfg.abort /\ state # "IDLE"
  IN  [csr EXCEPT !.resp = "ok", !.irqEn = cfg.irqEn, !.uart = cfg.uart,
                  !.done = csr.done /\ ~aborted, !.error = csr.error \/ aborted]

CsrAfterStatus(cfg) ==
  [csr EXCEPT !.resp    = "ok",
              !.done    = csr.done /\ ~cfg.done,
              !.error   = csr.error /\ ~cfg.error,
              !.descIrq = csr.descIrq /\ ~cfg.descIrq]

CsrAfter(cfg) ==
  IF cfg.reg = "CTRL" THEN CsrAfterCtrl(cfg)
  ELSE IF cfg.reg = "STATUS" THEN CsrAfterStatus(cfg)
  ELSE [csr EXCEPT !.resp = IF cfg.reg = "none" THEN "none"
                            ELSE IF state = "IDLE" THEN "ok" ELSE "err"]

\* csr after a write that starts the channel: the old outcome is dropped.
CsrAtStart(cfg, refused) ==
  [resp |-> "ok", irqEn |-> cfg.irqEn, uart |-> cfg.uart,
   done |-> FALSE, error |-> refused, descIrq |-> FALSE]

DmaInit ==
  /\ state = "IDLE"
  /\ ctl  = [abort |-> FALSE, inflight |-> FALSE, active |-> FALSE,
             derr |-> FALSE]
  /\ xfer = [src |-> 0, dst |-> 0, len |-> 0, bytes |-> 0, data |-> 0, byte |-> 0]
  /\ desc = [head |-> 0, addr |-> 0, next |-> 0, src |-> 0, dst |-> 0,
             len |-> 0, ctrl |-> 0, word |-> 0, count |-> 0]
  /\ csr  = [resp |-> "none", irqEn |-> FALSE, uart |-> FALSE, done |-> FALSE,
             error |-> FALSE, descIrq |-> FALSE]

IsStart(cfg) == cfg.reg = "CTRL" /\ ~cfg.abort /\ (cfg.descStart \/ cfg.start)

\* An idle channel takes a write that starts nothing.
IdleWrite(cfg) ==
  /\ state = "IDLE" /\ ~IsStart(cfg)
  /\ csr' = CsrAfter(cfg)
  /\ xfer' = IF cfg.reg = "SRC" THEN [xfer EXCEPT !.src = cfg.value]
             ELSE IF cfg.reg = "DST" THEN [xfer EXCEPT !.dst = cfg.value]
             ELSE IF cfg.reg = "LEN" THEN [xfer EXCEPT !.len = cfg.value]
             ELSE xfer
  /\ desc' = IF cfg.reg = "DESC_HEAD" THEN [desc EXCEPT !.head = cfg.value]
                                      ELSE desc
  /\ UNCHANGED <<state, ctl>>

StartDescriptors(cfg) ==
  LET refused == cfg.uart \/ ~DescriptorAddr(desc.head)
  IN  /\ state = "IDLE" /\ IsStart(cfg) /\ cfg.descStart
      /\ csr' = CsrAtStart(cfg, refused)
      /\ ctl' = [ctl EXCEPT !.abort = FALSE, !.active = ~refused]
      /\ desc' = IF refused THEN [desc EXCEPT !.count = 0]
                 ELSE [desc EXCEPT !.count = 0, !.addr = desc.head, !.word = 0]
      /\ state' = IF refused THEN "IDLE" ELSE "FETCH_REQ"
      /\ UNCHANGED xfer

StartDirect(cfg) ==
  LET refused == ~DirectStartAllowed(cfg.uart)
  IN  /\ state = "IDLE" /\ IsStart(cfg) /\ ~cfg.descStart
      /\ csr' = CsrAtStart(cfg, refused)
      /\ ctl' = [ctl EXCEPT !.abort = FALSE, !.active = FALSE]
      /\ xfer' = IF refused THEN [xfer EXCEPT !.byte = 0]
                 ELSE [xfer EXCEPT !.byte = 0, !.bytes = 0]
      /\ state' = IF refused THEN "IDLE" ELSE "READ_REQ"
      /\ UNCHANGED desc

-----------------------------------------------------------------------------
(* The memory port.                                                        *)

\* The request on the memory port; it is valid in RequestStates.
MemRequest ==
  [we   |-> state \notin {"FETCH_REQ", "READ_REQ"},
   addr |-> CASE state = "FETCH_REQ"     -> Add(desc.addr, 4 * desc.word)
              [] state = "WRITE_REQ"     -> xfer.dst
              [] state = "WB_CTRL_REQ"   -> Add(desc.addr, 16)
              [] state = "WB_STATUS_REQ" -> Add(desc.addr, 20)
              [] state = "WB_BYTES_REQ"  -> Add(desc.addr, 24)
              [] OTHER                   -> xfer.src,
   data |-> CASE state = "FETCH_REQ"     -> 0
              [] state = "WB_CTRL_REQ"   -> desc.ctrl - (desc.ctrl % 2)
              [] state = "WB_STATUS_REQ" -> IF ctl.derr THEN StatusError
                                                        ELSE StatusDone
              [] state = "WB_BYTES_REQ"  -> xfer.bytes
              [] OTHER                   -> xfer.data]

\* The state that waits for the answer to the request of state s.
WaitOf ==
  [s \in RequestStates |->
     IF s = "FETCH_REQ" THEN "FETCH_WAIT"
     ELSE IF s = "READ_REQ" THEN "READ_WAIT"
     ELSE IF s = "WRITE_REQ" THEN "WRITE_WAIT"
     ELSE IF s = "WB_CTRL_REQ" THEN "WB_CTRL_WAIT"
     ELSE IF s = "WB_STATUS_REQ" THEN "WB_STATUS_WAIT" ELSE "WB_BYTES_WAIT"]

\* A request is accepted.  Outside a fetch, an abort leaves it to be drained.
Accept(cfg) ==
  LET drain == Aborting(cfg) /\ state # "FETCH_REQ"
  IN  /\ state \in RequestStates
      /\ csr' = CsrAfter(cfg)
      /\ state' = IF drain THEN "ABORT_WAIT" ELSE WaitOf[state]
      /\ ctl' = IF drain
                THEN [ctl EXCEPT !.abort = TRUE, !.derr = TRUE,
                                 !.inflight = state = "WRITE_REQ"]
                ELSE [ctl EXCEPT !.abort = Aborting(cfg)]
      /\ UNCHANGED <<xfer, desc>>

\* Where an abort, or the failure of a payload word, takes the channel: the
\* write-back of an active descriptor, the end of a direct transfer.
StateAfterStop == IF ctl.active THEN "WB_CTRL_REQ" ELSE "IDLE"

\* ... and with it, the flags of an abort.
StopForAbort ==
  /\ state' = StateAfterStop
  /\ ctl' = [ctl EXCEPT !.abort = ctl.active, !.derr = TRUE]

\* A payload request is not accepted on the edge that sees the abort.
Withdraw(cfg) ==
  /\ state \in {"READ_REQ", "WRITE_REQ"} /\ Aborting(cfg)
  /\ csr' = CsrAfter(cfg)
  /\ StopForAbort
  /\ UNCHANGED <<xfer, desc>>

\* Nothing happens on the memory port nor on the UART: the state holds.
Hold(cfg) ==
  /\ state # "IDLE"
  /\ Aborting(cfg) => state \notin {"READ_REQ", "WRITE_REQ", "UART_TX_REQ"}
  /\ csr' = CsrAfter(cfg)
  /\ ctl' = [ctl EXCEPT !.abort = Aborting(cfg),
                        !.derr  = ctl.derr \/
                          (/\ Aborting(cfg)
                           /\ state \in {"WB_CTRL_REQ", "WB_STATUS_REQ",
                                         "WB_BYTES_REQ"})]
  /\ UNCHANGED <<state, xfer, desc>>

-----------------------------------------------------------------------------
(* Responses of the memory port, r.data with the error flag r.err.         *)

\* (A slip: source and link are taken from each other's word.)
FetchedSwapped(data) ==
  LET At(i, old) == IF desc.word = i THEN data ELSE old
  IN  [desc EXCEPT !.word = desc.word + 1,
                   !.next = At(1, desc.next), !.src = At(0, desc.src),
                   !.dst = At(2, desc.dst), !.len = At(3, desc.len),
                   !.ctrl = At(4, desc.ctrl)]

Fetched(data) ==
  LET At(i, old) == IF desc.word = i THEN data ELSE old
  IN  [desc EXCEPT !.word = desc.word + 1,
                   !.next = At(0, desc.next), !.src = At(1, desc.src),
                   !.dst = At(2, desc.dst), !.len = At(3, desc.len),
                   !.ctrl = At(4, desc.ctrl)]

FetchWord(cfg, r) ==
  /\ state = "FETCH_WAIT" /\ ~r.err /\ desc.word # 7
  /\ state' = "FETCH_REQ"
  /\ desc' = Fetched(r.data)
  /\ csr' = CsrAfter(cfg)
  /\ ctl' = [ctl EXCEPT !.abort = Aborting(cfg)]
  /\ UNCHANGED xfer

\* A failed fetch, or a descriptor that software has not given: the chain
\* ends with ERROR and the descriptor is left alone.
FetchFail(cfg, r) ==
  /\ state = "FETCH_WAIT"
  /\ r.err \/ (desc.word = 7 /\ ~Own(desc.ctrl))
  /\ state' = "IDLE"
  /\ csr' = [CsrAfter(cfg) EXCEPT !.error = TRUE]
  /\ ctl' = [ctl EXCEPT !.active = FALSE, !.abort = r.err /\ Aborting(cfg)]
  /\ UNCHANGED <<xfer, desc>>

\* The owned descriptor just read is handed back with ERROR: an abort, the
\* chain limit, or a malformed descriptor.
DescriptorRefused(cfg) ==
  \/ Aborting(cfg)
  \/ desc.count = MaxDescriptors
  \/ ~DescriptorValid(desc)

\* (A slip: OWN is not asked for.)
RefuseAnyDescriptor(cfg, r) ==
  /\ state = "FETCH_WAIT" /\ ~r.err /\ desc.word = 7
  /\ DescriptorRefused(cfg)
  /\ state' = "WB_CTRL_REQ"
  /\ csr' = CsrAfter(cfg)
  /\ ctl' = [ctl EXCEPT !.abort = Aborting(cfg), !.derr = TRUE]
  /\ xfer' = [xfer EXCEPT !.bytes = 0]
  /\ UNCHANGED desc

RefuseDescriptor(cfg, r) ==
  /\ state = "FETCH_WAIT" /\ ~r.err /\ desc.word = 7 /\ Own(desc.ctrl)
  /\ DescriptorRefused(cfg)
  /\ state' = "WB_CTRL_REQ"
  /\ csr' = CsrAfter(cfg)
  /\ ctl' = [ctl EXCEPT !.abort = Aborting(cfg), !.derr = TRUE]
  /\ xfer' = [xfer EXCEPT !.bytes = 0]
  /\ UNCHANGED desc

TakeDescriptor(cfg, r) ==
  /\ state = "FETCH_WAIT" /\ ~r.err /\ desc.word = 7 /\ Own(desc.ctrl)
  /\ ~DescriptorRefused(cfg)
  /\ state' = "READ_REQ"
  /\ csr' = CsrAfter(cfg)
  /\ ctl' = [ctl EXCEPT !.derr = FALSE]
  /\ xfer' = [xfer EXCEPT !.src = desc.src, !.dst = desc.dst, !.len = desc.len,
                          !.bytes = 0]
  /\ desc' = [desc EXCEPT !.count = desc.count + 1]

\* A payload word is copied: what the write's good response does.
Advanced == [xfer EXCEPT !.src = Add(xfer.src, 4), !.dst = Add(xfer.dst, 4),
                         !.len = Sub(xfer.len, 4), !.bytes = Add(xfer.bytes, 4)]

ReadDone(cfg, r) ==
  /\ state = "READ_WAIT" /\ ~Aborting(cfg) /\ ~r.err
  /\ state' = IF csr.uart THEN "UART_TX_REQ" ELSE "WRITE_REQ"
  /\ xfer' = [xfer EXCEPT !.data = r.data]
  /\ csr' = CsrAfter(cfg)
  /\ UNCHANGED <<ctl, desc>>

\* (A slip: a write to STATUS wins over DONE of the same edge.)
WriteDoneCleared(cfg, r) ==
  LET last == xfer.len = 4
  IN  /\ state = "WRITE_WAIT" /\ ~Aborting(cfg) /\ ~r.err
      /\ xfer' = Advanced
      /\ state' = IF last THEN StateAfterStop ELSE "READ_REQ"
      /\ ctl' = [ctl EXCEPT !.derr = ctl.derr /\ ~(last /\ ctl.active)]
      /\ csr' = IF last /\ ~ctl.active
                THEN [CsrAfter(cfg) EXCEPT !.done = cfg.reg # "STATUS"]
                ELSE CsrAfter(cfg)
      /\ UNCHANGED desc

WriteDone(cfg, r) ==
  LET last == xfer.len = 4
  IN  /\ state = "WRITE_WAIT" /\ ~Aborting(cfg) /\ ~r.err
      /\ xfer' = Advanced
      /\ state' = IF last THEN StateAfterStop ELSE "READ_REQ"
      /\ ctl' = [ctl EXCEPT !.derr = ctl.derr /\ ~(last /\ ctl.active)]
      /\ csr' = IF last /\ ~ctl.active
                THEN [CsrAfter(cfg) EXCEPT !.done = TRUE]
                ELSE CsrAfter(cfg)
      /\ UNCHANGED desc

PayloadFail(cfg, r) ==
  /\ state \in {"READ_WAIT", "WRITE_WAIT"} /\ ~Aborting(cfg) /\ r.err
  /\ state' = StateAfterStop
  /\ ctl' = [ctl EXCEPT !.derr = ctl.derr \/ ctl.active]
  /\ csr' = [CsrAfter(cfg) EXCEPT !.error = TRUE]
  /\ UNCHANGED <<xfer, desc>>

\* The response of a payload word arrives after the abort; a written word
\* still counts.
PayloadAbort(cfg, r) ==
  /\ state \in {"READ_WAIT", "WRITE_WAIT"} /\ Aborting(cfg)
  /\ StopForAbort
  /\ xfer' = IF state = "WRITE_WAIT" /\ ~r.err THEN Advanced ELSE xfer
  /\ csr' = CsrAfter(cfg)
  /\ UNCHANGED desc

AbortDrainedActive(cfg, r) ==
  /\ state = "ABORT_WAIT" /\ ctl.active
  /\ state' = StateAfterStop
  /\ xfer' = IF ctl.inflight /\ ~r.err THEN Advanced ELSE xfer
  /\ ctl' = [ctl EXCEPT !.abort = FALSE, !.derr = TRUE, !.inflight = FALSE]
  /\ csr' = CsrAfter(cfg)
  /\ UNCHANGED desc

\* The request that was accepted on the abort's edge is drained.
AbortDrained(cfg, r) ==
  /\ state = "ABORT_WAIT"
  /\ state' = StateAfterStop
  /\ xfer' = IF ctl.inflight /\ ~r.err THEN Advanced ELSE xfer
  /\ ctl' = [ctl EXCEPT !.abort = FALSE, !.derr = TRUE, !.inflight = FALSE]
  /\ csr' = CsrAfter(cfg)
  /\ UNCHANGED desc

WriteBackWaits == {"WB_CTRL_WAIT", "WB_STATUS_WAIT", "WB_BYTES_WAIT"}

\* (A slip: an abort lets the write-back go on.)
WriteBackAbortOn(cfg, r) ==
  /\ state \in WriteBackWaits /\ Aborting(cfg)
  /\ state' = "WB_BYTES_REQ"
  /\ ctl' = [ctl EXCEPT !.abort = TRUE, !.derr = TRUE]
  /\ csr' = CsrAfter(cfg)
  /\ UNCHANGED <<xfer, desc>>

\* An abort restarts the write-back, to report ERROR.
WriteBackAbort(cfg, r) ==
  /\ state \in WriteBackWaits /\ Aborting(cfg)
  /\ state' = "WB_CTRL_REQ"
  /\ ctl' = [ctl EXCEPT !.abort = TRUE, !.derr = TRUE]
  /\ csr' = CsrAfter(cfg)
  /\ UNCHANGED <<xfer, desc>>

WriteBackFail(cfg, r) ==
  /\ state \in WriteBackWaits /\ ~Aborting(cfg) /\ r.err
  /\ state' = "IDLE"
  /\ ctl' = [ctl EXCEPT !.active = FALSE]
  /\ csr' = [CsrAfter(cfg) EXCEPT !.error = TRUE]
  /\ UNCHANGED <<xfer, desc>>

WriteBackNext(cfg, r) ==
  /\ state \in {"WB_CTRL_WAIT", "WB_STATUS_WAIT"} /\ ~Aborting(cfg) /\ ~r.err
  /\ state' = IF state = "WB_CTRL_WAIT" THEN "WB_STATUS_REQ" ELSE "WB_BYTES_REQ"
  /\ csr' = CsrAfter(cfg)
  /\ UNCHANGED <<ctl, xfer, desc>>

\* (A slip: DONE follows the last descriptor, also one that failed.)
DescriptorAlwaysDone(cfg, r) ==
  LET more == ~ctl.derr /\ desc.next # 0
      c    == CsrAfter(cfg)
  IN  /\ state = "WB_BYTES_WAIT" /\ ~Aborting(cfg) /\ ~r.err
      /\ state' = IF more THEN "FETCH_REQ" ELSE "IDLE"
      /\ desc' = IF more THEN [desc EXCEPT !.addr = desc.next, !.word = 0]
                         ELSE desc
      /\ ctl' = [ctl EXCEPT !.active = ctl.active /\ more]
      /\ csr' = [c EXCEPT !.descIrq = c.descIrq \/ IrqEn(desc.ctrl),
                          !.error = c.error \/ ctl.derr, !.done = ~more]
      /\ UNCHANGED xfer

\* The last word of the write-back: the descriptor's event is latched, and
\* the chain goes on, ends with DONE, or ends with ERROR.
DescriptorFinished(cfg, r) ==
  LET more == ~ctl.derr /\ desc.next # 0
      c    == CsrAfter(cfg)
  IN  /\ state = "WB_BYTES_WAIT" /\ ~Aborting(cfg) /\ ~r.err
      /\ state' = IF more THEN "FETCH_REQ" ELSE "IDLE"
      /\ desc' = IF more THEN [desc EXCEPT !.addr = desc.next, !.word = 0]
                         ELSE desc
      /\ ctl' = [ctl EXCEPT !.active = ctl.active /\ more]
      /\ csr' = [c EXCEPT !.descIrq = c.descIrq \/ IrqEn(desc.ctrl),
                          !.error = c.error \/ ctl.derr,
                          !.done = c.done \/ ~(ctl.derr \/ more)]
      /\ UNCHANGED xfer

-----------------------------------------------------------------------------
(* The UART-TX byte stream.                                                *)

\* (A slip: the fourth byte of a word is not sent.)
UartByteOfThree(cfg) ==
  LET last == xfer.len = 1
      word == ~last /\ xfer.byte = 2
  IN  /\ state = "UART_TX_REQ" /\ ~Aborting(cfg)
      /\ state' = IF last THEN "IDLE" ELSE IF word THEN "READ_REQ" ELSE state
      /\ xfer' = [xfer EXCEPT !.bytes = Add(xfer.bytes, 1),
                              !.len = Sub(xfer.len, 1),
                              !.src = IF word THEN Add(xfer.src, 4) ELSE xfer.src,
                              !.byte = IF last THEN xfer.byte
                                       ELSE IF word THEN 0 ELSE xfer.byte + 1]
      /\ csr' = IF last THEN [CsrAfter(cfg) EXCEPT !.done = TRUE] ELSE CsrAfter(cfg)
      /\ UNCHANGED <<ctl, desc>>

UartByte(cfg) ==
  LET last == xfer.len = 1
      word == ~last /\ xfer.byte = 3
  IN  /\ state = "UART_TX_REQ" /\ ~Aborting(cfg)
      /\ state' = IF last THEN "IDLE" ELSE IF word THEN "READ_REQ" ELSE state
      /\ xfer' = [xfer EXCEPT !.bytes = Add(xfer.bytes, 1),
                              !.len = Sub(xfer.len, 1),
                              !.src = IF word THEN Add(xfer.src, 4) ELSE xfer.src,
                              !.byte = IF last THEN xfer.byte
                                       ELSE IF word THEN 0 ELSE xfer.byte + 1]
      /\ csr' = IF last THEN [CsrAfter(cfg) EXCEPT !.done = TRUE] ELSE CsrAfter(cfg)
      /\ UNCHANGED <<ctl, desc>>

\* An abort wins over a byte that the UART takes on the same edge.
UartAbort(cfg) ==
  /\ state = "UART_TX_REQ" /\ Aborting(cfg)
  /\ state' = "IDLE"
  /\ ctl' = [ctl EXCEPT !.abort = FALSE]
  /\ csr' = [CsrAfter(cfg) EXCEPT !.error = TRUE]
  /\ UNCHANGED <<xfer, desc>>

-----------------------------------------------------------------------------
(* The channel alone, with every input that its ports can take.            *)

IdleStep(cfg) == IdleWrite(cfg) \/ StartDescriptors(cfg) \/ StartDirect(cfg)

RespStep(cfg, r) ==
  \/ FetchWord(cfg, r) \/ FetchFail(cfg, r)
  \/ RefuseDescriptor(cfg, r) \/ TakeDescriptor(cfg, r)
  \/ ReadDone(cfg, r) \/ WriteDone(cfg, r)
  \/ PayloadFail(cfg, r) \/ PayloadAbort(cfg, r) \/ AbortDrained(cfg, r)
  \/ WriteBackAbort(cfg, r) \/ WriteBackFail(cfg, r)
  \/ WriteBackNext(cfg, r) \/ DescriptorFinished(cfg, r)

Responses == [data : Word, err : BOOLEAN]

DmaNext ==
  \E cfg \in CfgWrites :
    /\ CfgAccepted(cfg)
    /\ \/ IdleStep(cfg)
       \/ Accept(cfg) \/ Withdraw(cfg) \/ Hold(cfg)
       \/ \E r \in Responses : RespStep(cfg, r)
       \/ UartByte(cfg) \/ UartAbort(cfg)

DmaSpec == DmaInit /\ [][DmaNext]_dmaVars

-----------------------------------------------------------------------------
(* Properties of the channel under any input.                              *)

CtlType  == [abort : BOOLEAN, inflight : BOOLEAN, active : BOOLEAN,
             derr : BOOLEAN]
XferType == [src : Word, dst : Word, len : Word, bytes : Word, data : Word,
             byte : 0 .. 3]
DescType == [head : Word, addr : Word, next : Word, src : Word, dst : Word,
             len : Word, ctrl : Word, word : 0 .. 7, count : 0 .. MaxDescriptors]
CsrType  == [resp : {"none", "ok", "err"}, irqEn : BOOLEAN, uart : BOOLEAN,
             done : BOOLEAN, error : BOOLEAN, descIrq : BOOLEAN]

\* Every register holds a value of its width.
DmaTypeOK ==
  /\ state \in DmaStates
  /\ ctl  \in CtlType
  /\ xfer \in XferType
  /\ desc \in DescType
  /\ csr  \in CsrType

\* DONE and ERROR exclude each other, and DONE is never shown while a transfer
\* runs: software that polls STATUS sees one outcome (dma.c, dma_wait).
OutcomeExclusive ==
  /\ ~(csr.done /\ csr.error)
  /\ csr.done => state = "IDLE"

\* From the edge that follows an abort no payload request and no UART byte is
\* offered any more: all that still comes is the answer to what was accepted.
AbortStopsPayload ==
  ctl.abort => state \notin {"READ_REQ", "WRITE_REQ", "UART_TX_REQ"}

=============================================================================
