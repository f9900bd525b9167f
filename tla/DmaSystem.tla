----------------------------- MODULE DmaSystem -----------------------------
(***************************************************************************)
(* The DMA channel with what surrounds it: the System SRAM port that       *)
(* accepts and answers one request at a time, the UART's transmit holding  *)
(* register, the PLIC's gateway of source 5, and software on one hart: it  *)
(* programs the channel and serves its interrupt as sw/lib/dma.c does,     *)
(* prepares descriptors by the ownership rules of the descriptor contract, *)
(* and may abort at any moment.                                            *)
(***************************************************************************)
EXTENDS DmaController, Sequences

CONSTANTS
  DescAddrs,         \* where software keeps its descriptors
  Templates,         \* Templates[d]: what it may put into descriptor d
  Heads,             \* values of DESC_HEAD
  Transfers,         \* parameters of register-programmed transfers
  Memory0,           \* the contents of System SRAM, one value per word
  ErrWords,          \* words whose accesses may be answered with an error
  MaxStarts,         \* bound on the number of start commands
  MaxAborts,         \* bound on the number of aborts
  PrepareWhileBusy   \* may descriptors be filled while a chain runs

VARIABLES
  mem,      \* System SRAM, byte address of a word -> word
  bus,      \* the accepted request that is not yet answered
  starts, aborts,
  call,     \* the register that a call of the driver wrote last
  handler,  \* the interrupt and its handler, with the outcome the handler read
  \* History variables.
  given,    \* given[d]: what software published in d when it set OWN
  job,      \* the transfer in progress, with the payload as it was before it
  sent,     \* the bytes that the UART has taken, each as <<word, index>>
  told      \* the handler has read ERROR in the transfer that runs

envVars == <<mem, bus, starts, aborts, call, handler, given, job, sent, told>>
vars == <<dmaVars, envVars>>

SramWords == DOMAIN Memory0
DescWords == {d + 4 * i : d \in DescAddrs, i \in 0 .. 7}
PayloadWords == SramWords \ DescWords
NoBus  == [addr |-> "none"]
NotGiven == [ctrl |-> 0]
NoIrq  == [at |-> "none", done |-> FALSE, error |-> FALSE]

ASSUME MemoryAssumption ==
  /\ WordMod % 2 = 0
  /\ SramWords = {w \in SramBase .. SramBase + SramSize - 1 : w % 4 = 0}
  /\ Memory0 \in [SramWords -> Word]
  /\ \A d \in DescAddrs : d \in Word /\ DescriptorAddr(d)
  /\ MaxStarts \in Nat /\ MaxAborts \in Nat /\ PrepareWhileBusy \in BOOLEAN

Payload(m) == [w \in PayloadWords |-> m[w]]

\* The fields that a descriptor holds in memory.
Fields(m, d) == [next |-> m[d], src |-> m[d + 4], dst |-> m[d + 8],
                 len |-> m[d + 12], ctrl |-> m[d + 16]]

\* A transfer keeps off the descriptors and does not run into its own source.
Apart(t) ==
  /\ \A w \in DescWords : /\ w < t.src \/ w >= t.src + t.len
                          /\ w < t.dst \/ w >= t.dst + t.len
  /\ t.dst <= t.src \/ t.dst >= t.src + t.len

\* An address at which the channel may look for a descriptor holds one.
Links(a) == DescriptorAddr(a) => a \in DescAddrs

Promised(f) == Apart(f) /\ Links(f.next)

\* What software keeps to in the transfers that it asks for.
ASSUME SoftwareAssumption ==
  /\ Heads \subseteq Word /\ \A h \in Heads \cup {0} : Links(h)
  /\ Transfers \subseteq [src : Word, dst : Word, len : Word]
  /\ \A t \in Transfers : Apart(t)
  /\ \A d \in DescAddrs : Promised(Fields(Memory0, d))
  /\ \A d \in DescAddrs :
       /\ Templates[d] \subseteq
            [next : Word, src : Word, dst : Word, len : Word, ctrl : Word]
       /\ \A t \in Templates[d] : Promised(t) /\ ~Own(t.ctrl)

Init ==
  /\ DmaInit
  /\ mem = Memory0
  /\ bus = NoBus
  /\ starts = 0 /\ aborts = 0 /\ call = "none"
  /\ handler = NoIrq /\ told = FALSE
  /\ given = [d \in DescAddrs |-> IF Own(Memory0[d + 16]) THEN Fields(Memory0, d)
                                  ELSE NotGiven]
  /\ job = [src |-> 0, dst |-> 0, len |-> 0, uart |-> FALSE,
            before |-> Payload(Memory0)]
  /\ sent = <<>>

-----------------------------------------------------------------------------
(* What software writes to the channel's registers: the calls of dma.c when *)
(* the channel is idle; an abort, or a parameter of some other thread, when *)
(* it runs; and, in any state, the clearing write of the handler, which has *)
(* the hart for itself between its read of STATUS and that write.           *)

Ctrl(abort, descStart, start, uart) ==
  [reg |-> "CTRL", irqEn |-> TRUE, uart |-> uart, abort |-> abort,
   descStart |-> descStart, start |-> start]

\* eriscv_mcu_dma_clear_status(): every outcome and event, whatever STATUS shows.
ClearStatus == [reg |-> "STATUS", done |-> TRUE, error |-> TRUE, descIrq |-> TRUE]

\* What follows in a call of the driver that starts the channel.
IdleWrites ==
  CASE call = "none"      -> IF starts < MaxStarts THEN {ClearStatus} ELSE {}
    [] call = "STATUS"    -> [reg : {"SRC"}, value : {t.src : t \in Transfers}] \cup
                             [reg : {"DESC_HEAD"}, value : Heads]
    [] call = "SRC"       -> [reg : {"DST"}, value : {t.dst : t \in
                                {u \in Transfers : u.src = xfer.src}}]
    [] call = "DST"       -> [reg : {"LEN"}, value : {t.len : t \in
                                {u \in Transfers : u.src = xfer.src /\ u.dst = xfer.dst}}]
    [] call = "LEN"       -> {Ctrl(FALSE, FALSE, TRUE, uart) : uart \in BOOLEAN}
    [] call = "DESC_HEAD" -> {Ctrl(FALSE, TRUE, FALSE, FALSE)}
    [] OTHER              -> {}

BusyWrites ==
  {[reg |-> "SRC", value |-> 0]} \cup
  IF aborts < MaxAborts THEN {Ctrl(TRUE, FALSE, FALSE, FALSE)} ELSE {}

SwWrites ==
  {NoCfg} \cup IF handler.at = "read" THEN {ClearStatus}
               ELSE IF state = "IDLE" THEN IdleWrites ELSE BusyWrites

Counted(cfg) ==
  /\ starts' = IF IsStart(cfg) THEN starts + 1 ELSE starts
  /\ aborts' = IF AbortRequest(cfg) THEN aborts + 1 ELSE aborts
  /\ handler' = IF handler.at = "read" /\ cfg = ClearStatus THEN NoIrq ELSE handler
  /\ call' = IF IsStart(cfg) THEN "none"
             ELSE IF handler.at = "read" \/ state # "IDLE" \/ cfg = NoCfg THEN call
             ELSE cfg.reg
  /\ told' = (told /\ ~IsStart(cfg))

Software(cfg) == cfg \in SwWrites /\ CfgAccepted(cfg) /\ Counted(cfg)

-----------------------------------------------------------------------------
(* Software and its descriptors in System SRAM.                            *)

\* While a chain runs, software leaves alone what it gave and did not get back.
MayPrepare(d) ==
  /\ starts < MaxStarts /\ call = "none" /\ handler.at # "read"
  /\ ~Own(mem[d + 16])
  /\ state = "IDLE" \/ (PrepareWhileBusy /\ given[d] = NotGiven)

\* Every field but OWN, with status and byte count cleared.
SwFill(d, t) ==
  /\ MayPrepare(d)
  /\ mem' = [mem EXCEPT ![d] = t.next, ![d + 4] = t.src, ![d + 8] = t.dst,
                        ![d + 12] = t.len, ![d + 16] = t.ctrl,
                        ![d + 20] = 0, ![d + 24] = 0, ![d + 28] = 0]
  /\ given' = [given EXCEPT ![d] = NotGiven]
  /\ UNCHANGED <<dmaVars, bus, starts, aborts, call, handler, job, sent, told>>

\* OWN is set last.
SwGive(d) ==
  /\ MayPrepare(d)
  /\ mem[d + 16] # 0 /\ mem[d + 20] = 0
  /\ mem' = [mem EXCEPT ![d + 16] = mem[d + 16] + 1]
  /\ given' = [given EXCEPT ![d] = Fields(mem', d)]
  /\ UNCHANGED <<dmaVars, bus, starts, aborts, call, handler, job, sent, told>>

-----------------------------------------------------------------------------
(* The interrupt.  The PLIC keeps a request that it has sampled, also when *)
(* the line falls again, and takes none while the handler runs.            *)

IrqLine == csr.irqEn /\ (csr.done \/ csr.error \/ csr.descIrq)

PlicSamples ==
  /\ handler.at = "none" /\ IrqLine
  /\ handler' = [handler EXCEPT !.at = "pending"]
  /\ UNCHANGED <<dmaVars, mem, bus, starts, aborts, call, given, job, sent, told>>

\* The handler claims the source and reads STATUS, which its completion hook
\* gets; it clears STATUS on a later edge, and the channel runs on in between.
HandlerReads ==
  /\ handler.at = "pending"
  /\ handler' = [at |-> "read", done |-> csr.done, error |-> csr.error]
  /\ told' = (told \/ (csr.error /\ state # "IDLE"))
  /\ UNCHANGED <<dmaVars, mem, bus, starts, aborts, call, given, job, sent>>

-----------------------------------------------------------------------------
(* Edges of the channel in this environment.                               *)

\* The transfer whose payload the channel now starts to move.
NewJob(uart, length) ==
  [src |-> xfer'.src, dst |-> xfer'.dst, len |-> length, uart |-> uart,
   before |-> Payload(mem)]

IdleEdge(cfg) ==
  /\ Software(cfg)
  /\ IdleStep(cfg)
  /\ IF state' = "READ_REQ"
     THEN job' = NewJob(cfg.uart, xfer.len) /\ sent' = <<>>
     ELSE UNCHANGED <<job, sent>>
  /\ UNCHANGED <<mem, bus, given>>

HoldEdge(cfg) ==
  /\ Software(cfg)
  /\ Hold(cfg)
  /\ UNCHANGED <<mem, bus, given, job, sent>>

WithdrawEdge(cfg) ==
  /\ Software(cfg)
  /\ Withdraw(cfg)
  /\ UNCHANGED <<mem, bus, given, job, sent>>

\* System SRAM accepts the request.
AcceptEdge(cfg) ==
  /\ Software(cfg)
  /\ bus = NoBus
  /\ Accept(cfg)
  /\ bus' = MemRequest
  /\ UNCHANGED <<mem, given, job, sent>>

\* System SRAM has done the access and answers.
RespondEdge(cfg, err) ==
  /\ Software(cfg)
  /\ bus # NoBus
  /\ err => bus.addr \in ErrWords
  /\ RespStep(cfg, [data |-> mem[bus.addr], err |-> err])
  /\ bus' = NoBus
  /\ mem' = IF bus.we /\ ~err THEN [mem EXCEPT ![bus.addr] = bus.data] ELSE mem
  /\ IF state = "FETCH_WAIT" /\ state' \in {"READ_REQ", "WB_CTRL_REQ"}
     THEN /\ job' = NewJob(FALSE, IF state' = "READ_REQ" THEN xfer'.len ELSE 0)
          /\ sent' = <<>>
     ELSE UNCHANGED <<job, sent>>
  /\ given' = IF state = "WB_BYTES_WAIT" /\ ~err /\ state' # "WB_CTRL_REQ"
              THEN [given EXCEPT ![desc.addr] = NotGiven] ELSE given

\* The UART takes the byte; it also takes it on the edge of an abort.
UartEdge(cfg, ready) ==
  /\ Software(cfg)
  /\ \/ ready /\ UartByte(cfg)
     \/ UartAbort(cfg)
  /\ sent' = IF ready THEN Append(sent, <<xfer.data, xfer.byte>>) ELSE sent
  /\ UNCHANGED <<mem, bus, given, job>>

SoftwareStep == \E d \in DescAddrs : SwGive(d) \/ \E t \in Templates[d] : SwFill(d, t)

Next ==
  \/ SoftwareStep \/ PlicSamples \/ HandlerReads
  \/ \E cfg \in SwWrites :
       \/ IdleEdge(cfg) \/ HoldEdge(cfg) \/ WithdrawEdge(cfg) \/ AcceptEdge(cfg)
       \/ \E err \in BOOLEAN : RespondEdge(cfg, err)
       \/ \E ready \in BOOLEAN : UartEdge(cfg, ready)

\* The clock keeps running; the round-robin arbiter of each bank admits the
\* channel, System SRAM answers what it accepted, and the UART keeps draining.
Fairness ==
  /\ WF_vars(\E cfg \in SwWrites : AcceptEdge(cfg))
  /\ WF_vars(\E cfg \in SwWrites, err \in BOOLEAN : RespondEdge(cfg, err))
  /\ WF_vars(\E cfg \in SwWrites, ready \in BOOLEAN : UartEdge(cfg, ready))

Spec == Init /\ [][Next]_vars /\ Fairness

-----------------------------------------------------------------------------
(* Safety.                                                                 *)

\* The channel's registers and System SRAM hold words, and the bus carries a
\* request exactly while the channel waits for an answer.
TypeOK ==
  /\ DmaTypeOK
  /\ mem \in [SramWords -> Word]
  /\ handler \in [at : {"none", "pending", "read"}, done : BOOLEAN, error : BOOLEAN]
  /\ told \in BOOLEAN
  /\ (bus # NoBus) <=> (state \in WaitStates)

\* At every moment, whatever was aborted or failed, System SRAM's payload is
\* what it was before the transfer with the first bytes_done bytes copied: no
\* word is lost, doubled, or written and not counted.
CopyExact ==
  \A w \in PayloadWords :
    mem[w] = IF ~job.uart /\ w >= job.dst /\ w < job.dst + xfer.bytes
             THEN job.before[w - job.dst + job.src]
             ELSE job.before[w]

\* The UART receives the source's bytes in order, each once; one byte more than
\* was counted only when it left on the edge of an abort.
UartStream ==
  job.uart =>
    /\ \A k \in 1 .. Len(sent) :
         sent[k] = <<job.before[job.src + 4 * ((k - 1) \div 4)], (k - 1) % 4>>
    /\ \/ Len(sent) = xfer.bytes
       \/ /\ Len(sent) = xfer.bytes + 1 /\ ~csr.done
          /\ state \notin {"READ_REQ", "READ_WAIT", "UART_TX_REQ"}

\* What System SRAM and the UART have got is the payload that is counted.
PayloadExact == CopyExact /\ UartStream

\* The channel writes nowhere but into the destination of its transfer and into
\* the completion words of a descriptor that software gave to it.
WritesConfined ==
  bus # NoBus /\ bus.we =>
    \/ ~job.uart /\ bus.addr >= job.dst /\ bus.addr < job.dst + job.len
    \/ \E d \in DescAddrs :
         given[d] # NotGiven /\ bus.addr \in {d + 16, d + 20, d + 24}

\* A descriptor is processed with the fields that software had published when
\* it set OWN.
TakenAsGiven ==
  ctl.active /\ state \notin {"FETCH_REQ", "FETCH_WAIT"} =>
    given[desc.addr] = [next |-> desc.next, src |-> desc.src, dst |-> desc.dst,
                        len |-> desc.len, ctrl |-> desc.ctrl]

\* While an owned descriptor is processed ERROR is down: the descriptor contract
\* says of an abort that ERROR is set after the descriptor's write-back.
ErrorAfterWriteBack ==
  csr.error /\ ctl.active => state \in {"FETCH_REQ", "FETCH_WAIT"}

-----------------------------------------------------------------------------
(* Actions.                                                                *)

\* A descriptor comes back without OWN, with DONE only if all of it was copied
\* and no abort came, with ERROR only if the channel ends in ERROR, and with
\* the number of bytes that were really copied.
HandbackTruth ==
  [][ state = "WB_BYTES_WAIT" /\ given' # given =>
        LET d == desc.addr
        IN  /\ ~Own(mem'[d + 16])
            /\ mem'[d + 24] = xfer.bytes
            /\ \/ /\ mem'[d + 20] = StatusDone
                  /\ ~csr.error /\ xfer.bytes = given[d].len
               \/ mem'[d + 20] = StatusError /\ csr'.error ]_vars

\* A transfer ends with one of DONE and ERROR, with DONE only if it was not
\* aborted and every byte of the last job was moved.  It ends with neither only
\* when it was a direct one, aborted, and the handler has read that ERROR.
EndReported ==
  [][ state # "IDLE" /\ state' = "IDLE" =>
        /\ ~(csr'.done /\ csr'.error)
        /\ csr'.done \/ csr'.error \/ (told /\ ctl.abort /\ ~ctl.active)
        /\ csr'.done => ~ctl.abort /\ xfer'.bytes = job.len ]_vars

\* The handler drops no outcome that it has not read: the descriptor contract
\* has software clear the event with DESC_IRQ alone, and DONE comes later.
UnreadOutcomeKept ==
  [][ handler.at = "read" /\ handler' = NoIrq =>
        /\ csr.done  => handler.done \/ csr'.done
        /\ csr.error => handler.error \/ csr'.error ]_vars

-----------------------------------------------------------------------------
(* Liveness.                                                               *)

\* Whatever links the descriptors have and whenever an abort or an error comes,
\* every transfer and chain comes to an end.
BusyEnds == (state # "IDLE") ~> (state = "IDLE")

=============================================================================
