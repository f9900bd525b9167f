-------------------------- MODULE DmaSystem_proofs --------------------------
(***************************************************************************)
(* First what the DMA channel guarantees under every sequence of register  *)
(* writes, memory answers and UART handshakes, for every size of System    *)
(* SRAM, word and descriptor chain.  Then what the channel, System SRAM,   *)
(* the UART and software that keeps to the descriptor contract achieve     *)
(* together, for every memory, every descriptor and every number of starts *)
(* and aborts.                                                             *)
(***************************************************************************)
EXTENDS DmaSystem, TLAPS

-----------------------------------------------------------------------------
(* The channel alone.                                                      *)

\* The firewall check is exact: it admits a range if and only if the range is
\* not empty and every byte of it lies in System SRAM, without wrapping around.
THEOREM RangeAllowedExact ==
  ASSUME NEW addr \in Word, NEW length \in Word
  PROVE  RangeAllowed(addr, length) <=>
           /\ length # 0
           /\ \A i \in 0 .. length - 1 :
                addr + i \in SramBase .. SramBase + SramSize - 1
<1>1. /\ SramBase \in Nat /\ SramSize \in Nat /\ addr \in Nat /\ length \in Nat
      /\ SramSize > 0
  BY DmaAssumption DEF Word
<1>2. CASE length = 0
  BY <1>1, <1>2 DEF RangeAllowed
<1>3. CASE length # 0
  <2>1. ASSUME RangeAllowed(addr, length), NEW i \in 0 .. length - 1
        PROVE  addr + i \in SramBase .. SramBase + SramSize - 1
    BY <1>1, <2>1 DEF RangeAllowed
  <2>2. ASSUME \A i \in 0 .. length - 1 :
                 addr + i \in SramBase .. SramBase + SramSize - 1
        PROVE  RangeAllowed(addr, length)
    <3>1. 0 \in 0 .. length - 1 /\ length - 1 \in 0 .. length - 1
      BY <1>1, <1>3
    <3>2. /\ addr + 0 \in SramBase .. SramBase + SramSize - 1
          /\ addr + (length - 1) \in SramBase .. SramBase + SramSize - 1
      BY <2>2, <3>1
    <3>. QED  BY <1>1, <1>3, <3>2 DEF RangeAllowed
  <2>. QED  BY <1>3, <2>1, <2>2
<1>. QED  BY <1>2, <1>3

-----------------------------------------------------------------------------

\* Register arithmetic stays within a word.
LEMMA ArithmeticType ==
  ASSUME NEW x \in Word, NEW k \in 0 .. 4
  PROVE  Add(x, k) \in Word /\ Sub(x, k) \in Word
BY DmaAssumption DEF Word, Add, Sub

\* Whether the channel is being aborted is a truth value.
LEMMA AbortingType ==
  ASSUME ctl \in CtlType, NEW cfg \in CfgWrites
  PROVE  Aborting(cfg) \in BOOLEAN
BY DEF CtlType, Aborting, AbortRequest

\* CTRL, STATUS and the reply keep their type under every write.
LEMMA CsrAfterType ==
  ASSUME csr \in CsrType, NEW cfg \in CfgWrites
  PROVE  CsrAfter(cfg) \in CsrType
<1>1. CASE cfg = NoCfg
  BY <1>1 DEF NoCfg, CsrAfter, CsrType
<1>2. CASE cfg \in CtrlWrites
  BY <1>2 DEF CtrlWrites, CsrAfter, CsrAfterCtrl, CsrType
<1>3. CASE cfg \in StatusWrites
  BY <1>3 DEF StatusWrites, CsrAfter, CsrAfterStatus, CsrType
<1>4. CASE cfg \in ParamWrites
  BY <1>4 DEF ParamWrites, CsrAfter, CsrType
<1>. QED  BY <1>1, <1>2, <1>3, <1>4 DEF CfgWrites

-----------------------------------------------------------------------------
(* Type correctness, one step per action.                                  *)

LEMMA TypeInit == DmaInit => DmaTypeOK
BY DmaAssumption DEF DmaInit, DmaTypeOK, DmaStates, CtlType, XferType, DescType,
                     CsrType, Word

LEMMA TypeStep == DmaTypeOK /\ [DmaNext]_dmaVars => DmaTypeOK'
<1>. SUFFICES ASSUME DmaTypeOK, [DmaNext]_dmaVars
              PROVE  DmaTypeOK'
  OBVIOUS
<1>1. CASE UNCHANGED dmaVars
  BY <1>1 DEF dmaVars, DmaTypeOK
<1>2. ASSUME NEW cfg \in CfgWrites, CfgAccepted(cfg), IdleStep(cfg)
      PROVE  DmaTypeOK'
  <2>. CsrAfter(cfg) \in CsrType
    BY CsrAfterType DEF DmaTypeOK
  <2>1. CASE IdleWrite(cfg)
    <3>1. cfg.reg \in {"SRC", "DST", "LEN", "DESC_HEAD"} => cfg.value \in Word
      BY DEF CfgWrites, CtrlWrites, StatusWrites, ParamWrites, NoCfg
    <3>2. xfer' \in XferType
      BY <2>1, <3>1 DEF IdleWrite, DmaTypeOK, XferType
    <3>3. desc' \in DescType
      BY <2>1, <3>1 DEF IdleWrite, DmaTypeOK, DescType
    <3>. QED  BY <2>1, <3>2, <3>3 DEF IdleWrite, DmaTypeOK
  <2>2. ASSUME IsStart(cfg), NEW refused \in BOOLEAN
        PROVE  CsrAtStart(cfg, refused) \in CsrType
    BY <2>2 DEF IsStart, CfgWrites, CtrlWrites, StatusWrites, ParamWrites, NoCfg,
                CsrAtStart, CsrType
  <2>3. CASE StartDescriptors(cfg)
    <3>. DEFINE refused == cfg.uart \/ ~DescriptorAddr(desc.head)
    <3>1. csr' \in CsrType
      BY <2>2, <2>3 DEF StartDescriptors
    <3>2. ctl' \in CtlType
      BY <2>3 DEF StartDescriptors, DmaTypeOK, CtlType
    <3>3. desc' \in DescType
      <4>1. /\ desc \in DescType /\ desc.head \in Word
            /\ 0 \in 0 .. MaxDescriptors /\ 0 \in 0 .. 7
        BY DmaAssumption DEF DmaTypeOK, DescType
      <4>2. /\ [desc EXCEPT !.count = 0] \in DescType
            /\ [desc EXCEPT !.count = 0, !.addr = desc.head, !.word = 0] \in DescType
        BY <4>1 DEF DescType
      <4>. QED  BY <2>3, <4>2 DEF StartDescriptors
    <3>4. state' \in DmaStates /\ xfer' \in XferType
      BY <2>3 DEF StartDescriptors, DmaTypeOK, DmaStates, RequestStates
    <3>. QED  BY <3>1, <3>2, <3>3, <3>4 DEF DmaTypeOK
  <2>4. CASE StartDirect(cfg)
    <3>1. csr' \in CsrType
      BY <2>2, <2>4 DEF StartDirect
    <3>2. ctl' \in CtlType
      BY <2>4 DEF StartDirect, DmaTypeOK, CtlType
    <3>3. xfer' \in XferType
      <4>1. xfer \in XferType /\ 0 \in Word /\ 0 \in 0 .. 3
        BY DmaAssumption DEF DmaTypeOK, Word
      <4>2. /\ [xfer EXCEPT !.byte = 0] \in XferType
            /\ [xfer EXCEPT !.byte = 0, !.bytes = 0] \in XferType
        BY <4>1 DEF XferType
      <4>. QED  BY <2>4, <4>2 DEF StartDirect
    <3>4. state' \in DmaStates /\ desc' \in DescType
      BY <2>4 DEF StartDirect, DmaTypeOK, DmaStates, RequestStates
    <3>. QED  BY <3>1, <3>2, <3>3, <3>4 DEF DmaTypeOK
  <2>. QED  BY <1>2, <2>1, <2>3, <2>4 DEF IdleStep
<1>3. ASSUME NEW cfg \in CfgWrites, Accept(cfg) \/ Withdraw(cfg) \/ Hold(cfg)
      PROVE  DmaTypeOK'
  <2>1. CsrAfter(cfg) \in CsrType /\ Aborting(cfg) \in BOOLEAN
    BY CsrAfterType, AbortingType DEF DmaTypeOK
  <2>2. ctl' \in CtlType
    BY <1>3, <2>1 DEF Accept, Withdraw, StopForAbort, Hold, DmaTypeOK, CtlType
  <2>3. state' \in DmaStates
    BY <1>3 DEF Accept, Withdraw, StopForAbort, StateAfterStop, Hold, DmaTypeOK,
                DmaStates, RequestStates, WaitStates, WaitOf
  <2>. QED  BY <1>3, <2>1, <2>2, <2>3 DEF Accept, Withdraw, Hold, DmaTypeOK
<1>4. ASSUME NEW cfg \in CfgWrites, NEW r \in Responses, RespStep(cfg, r)
      PROVE  DmaTypeOK'
  <2>1. /\ CsrAfter(cfg) \in CsrType /\ Aborting(cfg) \in BOOLEAN
        /\ r.data \in Word /\ r.err \in BOOLEAN
    BY CsrAfterType, AbortingType DEF DmaTypeOK, Responses
  <2>2. Advanced \in XferType
    <3>1. /\ xfer \in XferType
          /\ Add(xfer.src, 4) \in Word /\ Add(xfer.dst, 4) \in Word
          /\ Sub(xfer.len, 4) \in Word /\ Add(xfer.bytes, 4) \in Word
      BY ArithmeticType DEF DmaTypeOK, XferType
    <3>. QED  BY <3>1 DEF Advanced, XferType
  <2>3. CASE FetchWord(cfg, r) \/ FetchFail(cfg, r)
    <3>1. ctl' \in CtlType
      BY <2>1, <2>3 DEF FetchWord, FetchFail, DmaTypeOK, CtlType
    <3>2. desc' \in DescType
      <4>1. CASE FetchWord(cfg, r)
        <5>. DEFINE At(i, old) == IF desc.word = i THEN r.data ELSE old
        <5>1. /\ desc \in DescType /\ desc.word + 1 \in 0 .. 7
              /\ At(0, desc.next) \in Word /\ At(1, desc.src) \in Word
              /\ At(2, desc.dst) \in Word /\ At(3, desc.len) \in Word
              /\ At(4, desc.ctrl) \in Word
          BY <2>1, <4>1 DEF FetchWord, DmaTypeOK, DescType
        <5>. HIDE DEF At
        <5>2. [desc EXCEPT !.word = desc.word + 1,
                   !.next = At(0, desc.next), !.src = At(1, desc.src),
                   !.dst = At(2, desc.dst), !.len = At(3, desc.len),
                   !.ctrl = At(4, desc.ctrl)] \in DescType
          BY <5>1 DEF DescType
        <5>. QED  BY <4>1, <5>2 DEF FetchWord, Fetched, At
      <4>2. CASE FetchFail(cfg, r)
        BY <4>2 DEF FetchFail, DmaTypeOK
      <4>. QED  BY <2>3, <4>1, <4>2
    <3>3. csr' \in CsrType
      BY <2>1, <2>3 DEF FetchWord, FetchFail, CsrType
    <3>. QED  BY <2>3, <3>1, <3>2, <3>3 DEF FetchWord, FetchFail, DmaTypeOK,
                                            DmaStates, RequestStates
  <2>4. CASE RefuseDescriptor(cfg, r) \/ TakeDescriptor(cfg, r)
    <3>1. ctl' \in CtlType
      BY <2>1, <2>4 DEF RefuseDescriptor, TakeDescriptor, DmaTypeOK, CtlType
    <3>2. xfer' \in XferType
      <4>1. /\ xfer \in XferType /\ 0 \in Word
            /\ desc.src \in Word /\ desc.dst \in Word /\ desc.len \in Word
        BY DmaAssumption DEF DmaTypeOK, DescType, Word
      <4>2. /\ [xfer EXCEPT !.bytes = 0] \in XferType
            /\ [xfer EXCEPT !.src = desc.src, !.dst = desc.dst, !.len = desc.len,
                            !.bytes = 0] \in XferType
        BY <4>1 DEF XferType
      <4>. QED  BY <2>4, <4>2 DEF RefuseDescriptor, TakeDescriptor
    <3>3. desc' \in DescType
      BY <2>4, DmaAssumption DEF RefuseDescriptor, TakeDescriptor,
                                 DescriptorRefused, DmaTypeOK, DescType
    <3>. QED  BY <2>1, <2>4, <3>1, <3>2, <3>3 DEF RefuseDescriptor, TakeDescriptor,
                                         DmaTypeOK, DmaStates, RequestStates
  <2>5. CASE ReadDone(cfg, r) \/ WriteDone(cfg, r)
    <3>1. ctl' \in CtlType
      BY <2>5 DEF ReadDone, WriteDone, DmaTypeOK, CtlType
    <3>2. xfer' \in XferType
      BY <2>1, <2>2, <2>5 DEF ReadDone, WriteDone, DmaTypeOK, XferType
    <3>3. csr' \in CsrType
      BY <2>1, <2>5 DEF ReadDone, WriteDone, CsrType
    <3>. QED  BY <2>5, <3>1, <3>2, <3>3 DEF ReadDone, WriteDone, StateAfterStop,
                                            DmaTypeOK, DmaStates, RequestStates
  <2>6. CASE PayloadFail(cfg, r) \/ PayloadAbort(cfg, r) \/ AbortDrained(cfg, r)
    <3>1. ctl' \in CtlType
      BY <2>6 DEF PayloadFail, PayloadAbort, AbortDrained, StopForAbort, DmaTypeOK,
                  CtlType
    <3>2. csr' \in CsrType
      BY <2>1, <2>6 DEF PayloadFail, PayloadAbort, AbortDrained, CsrType
    <3>3. xfer' \in XferType
      BY <2>2, <2>6 DEF PayloadFail, PayloadAbort, AbortDrained, DmaTypeOK
    <3>. QED  BY <2>6, <3>1, <3>2, <3>3 DEF PayloadFail, PayloadAbort, AbortDrained,
                StopForAbort, StateAfterStop, DmaTypeOK, DmaStates, RequestStates
  <2>7. CASE WriteBackAbort(cfg, r) \/ WriteBackFail(cfg, r) \/ WriteBackNext(cfg, r)
    <3>1. ctl' \in CtlType
      BY <2>7 DEF WriteBackAbort, WriteBackFail, WriteBackNext, DmaTypeOK, CtlType
    <3>2. csr' \in CsrType
      BY <2>1, <2>7 DEF WriteBackAbort, WriteBackFail, WriteBackNext, CsrType
    <3>. QED  BY <2>7, <3>1, <3>2 DEF WriteBackAbort, WriteBackFail, WriteBackNext,
                                      DmaTypeOK, DmaStates, RequestStates
  <2>8. CASE DescriptorFinished(cfg, r)
    <3>1. ctl' \in CtlType
      <4>1. PICK more \in BOOLEAN : ctl' = [ctl EXCEPT !.active = ctl.active /\ more]
        BY <2>8 DEF DescriptorFinished
      <4>2. ctl \in CtlType /\ (ctl.active /\ more) \in BOOLEAN
        BY DEF DmaTypeOK
      <4>. QED  BY <4>1, <4>2 DEF CtlType
    <3>3. csr' \in CsrType
      BY <2>1, <2>8 DEF DescriptorFinished, CsrType
    <3>2. desc' \in DescType
      <4>1. desc \in DescType /\ desc.next \in Word /\ 0 \in 0 .. 7
        BY DEF DmaTypeOK, DescType
      <4>2. [desc EXCEPT !.addr = desc.next, !.word = 0] \in DescType
        BY <4>1 DEF DescType
      <4>. QED  BY <2>8, <4>1, <4>2 DEF DescriptorFinished
    <3>. QED  BY <2>8, <3>1, <3>2, <3>3 DEF DescriptorFinished, DmaTypeOK, DmaStates,
                                      RequestStates
  <2>. QED  BY <1>4, <2>3, <2>4, <2>5, <2>6, <2>7, <2>8 DEF RespStep
<1>5. ASSUME NEW cfg \in CfgWrites, UartByte(cfg) \/ UartAbort(cfg)
      PROVE  DmaTypeOK'
  <2>1. CsrAfter(cfg) \in CsrType
    BY CsrAfterType DEF DmaTypeOK
  <2>2. xfer' \in XferType
    <3>1. /\ Add(xfer.bytes, 1) \in Word /\ Sub(xfer.len, 1) \in Word
          /\ Add(xfer.src, 4) \in Word
      BY ArithmeticType DEF DmaTypeOK, XferType
    <3>2. CASE UartByte(cfg)
      <4>. DEFINE last == xfer.len = 1
                  word == ~last /\ xfer.byte = 3
                  newSrc  == IF word THEN Add(xfer.src, 4) ELSE xfer.src
                  newByte == IF last THEN xfer.byte
                             ELSE IF word THEN 0 ELSE xfer.byte + 1
      <4>1. xfer \in XferType /\ newSrc \in Word /\ newByte \in 0 .. 3
        BY <3>1 DEF DmaTypeOK, XferType
      <4>. HIDE DEF newSrc, newByte
      <4>2. [xfer EXCEPT !.bytes = Add(xfer.bytes, 1), !.len = Sub(xfer.len, 1),
                         !.src = newSrc, !.byte = newByte] \in XferType
        BY <3>1, <4>1 DEF XferType
      <4>. QED  BY <3>2, <4>2 DEF UartByte, newSrc, newByte
    <3>. QED  BY <1>5, <3>2 DEF UartAbort, DmaTypeOK
  <2>3. ctl' \in CtlType
    BY <1>5 DEF UartByte, UartAbort, DmaTypeOK, CtlType
  <2>4. csr' \in CsrType
    BY <1>5, <2>1 DEF UartByte, UartAbort, CsrType
  <2>. QED  BY <1>5, <2>2, <2>3, <2>4 DEF UartByte, UartAbort, DmaTypeOK, DmaStates,
                                    RequestStates
<1>. QED  BY <1>1, <1>2, <1>3, <1>4, <1>5 DEF DmaNext

\* Every register of the channel keeps its width and type, under every input.
THEOREM TypeCorrect == DmaSpec => []DmaTypeOK
<1>. QED  BY TypeInit, TypeStep, PTL DEF DmaSpec

-----------------------------------------------------------------------------
(* One outcome, and no payload after an abort.                             *)

WriteBackStates == {"WB_CTRL_REQ", "WB_CTRL_WAIT", "WB_STATUS_REQ",
                    "WB_STATUS_WAIT", "WB_BYTES_REQ", "WB_BYTES_WAIT"}

\* What makes OutcomeExclusive inductive: while the channel is busy, ERROR has a
\* cause that will keep DONE from being set, an abort that still has to be
\* served or a descriptor that will be handed back with ERROR.
ErrorHasCause ==
  csr.error /\ state # "IDLE" =>
    ctl.abort \/ (state \in WriteBackStates /\ ctl.derr)

Inv == DmaTypeOK /\ OutcomeExclusive /\ AbortStopsPayload /\ ErrorHasCause

\* What a register write does to DONE, ERROR and the abort of a busy channel.
LEMMA BusyWrite ==
  ASSUME DmaTypeOK, state # "IDLE", NEW cfg \in CfgWrites
  PROVE  /\ CsrAfter(cfg) \in CsrType
         /\ CsrAfter(cfg).done => csr.done
         /\ CsrAfter(cfg).error => csr.error \/ Aborting(cfg)
         /\ Aborting(cfg) \in BOOLEAN
         /\ ctl.abort => Aborting(cfg)
<1>1. CsrAfter(cfg) \in CsrType /\ Aborting(cfg) \in BOOLEAN
  BY CsrAfterType, AbortingType DEF DmaTypeOK
<1>2. csr \in CsrType /\ ctl \in CtlType
  BY DEF DmaTypeOK
<1>3. CASE cfg.reg = "CTRL"
  <2>1. cfg \in CtrlWrites
    BY <1>3 DEF CfgWrites, StatusWrites, ParamWrites, NoCfg
  <2>. QED  BY <1>1, <1>2, <1>3, <2>1 DEF CsrAfter, CsrAfterCtrl, CsrType, CtlType,
                                          CtrlWrites, Aborting, AbortRequest
<1>4. CASE cfg.reg = "STATUS"
  <2>1. cfg \in StatusWrites
    BY <1>4 DEF CfgWrites, CtrlWrites, ParamWrites, NoCfg
  <2>. QED  BY <1>1, <1>2, <1>4, <2>1 DEF CsrAfter, CsrAfterStatus, CsrType, CtlType,
                                          StatusWrites, Aborting, AbortRequest
<1>5. CASE cfg.reg \notin {"CTRL", "STATUS"}
  BY <1>1, <1>2, <1>5 DEF CsrAfter, CsrType, CtlType, Aborting, AbortRequest
<1>. QED  BY <1>3, <1>4, <1>5

\* A write to the idle channel does not bring DONE and ERROR together.
LEMMA IdleCsr ==
  ASSUME DmaTypeOK, OutcomeExclusive, state = "IDLE", NEW cfg \in CfgWrites
  PROVE  ~(CsrAfter(cfg).done /\ CsrAfter(cfg).error)
<1>1. csr \in CsrType
  BY DEF DmaTypeOK
<1>2. CASE cfg.reg = "CTRL"
  BY <1>1, <1>2 DEF CsrAfter, CsrAfterCtrl, CsrType, OutcomeExclusive
<1>3. CASE cfg.reg = "STATUS"
  BY <1>1, <1>3 DEF CsrAfter, CsrAfterStatus, CsrType, OutcomeExclusive
<1>4. CASE cfg.reg \notin {"CTRL", "STATUS"}
  BY <1>1, <1>4 DEF CsrAfter, CsrType, OutcomeExclusive
<1>. QED  BY <1>2, <1>3, <1>4

LEMMA InvInit == DmaInit => Inv
BY TypeInit DEF DmaInit, Inv, OutcomeExclusive, AbortStopsPayload, ErrorHasCause

LEMMA InvStep == Inv /\ [DmaNext]_dmaVars => Inv'
<1>. SUFFICES ASSUME Inv, [DmaNext]_dmaVars
              PROVE  Inv'
  OBVIOUS
<1>. /\ DmaTypeOK /\ DmaTypeOK'
     /\ csr \in CsrType /\ ctl \in CtlType /\ csr' \in CsrType /\ ctl' \in CtlType
  BY TypeStep DEF Inv, DmaTypeOK
<1>. SUFFICES OutcomeExclusive' /\ AbortStopsPayload' /\ ErrorHasCause'
  BY DEF Inv
<1>1. CASE UNCHANGED dmaVars
  BY <1>1 DEF dmaVars, Inv, OutcomeExclusive, AbortStopsPayload, ErrorHasCause
<1>2. ASSUME NEW cfg \in CfgWrites, IdleStep(cfg)
      PROVE  OutcomeExclusive' /\ AbortStopsPayload' /\ ErrorHasCause'
  <2>1. CASE IdleWrite(cfg)
    BY <2>1, IdleCsr DEF IdleWrite, Inv, OutcomeExclusive, AbortStopsPayload,
                         ErrorHasCause
  <2>2. CASE StartDescriptors(cfg)
    <3>. DEFINE refused == cfg.uart \/ ~DescriptorAddr(desc.head)
    <3>1. /\ ~csr'.done /\ ~ctl'.abort /\ (csr'.error <=> refused)
          /\ state' = IF refused THEN "IDLE" ELSE "FETCH_REQ"
      BY <2>2 DEF StartDescriptors, CsrAtStart, CtlType
    <3>. QED  BY <3>1 DEF OutcomeExclusive, AbortStopsPayload, ErrorHasCause
  <2>3. CASE StartDirect(cfg)
    <3>. DEFINE refused == ~DirectStartAllowed(cfg.uart)
    <3>1. /\ ~csr'.done /\ ~ctl'.abort /\ (csr'.error <=> refused)
          /\ state' = IF refused THEN "IDLE" ELSE "READ_REQ"
      BY <2>3 DEF StartDirect, CsrAtStart, CtlType
    <3>. QED  BY <3>1 DEF OutcomeExclusive, AbortStopsPayload, ErrorHasCause
  <2>. QED  BY <1>2, <2>1, <2>2, <2>3 DEF IdleStep
<1>3. ASSUME NEW cfg \in CfgWrites, state # "IDLE"
      PROVE  /\ ~csr.done /\ ~CsrAfter(cfg).done
             /\ CsrAfter(cfg) \in CsrType /\ Aborting(cfg) \in BOOLEAN
             /\ CsrAfter(cfg).error =>
                  Aborting(cfg) \/ (state \in WriteBackStates /\ ctl.derr)
             /\ ctl.abort => Aborting(cfg)
  BY <1>3, BusyWrite DEF Inv, OutcomeExclusive, ErrorHasCause
<1>4. ASSUME NEW cfg \in CfgWrites, Accept(cfg) \/ Withdraw(cfg) \/ Hold(cfg)
      PROVE  OutcomeExclusive' /\ AbortStopsPayload' /\ ErrorHasCause'
  <2>1. CASE Accept(cfg)
    <3>1. state # "IDLE" /\ csr' = CsrAfter(cfg)
      BY <2>1 DEF Accept, RequestStates
    <3>2. CASE Aborting(cfg) /\ state # "FETCH_REQ"
      <4>1. state' = "ABORT_WAIT" /\ ctl'.abort
        BY <2>1, <3>2 DEF Accept, CtlType
      <4>. QED  BY <1>3, <3>1, <4>1 DEF OutcomeExclusive, AbortStopsPayload,
                                        ErrorHasCause
    <3>3. CASE ~(Aborting(cfg) /\ state # "FETCH_REQ")
      <4>1. /\ state' = WaitOf[state] /\ ctl'.abort = Aborting(cfg)
            /\ ctl'.derr = ctl.derr
        BY <1>3, <2>1, <3>1, <3>3 DEF Accept, CtlType
      <4>2. /\ state' \in {"FETCH_WAIT", "READ_WAIT", "WRITE_WAIT"} \cup WriteBackStates
            /\ state \in WriteBackStates => state' \in WriteBackStates
        BY <2>1, <4>1 DEF Accept, WaitOf, RequestStates, WriteBackStates
      <4>. QED  BY <1>3, <3>1, <4>1, <4>2 DEF OutcomeExclusive, AbortStopsPayload,
                                              ErrorHasCause, WriteBackStates
    <3>. QED  BY <3>2, <3>3
  <2>2. CASE Withdraw(cfg)
    <3>1. /\ state # "IDLE" /\ csr' = CsrAfter(cfg)
          /\ state' = IF ctl.active THEN "WB_CTRL_REQ" ELSE "IDLE"
          /\ ctl'.derr
      BY <2>2 DEF Withdraw, StopForAbort, StateAfterStop, CtlType
    <3>. QED  BY <1>3, <3>1 DEF OutcomeExclusive, AbortStopsPayload, ErrorHasCause,
                                WriteBackStates
  <2>3. CASE Hold(cfg)
    <3>1. /\ state # "IDLE" /\ csr' = CsrAfter(cfg) /\ state' = state
          /\ ctl'.abort = Aborting(cfg) /\ (ctl.derr => ctl'.derr)
          /\ Aborting(cfg) => state \notin {"READ_REQ", "WRITE_REQ", "UART_TX_REQ"}
      BY <1>3, <2>3 DEF Hold, CtlType
    <3>. QED  BY <1>3, <3>1 DEF OutcomeExclusive, AbortStopsPayload, ErrorHasCause
  <2>. QED  BY <1>4, <2>1, <2>2, <2>3
<1>5. ASSUME NEW cfg \in CfgWrites, NEW r \in Responses, RespStep(cfg, r)
      PROVE  OutcomeExclusive' /\ AbortStopsPayload' /\ ErrorHasCause'
  <2>1. r.err \in BOOLEAN
    BY DEF Responses
  <2>2. CASE FetchWord(cfg, r)
    <3>1. /\ state = "FETCH_WAIT" /\ state' = "FETCH_REQ" /\ csr' = CsrAfter(cfg)
          /\ ctl'.abort = Aborting(cfg)
      BY <1>3, <2>2 DEF FetchWord, CtlType
    <3>. QED  BY <1>3, <3>1 DEF OutcomeExclusive, AbortStopsPayload, ErrorHasCause,
                                WriteBackStates
  <2>3. CASE FetchFail(cfg, r)
    <3>1. state = "FETCH_WAIT" /\ state' = "IDLE" /\ csr'.done = CsrAfter(cfg).done
      BY <1>3, <2>3 DEF FetchFail, CsrType
    <3>. QED  BY <1>3, <3>1 DEF OutcomeExclusive, AbortStopsPayload, ErrorHasCause
  <2>4. CASE RefuseDescriptor(cfg, r)
    <3>1. /\ state = "FETCH_WAIT" /\ state' = "WB_CTRL_REQ" /\ csr' = CsrAfter(cfg)
          /\ ctl'.derr
      BY <2>4 DEF RefuseDescriptor, CtlType
    <3>. QED  BY <1>3, <3>1 DEF OutcomeExclusive, AbortStopsPayload, ErrorHasCause,
                                WriteBackStates
  <2>5. CASE TakeDescriptor(cfg, r)
    <3>1. /\ state = "FETCH_WAIT" /\ csr' = CsrAfter(cfg) /\ ~Aborting(cfg)
          /\ ctl'.abort = ctl.abort
      BY <2>5 DEF TakeDescriptor, DescriptorRefused, CtlType
    <3>. QED  BY <1>3, <3>1 DEF OutcomeExclusive, AbortStopsPayload, ErrorHasCause,
                                WriteBackStates
  <2>6. CASE ReadDone(cfg, r) \/ WriteDone(cfg, r)
    <3>1. /\ state \in {"READ_WAIT", "WRITE_WAIT"} /\ ~Aborting(cfg)
          /\ ctl'.abort = ctl.abort
          /\ csr'.error = CsrAfter(cfg).error
          /\ state' # "IDLE" => csr'.done = CsrAfter(cfg).done
      BY <1>3, <2>6 DEF ReadDone, WriteDone, StateAfterStop, CtlType, CsrType
    <3>. QED  BY <1>3, <3>1 DEF OutcomeExclusive, AbortStopsPayload, ErrorHasCause,
                                WriteBackStates
  <2>7. CASE PayloadFail(cfg, r) \/ PayloadAbort(cfg, r) \/ AbortDrained(cfg, r)
    <3>1. /\ state # "IDLE" /\ csr'.done = CsrAfter(cfg).done
          /\ state' = IF ctl.active THEN "WB_CTRL_REQ" ELSE "IDLE"
          /\ ctl.active => ctl'.derr
      BY <1>3, <2>7 DEF PayloadFail, PayloadAbort, AbortDrained, StopForAbort,
                        StateAfterStop, CtlType, CsrType
    <3>. QED  BY <1>3, <3>1 DEF OutcomeExclusive, AbortStopsPayload, ErrorHasCause,
                                WriteBackStates
  <2>8. CASE WriteBackAbort(cfg, r) \/ WriteBackNext(cfg, r)
    <3>1. /\ state \in WriteBackStates /\ csr' = CsrAfter(cfg)
          /\ state' \in WriteBackStates
          /\ ctl'.derr \/ (ctl' = ctl /\ ~Aborting(cfg))
      BY <2>8 DEF WriteBackAbort, WriteBackNext, WriteBackWaits, WriteBackStates,
                  CtlType
    <3>. QED  BY <1>3, <3>1 DEF OutcomeExclusive, AbortStopsPayload, ErrorHasCause,
                                WriteBackStates
  <2>9. CASE WriteBackFail(cfg, r)
    <3>1. state # "IDLE" /\ state' = "IDLE" /\ csr'.done = CsrAfter(cfg).done
      BY <1>3, <2>9 DEF WriteBackFail, WriteBackWaits, CsrType
    <3>. QED  BY <1>3, <3>1 DEF OutcomeExclusive, AbortStopsPayload, ErrorHasCause
  <2>10. CASE DescriptorFinished(cfg, r)
    <3>. DEFINE more == ~ctl.derr /\ desc.next # 0
                c    == CsrAfter(cfg)
    <3>1. /\ state = "WB_BYTES_WAIT" /\ ~Aborting(cfg)
          /\ state' = IF more THEN "FETCH_REQ" ELSE "IDLE"
          /\ csr'.error <=> c.error \/ ctl.derr
          /\ csr'.done <=> c.done \/ ~(ctl.derr \/ more)
          /\ ctl'.abort = ctl.abort
      BY <1>3, <2>10 DEF DescriptorFinished, CsrType, CtlType
    <3>. QED  BY <1>3, <3>1 DEF OutcomeExclusive, AbortStopsPayload, ErrorHasCause
  <2>. QED  BY <1>5, <2>2, <2>3, <2>4, <2>5, <2>6, <2>7, <2>8, <2>9, <2>10
            DEF RespStep
<1>6. ASSUME NEW cfg \in CfgWrites, UartByte(cfg) \/ UartAbort(cfg)
      PROVE  OutcomeExclusive' /\ AbortStopsPayload' /\ ErrorHasCause'
  <2>1. CASE UartByte(cfg)
    <3>1. /\ state = "UART_TX_REQ" /\ ~Aborting(cfg) /\ ctl' = ctl
          /\ csr'.error = CsrAfter(cfg).error
          /\ state' # "IDLE" => csr'.done = CsrAfter(cfg).done
      BY <1>3, <2>1 DEF UartByte, CsrType
    <3>. QED  BY <1>3, <3>1 DEF OutcomeExclusive, AbortStopsPayload, ErrorHasCause,
                                WriteBackStates
  <2>2. CASE UartAbort(cfg)
    <3>1. state # "IDLE" /\ state' = "IDLE" /\ csr'.done = CsrAfter(cfg).done
      BY <1>3, <2>2 DEF UartAbort, CsrType
    <3>. QED  BY <1>3, <3>1 DEF OutcomeExclusive, AbortStopsPayload, ErrorHasCause
  <2>. QED  BY <1>6, <2>1, <2>2
<1>. QED  BY <1>1, <1>2, <1>4, <1>5, <1>6 DEF DmaNext

LEMMA Invariance == DmaSpec => []Inv
<1>. QED  BY InvInit, InvStep, PTL DEF DmaSpec

\* Software that polls STATUS never sees DONE beside ERROR, nor DONE while the
\* channel is busy, whatever it wrote, however memory and the UART answered.
THEOREM OneOutcome == DmaSpec => []OutcomeExclusive
<1>1. Inv => OutcomeExclusive
  BY DEF Inv
<1>. QED  BY <1>1, Invariance, PTL

\* After an abort the channel offers no further payload request or UART byte.
THEOREM AbortEffective == DmaSpec => []AbortStopsPayload
<1>1. Inv => AbortStopsPayload
  BY DEF Inv
<1>. QED  BY <1>1, Invariance, PTL

-----------------------------------------------------------------------------
(* The channel in its system.                                              *)

FetchStates   == {"FETCH_REQ", "FETCH_WAIT"}
PayloadStates == {"READ_REQ", "READ_WAIT", "WRITE_REQ", "WRITE_WAIT",
                  "UART_TX_REQ"}

\* A payload word of the job is on its way.
Moving == state \in PayloadStates \/ ctl.inflight

-----------------------------------------------------------------------------
(* First invariant: the channel and its bus, whatever software does.       *)

FieldsType  == [next : Word, src : Word, dst : Word, len : Word, ctrl : Word]
RequestType == [we : BOOLEAN, addr : SramWords, data : Word]

EnvTypes ==
  /\ mem \in [SramWords -> Word]
  /\ bus \in {NoBus} \cup RequestType
  /\ (bus # NoBus) <=> (state \in WaitStates)
  /\ job \in [src : Word, dst : Word, len : Word, uart : BOOLEAN,
              before : [PayloadWords -> Word]]
  /\ given \in [DescAddrs -> {NotGiven} \cup FieldsType]
  /\ sent \in Seq(Word \X (0 .. 3))
  /\ call # "none" => state = "IDLE"

\* The descriptor in work.
Path ==
  /\ state = "IDLE" => ~ctl.active
  /\ state \in FetchStates \cup WriteBackStates => ctl.active
  /\ ctl.active => DescriptorAddr(desc.addr) /\ ~csr.uart
  /\ state = "ABORT_WAIT" => ctl.abort
  /\ ctl.inflight => state = "ABORT_WAIT"
  /\ ctl.active /\ state \notin FetchStates => Own(desc.ctrl)
  /\ ctl.active /\ (state \in PayloadStates \/ (state \in WriteBackStates /\ ~ctl.derr)) =>
       DescriptorValid(desc) /\ job.len = desc.len
  /\ state \in WriteBackStates /\ ~ctl.derr => xfer.bytes = desc.len

\* How far the working registers have come within the job.
CopyAt ==
  /\ ~ctl.abort => ~csr.uart
  /\ state # "UART_TX_REQ"
  /\ job.src % 4 = 0 /\ job.dst % 4 = 0 /\ job.len % 4 = 0 /\ xfer.bytes % 4 = 0
  /\ RangeAllowed(job.dst, job.len)
  /\ xfer.src = job.src + xfer.bytes
  /\ xfer.dst = job.dst + xfer.bytes

StreamAt ==
  /\ ~ctl.abort => csr.uart
  /\ ~ctl.active /\ ~ctl.inflight /\ state \notin {"WRITE_REQ", "WRITE_WAIT"}
  /\ job.src % 4 = 0
  /\ xfer.byte = xfer.bytes % 4
  /\ xfer.src = job.src + (xfer.bytes - xfer.byte)
  /\ state \in {"READ_REQ", "READ_WAIT"} => xfer.byte = 0

Registers ==
  Moving =>
    /\ RangeAllowed(job.src, job.len)
    /\ xfer.bytes < job.len /\ xfer.len = job.len - xfer.bytes
    /\ ~job.uart => CopyAt
    /\ job.uart  => StreamAt

\* What was asked of System SRAM.
Asked ==
  /\ state \in {"READ_WAIT", "FETCH_WAIT"} => ~bus.we
  /\ state = "READ_WAIT"  => bus.addr = xfer.src
  /\ state = "FETCH_WAIT" => bus.addr = desc.addr + 4 * desc.word
  /\ state = "WRITE_WAIT" \/ ctl.inflight =>
       bus.we /\ bus.addr = xfer.dst /\ bus.data = xfer.data /\ ~job.uart
  /\ state = "WB_CTRL_WAIT" =>
       bus.we /\ bus.addr = desc.addr + 16 /\ ~Own(bus.data)
  /\ state = "WB_STATUS_WAIT" =>
       /\ bus.we /\ bus.addr = desc.addr + 20
       /\ ~ctl.abort => bus.data = IF ctl.derr THEN StatusError ELSE StatusDone
  /\ state = "WB_BYTES_WAIT" =>
       bus.we /\ bus.addr = desc.addr + 24 /\ bus.data = xfer.bytes
  /\ state = "ABORT_WAIT" /\ ~ctl.inflight /\ bus.we =>
       /\ ctl.active
       /\ bus.addr \in {desc.addr + 16, desc.addr + 20, desc.addr + 24}
       /\ bus.addr = desc.addr + 16 => ~Own(bus.data)

\* Of an abort that the busy channel works on, the handler knows, or ERROR is up
\* and no clearing write is on its way.
AbortTold ==
  /\ handler \in [at : {"none", "pending", "read"}, done : BOOLEAN, error : BOOLEAN]
  /\ told \in BOOLEAN
  /\ ctl.abort /\ state # "IDLE" => told \/ (csr.error /\ handler.at # "read")

Channel == Inv /\ EnvTypes /\ Path /\ Registers /\ Asked /\ AbortTold

-----------------------------------------------------------------------------
(* Second invariant: descriptors and payload, when software prepares       *)
(* descriptors only while the channel is idle.                             *)

DescFields == [next |-> desc.next, src |-> desc.src, dst |-> desc.dst,
               len |-> desc.len, ctrl |-> desc.ctrl]

Calls ==
  /\ Links(desc.head)
  /\ call = "SRC" => \E t \in Transfers : t.src = xfer.src
  /\ call = "DST" => \E t \in Transfers : t.src = xfer.src /\ t.dst = xfer.dst
  /\ call = "LEN" =>
       \E t \in Transfers : t.src = xfer.src /\ t.dst = xfer.dst /\ t.len = xfer.len

\* Descriptors in memory, and the one that the channel reads, works on, and
\* hands back.
Ownership ==
  /\ \A d \in DescAddrs : Promised(Fields(mem, d))
  /\ \A d \in DescAddrs : Own(mem[d + 16]) => given[d] = Fields(mem, d)
  /\ ctl.active => desc.addr \in DescAddrs
  /\ state \in FetchStates =>
       /\ desc.word > 0 => desc.next = mem[desc.addr]
       /\ desc.word > 1 => desc.src  = mem[desc.addr + 4]
       /\ desc.word > 2 => desc.dst  = mem[desc.addr + 8]
       /\ desc.word > 3 => desc.len  = mem[desc.addr + 12]
       /\ desc.word > 4 => desc.ctrl = mem[desc.addr + 16]
  /\ ctl.active /\ state \notin FetchStates =>
       given[desc.addr] = DescFields /\ Promised(DescFields)
  /\ state \in {"WB_STATUS_REQ", "WB_STATUS_WAIT", "WB_BYTES_REQ", "WB_BYTES_WAIT"} =>
       ~Own(mem[desc.addr + 16])
  /\ state \in {"WB_BYTES_REQ", "WB_BYTES_WAIT"} /\ ~ctl.abort =>
       mem[desc.addr + 20] = IF ctl.derr THEN StatusError ELSE StatusDone

\* The word in the channel is the source's word, and the job is apart.
Carried ==
  /\ Moving => Apart(job)
  /\ state \in {"WRITE_REQ", "WRITE_WAIT", "UART_TX_REQ"} \/ ctl.inflight =>
       xfer.data = job.before[xfer.src]
  /\ job.uart => state \in {"IDLE", "READ_REQ", "READ_WAIT", "UART_TX_REQ",
                            "ABORT_WAIT"} \cup FetchStates
  /\ job.uart /\ state = "ABORT_WAIT" => ~ctl.active

Contract == Calls /\ Ownership /\ Carried /\ CopyExact /\ UartStream

IInv == Channel /\ Contract

-----------------------------------------------------------------------------
(* Addresses.                                                              *)

LEMMA Aligned ==
  ASSUME NEW a \in Nat, NEW b \in Nat, a % 4 = 0, b % 4 = 0
  PROVE  (a + b) % 4 = 0
OBVIOUS

\* Every aligned byte of an admitted range is a word of System SRAM.
LEMMA RangeWord ==
  ASSUME NEW addr \in Word, NEW length \in Word, RangeAllowed(addr, length),
         NEW i \in Nat, i < length, (addr + i) % 4 = 0
  PROVE  addr + i \in SramWords /\ addr + i \in Word
<1>1. /\ WordMod \in Nat /\ SramBase \in Nat /\ SramSize \in Nat
      /\ SramBase + SramSize <= WordMod /\ addr \in Nat /\ length \in Nat
  BY DmaAssumption DEF Word
<1>2. addr + i \in SramBase .. SramBase + SramSize - 1
  BY <1>1 DEF RangeAllowed
<1>. QED  BY <1>1, <1>2, MemoryAssumption DEF Word

LEMMA RangeEnd ==
  ASSUME NEW addr \in Word, NEW length \in Word, RangeAllowed(addr, length)
  PROVE  addr + length <= WordMod
BY DmaAssumption DEF Word, RangeAllowed

LEMMA SramWordsType ==
  SramWords \subseteq Word /\ \A w \in SramWords : w % 4 = 0
<1>1. /\ WordMod \in Nat /\ SramBase \in Nat /\ SramSize \in Nat
      /\ SramBase + SramSize <= WordMod
  BY DmaAssumption
<1>2. /\ \A w \in SramBase .. SramBase + SramSize - 1 : w \in Word
  BY <1>1 DEF Word
<1>. QED  BY <1>2, MemoryAssumption

\* The eight words of a descriptor are there, and no address wraps around.
LEMMA DescriptorWord ==
  ASSUME NEW a \in Word, DescriptorAddr(a), NEW i \in 0 .. 7
  PROVE  a + 4 * i \in SramWords /\ Add(a, 4 * i) = a + 4 * i
<1>1. a \in Nat /\ a % 32 = 0 /\ RangeAllowed(a, 32) /\ 32 \in Word
  BY DmaAssumption DEF DescriptorAddr, Word
<1>2. 4 * i \in Nat /\ 4 * i < 32 /\ (a + 4 * i) % 4 = 0
  BY <1>1
<1>3. a + 4 * i \in SramWords /\ a + 4 * i \in Word
  BY <1>1, <1>2, RangeWord
<1>. QED  BY <1>3, DmaAssumption DEF Add, Word

LEMMA WordsOf ==
  ASSUME NEW d \in DescAddrs
  PROVE  /\ d \in Nat /\ d % 32 = 0
         /\ {d, d + 4, d + 8, d + 12, d + 16, d + 20, d + 24, d + 28}
              \subseteq SramWords \cap DescWords
<1>1. d \in Word /\ DescriptorAddr(d) /\ d \in Nat /\ d % 32 = 0
  BY MemoryAssumption, DmaAssumption DEF Word, DescriptorAddr
<1>2. \A i \in 0 .. 7 : d + 4 * i \in SramWords /\ d + 4 * i \in DescWords
  BY <1>1, DescriptorWord DEF DescWords
<1>3. /\ d + 4 * 0 = d      /\ d + 4 * 1 = d + 4  /\ d + 4 * 2 = d + 8
      /\ d + 4 * 3 = d + 12 /\ d + 4 * 4 = d + 16 /\ d + 4 * 5 = d + 20
      /\ d + 4 * 6 = d + 24 /\ d + 4 * 7 = d + 28
  BY <1>1
<1>4. {0, 1, 2, 3, 4, 5, 6, 7} \subseteq 0 .. 7
  OBVIOUS
<1>. QED  BY <1>1, <1>2, <1>3, <1>4

LEMMA FieldsInMemory ==
  ASSUME NEW m \in [SramWords -> Word], NEW d \in DescAddrs
  PROVE  Fields(m, d) \in FieldsType
BY WordsOf DEF Fields, FieldsType

-----------------------------------------------------------------------------
(* What software writes.                                                   *)

LEMMA SwWritesType == desc.head \in Word => SwWrites \subseteq CfgWrites
<1>1. \A h \in Heads : h \in Word
  BY SoftwareAssumption
<1>2. \A t \in Transfers : t.src \in Word /\ t.dst \in Word /\ t.len \in Word
  BY SoftwareAssumption
<1>3. \A a, b, c, d \in BOOLEAN : Ctrl(a, b, c, d) \in CtrlWrites
  BY DEF Ctrl, CtrlWrites
<1>4. 0 \in Word
  BY DmaAssumption DEF Word
<1>5. ClearStatus \in StatusWrites
  BY DEF ClearStatus, StatusWrites
<1>6. IdleWrites \subseteq ParamWrites \cup CtrlWrites \cup StatusWrites
  BY <1>1, <1>2, <1>3, <1>5 DEF IdleWrites, ParamWrites
<1>7. BusyWrites \subseteq ParamWrites \cup CtrlWrites
  <2>1. [reg |-> "SRC", value |-> 0] \in ParamWrites
    BY <1>4 DEF ParamWrites
  <2>2. Ctrl(TRUE, FALSE, FALSE, FALSE) \in CtrlWrites
    BY <1>3
  <2>. QED  BY <2>1, <2>2 DEF BusyWrites
<1>. QED  BY <1>5, <1>6, <1>7 DEF SwWrites, CfgWrites

\* What a write to the busy channel does to the bits that software sees: only
\* an abort changes the mode, and nothing but the handler takes ERROR back.
LEMMA BusySoftware ==
  ASSUME DmaTypeOK, state # "IDLE", NEW cfg \in SwWrites
  PROVE  /\ cfg \in CfgWrites /\ ~IsStart(cfg)
         /\ CsrAfter(cfg) \in CsrType
         /\ Aborting(cfg) \in BOOLEAN /\ (ctl.abort => Aborting(cfg))
         /\ CsrAfter(cfg).uart => csr.uart
         /\ ~Aborting(cfg) => CsrAfter(cfg).uart = csr.uart
         /\ csr.error /\ handler.at # "read" => CsrAfter(cfg).error
         /\ Aborting(cfg) /\ ~ctl.abort => CsrAfter(cfg).error /\ handler.at # "read"
         /\ CsrAfter(cfg).done => csr.done
<1>1. desc.head \in Word /\ csr \in CsrType /\ ctl \in CtlType
  BY DEF DmaTypeOK, DescType
<1>2. cfg \in CfgWrites
  BY <1>1, SwWritesType
<1>3. \/ cfg = NoCfg
      \/ cfg = ClearStatus /\ handler.at = "read"
      \/ cfg \in BusyWrites /\ handler.at # "read"
  BY DEF SwWrites
<1>. /\ CsrAfter(cfg) \in CsrType /\ Aborting(cfg) \in BOOLEAN
     /\ ctl.abort => Aborting(cfg)
  BY <1>2, BusyWrite
<1>4. CASE cfg = NoCfg
  BY <1>1, <1>2, <1>4 DEF NoCfg, IsStart, CsrAfter, CsrType, Aborting, AbortRequest
<1>5. CASE cfg = ClearStatus /\ handler.at = "read"
  BY <1>1, <1>2, <1>5 DEF ClearStatus, IsStart, CsrAfter, CsrAfterStatus, CsrType,
                          Aborting, AbortRequest
<1>6. CASE cfg = [reg |-> "SRC", value |-> 0]
  BY <1>1, <1>2, <1>6 DEF IsStart, CsrAfter, CsrType, Aborting, AbortRequest
<1>7. CASE cfg = Ctrl(TRUE, FALSE, FALSE, FALSE) /\ handler.at # "read"
  BY <1>1, <1>2, <1>7 DEF Ctrl, IsStart, CsrAfter, CsrAfterCtrl, CsrType, Aborting,
                          AbortRequest
<1>. QED  BY <1>3, <1>4, <1>5, <1>6, <1>7 DEF BusyWrites

-----------------------------------------------------------------------------
(* Every edge of the system is an edge of the channel.                     *)

LEMMA Answer ==
  ASSUME EnvTypes, bus # NoBus, NEW err \in BOOLEAN
  PROVE  bus \in RequestType /\ [data |-> mem[bus.addr], err |-> err] \in Responses
<1>1. bus \in RequestType /\ mem \in [SramWords -> Word]
  BY DEF EnvTypes
<1>2. mem[bus.addr] \in Word
  BY <1>1 DEF RequestType
<1>. QED  BY <1>1, <1>2 DEF Responses

LEMMA NextIsDma == DmaTypeOK /\ EnvTypes /\ [Next]_vars => [DmaNext]_dmaVars
<1>. SUFFICES ASSUME DmaTypeOK, EnvTypes, [Next]_vars
              PROVE  DmaNext \/ UNCHANGED dmaVars
  OBVIOUS
<1>1. desc.head \in Word
  BY DEF DmaTypeOK, DescType
<1>2. CASE SoftwareStep \/ PlicSamples \/ HandlerReads \/ UNCHANGED vars
  BY <1>2 DEF SoftwareStep, SwGive, SwFill, PlicSamples, HandlerReads, vars
<1>3. ASSUME NEW cfg \in SwWrites,
             \/ IdleEdge(cfg) \/ HoldEdge(cfg) \/ WithdrawEdge(cfg) \/ AcceptEdge(cfg)
             \/ \E ready \in BOOLEAN : UartEdge(cfg, ready)
      PROVE  DmaNext
  <2>1. cfg \in CfgWrites
    BY <1>1, SwWritesType
  <2>. QED  BY <1>3, <2>1 DEF IdleEdge, HoldEdge, WithdrawEdge, AcceptEdge, UartEdge,
                              Software, DmaNext
<1>4. ASSUME NEW cfg \in SwWrites, NEW err \in BOOLEAN, RespondEdge(cfg, err)
      PROVE  DmaNext
  <2>. DEFINE r == [data |-> mem[bus.addr], err |-> err]
  <2>1. cfg \in CfgWrites
    BY <1>1, SwWritesType
  <2>2. RespStep(cfg, r) /\ CfgAccepted(cfg) /\ r \in Responses
    BY <1>4, Answer DEF RespondEdge, Software
  <2>. HIDE DEF r
  <2>. QED  BY <2>1, <2>2 DEF DmaNext
<1>. QED  BY <1>2, <1>3, <1>4 DEF Next

-----------------------------------------------------------------------------
(* The first invariant is inductive, one lemma per edge.                   *)

LEMMA ChannelInit == Init => Channel
<1>. SUFFICES ASSUME Init PROVE Channel
  OBVIOUS
<1>1. Inv
  BY InvInit DEF Init
<1>2. EnvTypes
  <2>1. 0 \in Word /\ Memory0 \in [SramWords -> Word]
    BY DmaAssumption, MemoryAssumption DEF Word
  <2>2. Payload(Memory0) \in [PayloadWords -> Word]
    BY <2>1 DEF Payload, PayloadWords
  <2>3. \A d \in DescAddrs : Fields(Memory0, d) \in FieldsType
    BY <2>1, FieldsInMemory
  <2>4. given \in [DescAddrs -> {NotGiven} \cup FieldsType]
    BY <2>3 DEF Init
  <2>. QED  BY <2>1, <2>2, <2>4 DEF Init, EnvTypes, DmaInit, WaitStates
<1>3. Path /\ Registers /\ Asked
  BY DEF Init, DmaInit, Path, Registers, Asked, Moving, PayloadStates, FetchStates,
         WriteBackStates
<1>4. AbortTold
  BY DEF Init, DmaInit, AbortTold, NoIrq
<1>. QED  BY <1>1, <1>2, <1>3, <1>4 DEF Channel

\* While the channel is busy no call of the driver is under way.
LEMMA BusyCounted ==
  ASSUME DmaTypeOK, EnvTypes, state # "IDLE", NEW cfg \in SwWrites, Counted(cfg)
  PROVE  call' = "none"
BY BusySoftware DEF Counted, EnvTypes

LEMMA HoldChannel ==
  ASSUME Channel, NEW cfg \in SwWrites, HoldEdge(cfg)
  PROVE  EnvTypes' /\ Path' /\ Registers' /\ Asked'
<1>. /\ DmaTypeOK /\ EnvTypes /\ Path /\ Registers /\ Asked
     /\ ctl \in CtlType /\ csr \in CsrType
  BY DEF Channel, Inv, DmaTypeOK
<1>1. state # "IDLE"
  BY DEF HoldEdge, Hold
<1>2. /\ state' = state /\ xfer' = xfer /\ desc' = desc /\ mem' = mem /\ bus' = bus
      /\ given' = given /\ job' = job /\ sent' = sent
      /\ csr' = CsrAfter(cfg)
  BY DEF HoldEdge, Hold
<1>3. /\ ctl'.abort = Aborting(cfg) /\ ctl'.inflight = ctl.inflight
      /\ ctl'.active = ctl.active /\ (~ctl'.derr => ~ctl.derr)
      /\ state \in WaitStates => ctl'.derr = ctl.derr
  BY BusySoftware, <1>1 DEF HoldEdge, Hold, CtlType, WaitStates
<1>4. /\ ctl.abort => ctl'.abort
      /\ csr'.uart => csr.uart
      /\ ~ctl'.abort => csr'.uart = csr.uart
  BY <1>1, <1>2, <1>3, BusySoftware DEF Path
<1>5. EnvTypes'
  BY <1>1, <1>2, BusyCounted DEF HoldEdge, Software, EnvTypes
<1>6. Path'
  BY <1>1, <1>2, <1>3, <1>4 DEF Path
<1>7. Registers'
  BY <1>2, <1>3, <1>4 DEF Registers, Moving, CopyAt, StreamAt
<1>8. Asked'
  BY <1>2, <1>3, <1>4 DEF Asked, WaitStates
<1>. QED  BY <1>5, <1>6, <1>7, <1>8

LEMMA WithdrawChannel ==
  ASSUME Channel, NEW cfg \in SwWrites, WithdrawEdge(cfg)
  PROVE  EnvTypes' /\ Path' /\ Registers' /\ Asked'
<1>. /\ DmaTypeOK /\ EnvTypes /\ Path /\ Registers /\ Asked
     /\ ctl \in CtlType /\ csr \in CsrType
  BY DEF Channel, Inv, DmaTypeOK
<1>1. state \in {"READ_REQ", "WRITE_REQ"} /\ Aborting(cfg)
  BY DEF WithdrawEdge, Withdraw
<1>2. /\ state' = (IF ctl.active THEN "WB_CTRL_REQ" ELSE "IDLE")
      /\ xfer' = xfer /\ desc' = desc /\ mem' = mem /\ bus' = bus
      /\ given' = given /\ job' = job /\ sent' = sent
      /\ csr' = CsrAfter(cfg)
  BY DEF WithdrawEdge, Withdraw, StopForAbort, StateAfterStop
<1>3. /\ ctl'.abort = ctl.active /\ ctl'.inflight = ctl.inflight
      /\ ctl'.active = ctl.active /\ ctl'.derr
  BY DEF WithdrawEdge, Withdraw, StopForAbort, CtlType
<1>4. csr'.uart => csr.uart
  BY <1>1, <1>2, BusySoftware DEF Path
<1>5. EnvTypes'
  <2>1. state' \notin WaitStates /\ state \notin WaitStates
    BY <1>1, <1>2 DEF WaitStates
  <2>2. call' = "none"
    BY <1>1, BusyCounted DEF WithdrawEdge, Software
  <2>. QED  BY <1>2, <2>1, <2>2 DEF EnvTypes
<1>6. ~ctl.inflight
  BY <1>1 DEF Path
<1>7. Path'
  BY <1>1, <1>2, <1>3, <1>4, <1>6 DEF Path, FetchStates, PayloadStates, WriteBackStates
<1>8. Registers'
  BY <1>2, <1>3, <1>6 DEF Registers, Moving, PayloadStates
<1>9. Asked'
  BY <1>2, <1>3, <1>6 DEF Asked
<1>. QED  BY <1>5, <1>7, <1>8, <1>9

\* What the channel asks for is a word of System SRAM: the next word of the
\* descriptor, of the payload, or of the write-back.
LEMMA Requests ==
  ASSUME Channel, state \in RequestStates
  PROVE  /\ MemRequest \in RequestType
         /\ MemRequest.we = (state \notin {"FETCH_REQ", "READ_REQ"})
         /\ state = "FETCH_REQ" => MemRequest.addr = desc.addr + 4 * desc.word
         /\ state = "READ_REQ"  => MemRequest.addr = xfer.src
         /\ state = "WRITE_REQ" => MemRequest.addr = xfer.dst /\ MemRequest.data = xfer.data
         /\ state = "WB_CTRL_REQ" =>
              MemRequest.addr = desc.addr + 16 /\ ~Own(MemRequest.data)
         /\ state = "WB_STATUS_REQ" =>
              /\ MemRequest.addr = desc.addr + 20
              /\ MemRequest.data = IF ctl.derr THEN StatusError ELSE StatusDone
         /\ state = "WB_BYTES_REQ" =>
              MemRequest.addr = desc.addr + 24 /\ MemRequest.data = xfer.bytes
<1>. /\ DmaTypeOK /\ EnvTypes /\ Path /\ Registers
     /\ ctl \in CtlType /\ xfer \in XferType /\ desc \in DescType
     /\ WordMod \in Nat /\ WordMod > 64
  BY DmaAssumption DEF Channel, Inv, DmaTypeOK
<1>1. /\ xfer.bytes \in Word /\ xfer.data \in Word /\ xfer.byte \in 0 .. 3
      /\ desc.addr \in Word /\ desc.ctrl \in Word /\ desc.word \in 0 .. 7
      /\ job.src \in Word /\ job.dst \in Word /\ job.len \in Word
  BY DEF XferType, DescType, EnvTypes
<1>n. xfer.bytes \in Nat /\ job.src \in Nat /\ job.dst \in Nat /\ job.len \in Nat
  BY <1>1 DEF Word
<1>2. MemRequest = [we |-> MemRequest.we, addr |-> MemRequest.addr,
                    data |-> MemRequest.data]
      /\ MemRequest.we = (state \notin {"FETCH_REQ", "READ_REQ"})
  BY DEF MemRequest
<1>3. SUFFICES /\ MemRequest.addr \in SramWords /\ MemRequest.data \in Word
               /\ state = "FETCH_REQ" => MemRequest.addr = desc.addr + 4 * desc.word
               /\ state = "READ_REQ"  => MemRequest.addr = xfer.src
               /\ state = "WRITE_REQ" =>
                    MemRequest.addr = xfer.dst /\ MemRequest.data = xfer.data
               /\ state = "WB_CTRL_REQ" =>
                    MemRequest.addr = desc.addr + 16 /\ ~Own(MemRequest.data)
               /\ state = "WB_STATUS_REQ" =>
                    /\ MemRequest.addr = desc.addr + 20
                    /\ MemRequest.data = IF ctl.derr THEN StatusError ELSE StatusDone
               /\ state = "WB_BYTES_REQ" =>
                    MemRequest.addr = desc.addr + 24 /\ MemRequest.data = xfer.bytes
  BY <1>2 DEF RequestType
<1>4. CASE state = "FETCH_REQ"
  <2>1. MemRequest.addr = Add(desc.addr, 4 * desc.word) /\ MemRequest.data = 0
    BY <1>4 DEF MemRequest
  <2>2. DescriptorAddr(desc.addr)
    BY <1>4 DEF Path, FetchStates
  <2>. QED  BY <1>1, <1>4, <2>1, <2>2, DescriptorWord DEF Word
<1>5. CASE state = "READ_REQ"
  <2>1. MemRequest.addr = xfer.src /\ MemRequest.data = xfer.data
    BY <1>5 DEF MemRequest
  <2>2. /\ RangeAllowed(job.src, job.len) /\ xfer.bytes < job.len
        /\ xfer.src = job.src + xfer.bytes /\ (job.src + xfer.bytes) % 4 = 0
    <3>1. CASE job.uart
      <4>1. xfer.byte = 0 /\ xfer.byte = xfer.bytes % 4 /\ job.src % 4 = 0
            /\ xfer.src = job.src + (xfer.bytes - xfer.byte)
        BY <1>5, <3>1 DEF Registers, Moving, PayloadStates, StreamAt
      <4>2. /\ xfer.bytes % 4 = 0 /\ job.src % 4 = 0
            /\ xfer.src = job.src + (xfer.bytes - 0)
        BY <4>1
      <4>3. (job.src + xfer.bytes) % 4 = 0
        BY <1>n, <4>2, Aligned
      <4>4. xfer.src = job.src + xfer.bytes
        BY <1>n, <4>2
      <4>. QED  BY <1>5, <4>3, <4>4 DEF Registers, Moving, PayloadStates
    <3>2. CASE ~job.uart
      <4>1. xfer.bytes % 4 = 0 /\ job.src % 4 = 0 /\ xfer.src = job.src + xfer.bytes
        BY <1>5, <3>2 DEF Registers, Moving, PayloadStates, CopyAt
      <4>2. (job.src + xfer.bytes) % 4 = 0
        BY <1>n, <4>1
      <4>. QED  BY <1>5, <4>1, <4>2 DEF Registers, Moving, PayloadStates
    <3>. QED  BY <3>1, <3>2
  <2>3. xfer.src \in SramWords
    BY <1>1, <1>n, <2>2, RangeWord
  <2>. QED  BY <1>1, <1>5, <2>1, <2>3
<1>6. CASE state = "WRITE_REQ"
  <2>1. MemRequest.addr = xfer.dst /\ MemRequest.data = xfer.data
    BY <1>6 DEF MemRequest
  <2>2. /\ RangeAllowed(job.dst, job.len) /\ xfer.bytes < job.len
        /\ xfer.dst = job.dst + xfer.bytes
        /\ job.dst % 4 = 0 /\ xfer.bytes % 4 = 0
    BY <1>6 DEF Registers, Moving, PayloadStates, CopyAt, StreamAt
  <2>3. (job.dst + xfer.bytes) % 4 = 0
    BY <1>1, <2>2 DEF Word
  <2>4. xfer.dst \in SramWords
    BY <1>1, <2>2, <2>3, RangeWord DEF Word
  <2>. QED  BY <1>1, <1>6, <2>1, <2>4
<1>7. CASE state \in {"WB_CTRL_REQ", "WB_STATUS_REQ", "WB_BYTES_REQ"}
  <2>1. DescriptorAddr(desc.addr) /\ desc.addr \in Nat
    BY <1>1, <1>7 DEF Path, WriteBackStates, Word
  <2>2. /\ Add(desc.addr, 16) = desc.addr + 16 /\ desc.addr + 16 \in SramWords
        /\ Add(desc.addr, 20) = desc.addr + 20 /\ desc.addr + 20 \in SramWords
        /\ Add(desc.addr, 24) = desc.addr + 24 /\ desc.addr + 24 \in SramWords
    <3>1. /\ 4 \in 0 .. 7 /\ 5 \in 0 .. 7 /\ 6 \in 0 .. 7
          /\ 4 * 4 = 16 /\ 4 * 5 = 20 /\ 4 * 6 = 24
      OBVIOUS
    <3>. QED  BY <1>1, <2>1, <3>1, DescriptorWord
  <2>3. CASE state = "WB_CTRL_REQ"
    <3>1. /\ MemRequest.addr = Add(desc.addr, 16)
          /\ MemRequest.data = desc.ctrl - (desc.ctrl % 2)
      BY <2>3 DEF MemRequest
    <3>2. MemRequest.data \in Word /\ ~Own(MemRequest.data)
      BY <1>1, <3>1 DEF Word, Own
    <3>. QED  BY <2>2, <2>3, <3>1, <3>2
  <2>4. CASE state = "WB_STATUS_REQ"
    <3>1. /\ MemRequest.addr = Add(desc.addr, 20)
          /\ MemRequest.data = IF ctl.derr THEN StatusError ELSE StatusDone
      BY <2>4 DEF MemRequest
    <3>. QED  BY <2>2, <2>4, <3>1 DEF StatusError, StatusDone, Word
  <2>5. CASE state = "WB_BYTES_REQ"
    <3>1. MemRequest.addr = Add(desc.addr, 24) /\ MemRequest.data = xfer.bytes
      BY <2>5 DEF MemRequest
    <3>. QED  BY <1>1, <2>2, <2>5, <3>1
  <2>. QED  BY <1>7, <2>3, <2>4, <2>5
<1>. QED  BY <1>4, <1>5, <1>6, <1>7 DEF RequestStates

LEMMA AcceptChannel ==
  ASSUME Channel, NEW cfg \in SwWrites, AcceptEdge(cfg)
  PROVE  EnvTypes' /\ Path' /\ Registers' /\ Asked'
<1>. /\ DmaTypeOK /\ EnvTypes /\ Path /\ Registers /\ Asked
     /\ ctl \in CtlType /\ csr \in CsrType
  BY DEF Channel, Inv, DmaTypeOK
<1>. DEFINE drain == Aborting(cfg) /\ state # "FETCH_REQ"
<1>1. state \in RequestStates /\ state # "IDLE"
  BY DEF AcceptEdge, Accept, RequestStates
<1>2. /\ xfer' = xfer /\ desc' = desc /\ mem' = mem /\ bus' = MemRequest
      /\ given' = given /\ job' = job /\ sent' = sent
      /\ csr' = CsrAfter(cfg)
      /\ state' = IF drain THEN "ABORT_WAIT" ELSE WaitOf[state]
  BY DEF AcceptEdge, Accept
<1>3. /\ ctl'.abort = Aborting(cfg) /\ ctl'.active = ctl.active
      /\ IF drain THEN ctl'.derr /\ ctl'.inflight = (state = "WRITE_REQ")
                  ELSE ctl'.derr = ctl.derr /\ ctl'.inflight = ctl.inflight
  BY <1>1, BusySoftware DEF AcceptEdge, Accept, CtlType
<1>4. /\ ctl.abort => ctl'.abort
      /\ csr'.uart => csr.uart
      /\ ~ctl'.abort => csr'.uart = csr.uart
  BY <1>1, <1>2, <1>3, BusySoftware DEF Path
<1>5. ~ctl.inflight
  BY <1>1 DEF Path, RequestStates
<1>6. EnvTypes'
  <2>1. state' \in WaitStates
    BY <1>1, <1>2 DEF WaitStates, RequestStates, WaitOf
  <2>2. call' = "none"
    BY <1>1, BusyCounted DEF AcceptEdge, Software
  <2>3. bus' \in RequestType /\ bus' # NoBus
    BY <1>1, <1>2, Requests DEF RequestType, NoBus
  <2>. QED  BY <1>2, <2>1, <2>2, <2>3 DEF EnvTypes
<1>7. CASE drain
  <2>1. state' = "ABORT_WAIT" /\ state # "FETCH_REQ"
    BY <1>2, <1>7
  <2>2. Path'
    BY <1>1, <1>2, <1>3, <1>4, <1>7, <2>1
       DEF Path, FetchStates, PayloadStates, WriteBackStates, RequestStates
  <2>3. Registers'
    BY <1>2, <1>3, <1>4, <1>7, <2>1
       DEF Registers, Moving, PayloadStates, CopyAt, StreamAt
  <2>4. Asked'
    <3>1. state = "WRITE_REQ" => ~job.uart
      BY DEF Registers, Moving, PayloadStates, StreamAt
    <3>2. state \in WriteBackStates => ctl.active
      BY DEF Path
    <3>3. desc.addr \in Nat
      BY DmaAssumption DEF Channel, Inv, DmaTypeOK, DescType, Word
    <3>4. ctl'.inflight = (state = "WRITE_REQ")
      BY <1>3, <1>7
    <3>5. CASE state \in {"READ_REQ", "WRITE_REQ"}
      BY <1>2, <2>1, <3>1, <3>4, <3>5, <1>1, Requests DEF Asked
    <3>6. CASE state \in WriteBackStates
      <4>1. /\ ~ctl'.inflight /\ ctl'.active
            /\ bus'.addr \in {desc.addr + 16, desc.addr + 20, desc.addr + 24}
            /\ bus'.addr = desc.addr + 16 => ~Own(bus'.data)
        <5>1. state \in {"WB_CTRL_REQ", "WB_STATUS_REQ", "WB_BYTES_REQ"}
          BY <1>1, <3>6 DEF RequestStates, WriteBackStates
        <5>2. ~ctl'.inflight /\ ctl'.active
          BY <1>3, <3>2, <3>4, <3>6, <5>1
        <5>3. /\ state = "WB_CTRL_REQ" =>
                   bus'.addr = desc.addr + 16 /\ ~Own(bus'.data)
              /\ state = "WB_STATUS_REQ" => bus'.addr = desc.addr + 20
              /\ state = "WB_BYTES_REQ"  => bus'.addr = desc.addr + 24
          BY <1>1, <1>2, Requests
        <5>4. /\ desc.addr + 20 # desc.addr + 16 /\ desc.addr + 24 # desc.addr + 16
          BY <3>3
        <5>. QED  BY <5>1, <5>2, <5>3, <5>4
      <4>. QED  BY <1>2, <2>1, <4>1 DEF Asked
    <3>. QED  BY <1>1, <2>1, <3>5, <3>6 DEF RequestStates, WriteBackStates
  <2>. QED  BY <1>6, <2>2, <2>3, <2>4
<1>8. CASE ~drain
  <2>1. state' = WaitOf[state] /\ ctl'.derr = ctl.derr /\ ~ctl'.inflight
    BY <1>2, <1>3, <1>5, <1>8
  <2>2. Path'
    BY <1>1, <1>2, <1>3, <1>4, <2>1
       DEF Path, FetchStates, PayloadStates, WriteBackStates, RequestStates, WaitOf
  <2>3. Registers'
    BY <1>1, <1>2, <1>3, <1>4, <2>1
       DEF Registers, Moving, PayloadStates, CopyAt, StreamAt, RequestStates, WaitOf
  <2>4. Asked'
    <3>1. state = "WRITE_REQ" => ~job.uart
      BY DEF Registers, Moving, PayloadStates, StreamAt
    <3>. QED  BY <1>1, <1>2, <1>3, <2>1, <3>1, Requests DEF Asked, RequestStates, WaitOf
  <2>. QED  BY <1>6, <2>2, <2>3, <2>4
<1>. QED  BY <1>7, <1>8

\* The byte counter of a word follows the byte counter of the job.
LEMMA NextByte ==
  ASSUME NEW n \in Nat
  PROVE  /\ n % 4 \in 0 .. 3 /\ n % 4 <= n
         /\ n % 4 = 3 => (n + 1) % 4 = 0
         /\ (n % 4) # 3 => (n + 1) % 4 = (n % 4) + 1
OBVIOUS

LEMMA NotLast ==
  ASSUME NEW n \in Nat, NEW m \in Nat, n < m, m - n # 1
  PROVE  n + 1 < m /\ m - (n + 1) = (m - n) - 1
OBVIOUS

LEMMA NextWord ==
  ASSUME NEW s \in Nat, NEW n \in Nat, NEW b \in Nat, b = 3
  PROVE  (s + (n - b)) + 4 = s + ((n + 1) - 0)
OBVIOUS

\* In the UART's state the job is a stream, with no descriptor.
LEMMA InStream ==
  ASSUME Channel, state = "UART_TX_REQ"
  PROVE  job.uart /\ StreamAt /\ ~ctl.active /\ ~ctl.inflight
<1>. Registers /\ job.uart \in BOOLEAN
  BY DEF Channel, EnvTypes
<1>. QED  BY DEF Registers, Moving, PayloadStates, CopyAt, StreamAt

LEMMA UartChannel ==
  ASSUME Channel, NEW cfg \in SwWrites, NEW ready \in BOOLEAN, UartEdge(cfg, ready)
  PROVE  EnvTypes' /\ Path' /\ Registers' /\ Asked'
<1>. /\ DmaTypeOK /\ EnvTypes /\ Path /\ Registers /\ Asked
     /\ ctl \in CtlType /\ csr \in CsrType /\ xfer \in XferType
     /\ WordMod \in Nat
  BY DmaAssumption DEF Channel, Inv, DmaTypeOK
<1>1. state = "UART_TX_REQ"
  BY DEF UartEdge, UartByte, UartAbort
<1>2. /\ desc' = desc /\ mem' = mem /\ bus' = bus /\ given' = given /\ job' = job
  BY DEF UartEdge, UartByte, UartAbort
<1>3. job.uart /\ StreamAt /\ ~ctl.active /\ ~ctl.inflight
  BY <1>1, InStream
<1>4. state' \in {"IDLE", "READ_REQ", "UART_TX_REQ"}
  BY <1>1 DEF UartEdge, UartByte, UartAbort
<1>5. /\ ctl'.active = FALSE /\ ctl'.inflight = FALSE
      /\ ctl'.abort = FALSE
  BY <1>1, <1>3, BusySoftware DEF UartEdge, UartByte, UartAbort, CtlType, Aborting
<1>6. EnvTypes'
  <2>1. state' \notin WaitStates /\ state \notin WaitStates
    BY <1>1, <1>4 DEF WaitStates
  <2>2. call' = "none"
    BY <1>1, BusyCounted DEF UartEdge, Software
  <2>3. sent' \in Seq(Word \X (0 .. 3))
    <3>1. sent \in Seq(Word \X (0 .. 3)) /\ <<xfer.data, xfer.byte>> \in Word \X (0 .. 3)
      BY DEF EnvTypes, XferType
    <3>. QED  BY <3>1 DEF UartEdge
  <2>. QED  BY <1>2, <2>1, <2>2, <2>3 DEF EnvTypes
<1>7. Path' /\ Asked'
  BY <1>4, <1>5 DEF Path, Asked, FetchStates, WriteBackStates
<1>8. Registers'
  <2>1. CASE state' = "IDLE"
    BY <1>5, <2>1 DEF Registers, Moving, PayloadStates
  <2>2. CASE state' # "IDLE"
    <3>1. UartByte(cfg) /\ xfer.len # 1
      BY <2>2 DEF UartEdge, UartByte, UartAbort
    <3>2. /\ xfer.bytes \in Nat /\ xfer.len \in Nat /\ xfer.src \in Nat
          /\ job.src \in Nat /\ job.len \in Nat /\ job.len < WordMod
          /\ xfer.byte \in 0 .. 3
      BY DEF XferType, EnvTypes, Word
    <3>3. /\ RangeAllowed(job.src, job.len) /\ xfer.bytes < job.len
          /\ xfer.len = job.len - xfer.bytes
          /\ xfer.byte = xfer.bytes % 4
          /\ xfer.src = job.src + (xfer.bytes - xfer.byte)
          /\ job.src % 4 = 0
      BY <1>1, <1>3 DEF Registers, Moving, PayloadStates, StreamAt
    <3>4. xfer.bytes + 1 < job.len /\ job.src + job.len <= WordMod
      <4>1. job.len - xfer.bytes # 1
        BY <3>1, <3>3
      <4>2. xfer.bytes + 1 < job.len
        BY <3>2, <3>3, <4>1, NotLast
      <4>3. job.src \in Word /\ job.len \in Word
        BY DEF EnvTypes
      <4>. QED  BY <3>3, <4>2, <4>3, RangeEnd
    <3>5. /\ xfer'.bytes = Add(xfer.bytes, 1) /\ xfer'.len = Sub(xfer.len, 1)
          /\ xfer'.src = IF xfer.byte = 3 THEN Add(xfer.src, 4) ELSE xfer.src
          /\ xfer'.byte = IF xfer.byte = 3 THEN 0 ELSE xfer.byte + 1
          /\ state' = IF xfer.byte = 3 THEN "READ_REQ" ELSE state
          /\ csr' = CsrAfter(cfg) /\ ~Aborting(cfg)
      BY <3>1 DEF UartByte, XferType
    <3>6. xfer'.bytes = xfer.bytes + 1 /\ xfer'.len = xfer.len - 1
      BY <3>2, <3>3, <3>4, <3>5 DEF Add, Sub
    <3>7. csr'.uart = csr.uart /\ csr.uart
      BY <1>1, <1>3, <3>5, BusySoftware DEF StreamAt
    <3>8. /\ xfer'.byte = xfer'.bytes % 4
          /\ xfer'.src = job.src + (xfer'.bytes - xfer'.byte)
      <4>1. CASE xfer.byte = 3
        <5>1. xfer.src + 4 < WordMod
          BY <3>2, <3>3, <3>4, <4>1
        <5>2. xfer'.src = xfer.src + 4 /\ xfer'.byte = 0
          BY <3>2, <3>5, <4>1, <5>1 DEF Add
        <5>3. xfer'.byte = xfer'.bytes % 4
          BY <3>2, <3>3, <3>6, <4>1, <5>2, NextByte
        <5>4. (job.src + (xfer.bytes - xfer.byte)) + 4
                = job.src + ((xfer.bytes + 1) - 0)
          BY <3>2, <4>1, NextWord
        <5>. QED  BY <3>3, <3>6, <5>2, <5>3, <5>4
      <4>2. CASE xfer.byte # 3
        <5>1. xfer'.src = xfer.src /\ xfer'.byte = xfer.byte + 1
          BY <3>5, <4>2
        <5>2. (xfer.bytes + 1) % 4 = xfer.byte + 1
          BY <3>2, <3>3, <4>2, NextByte
        <5>3. xfer'.byte = xfer'.bytes % 4
          BY <3>6, <5>1, <5>2
        <5>4. job.src + (xfer.bytes - xfer.byte)
                = job.src + ((xfer.bytes + 1) - (xfer.byte + 1))
          BY <3>2
        <5>. QED  BY <3>3, <3>6, <5>1, <5>3, <5>4
      <4>. QED  BY <4>1, <4>2
    <3>9. StreamAt'
      BY <1>1, <1>2, <1>5, <3>3, <3>5, <3>7, <3>8 DEF StreamAt
    <3>10. xfer'.bytes < job'.len /\ xfer'.len = job'.len - xfer'.bytes
      <4>1. job.len - xfer.bytes - 1 = job.len - (xfer.bytes + 1)
        BY <3>2
      <4>. QED  BY <1>2, <3>3, <3>4, <3>6, <4>1
    <3>. QED  BY <1>2, <1>3, <3>3, <3>9, <3>10 DEF Registers
  <2>. QED  BY <2>1, <2>2
<1>. QED  BY <1>6, <1>7, <1>8

\* A copied word moves the registers on within the job, or ends it.
LEMMA CopiedWord ==
  ASSUME Channel, Moving, ~job.uart
  PROVE  /\ CopyAt /\ Advanced.bytes = xfer.bytes + 4
         /\ xfer.len = 4 => Advanced.bytes = job.len
         /\ xfer.len # 4 =>
              /\ Advanced.bytes < job.len
              /\ Advanced.len = job.len - Advanced.bytes
              /\ Advanced.src = job.src + Advanced.bytes
              /\ Advanced.dst = job.dst + Advanced.bytes
              /\ Advanced.bytes % 4 = 0
<1>. /\ DmaTypeOK /\ EnvTypes /\ Registers /\ xfer \in XferType
     /\ WordMod \in Nat
  BY DmaAssumption DEF Channel, Inv, DmaTypeOK
<1>1. /\ xfer.bytes \in Nat /\ xfer.len \in Nat /\ xfer.src \in Nat /\ xfer.dst \in Nat
      /\ job.src \in Nat /\ job.dst \in Nat /\ job.len \in Nat /\ job.len < WordMod
      /\ job.src \in Word /\ job.dst \in Word /\ job.len \in Word
  BY DEF XferType, EnvTypes, Word
<1>2. /\ CopyAt /\ RangeAllowed(job.src, job.len)
      /\ xfer.bytes < job.len /\ xfer.len = job.len - xfer.bytes
  BY DEF Registers
<1>3. /\ Advanced.bytes = Add(xfer.bytes, 4) /\ Advanced.len = Sub(xfer.len, 4)
      /\ Advanced.src = Add(xfer.src, 4) /\ Advanced.dst = Add(xfer.dst, 4)
  BY DEF Advanced, XferType
<1>4. /\ xfer.bytes % 4 = 0 /\ job.len % 4 = 0 /\ RangeAllowed(job.dst, job.len)
      /\ xfer.src = job.src + xfer.bytes /\ xfer.dst = job.dst + xfer.bytes
  BY <1>2 DEF CopyAt
<1>5. /\ job.src + job.len <= WordMod /\ job.dst + job.len <= WordMod
  BY <1>1, <1>2, <1>4, RangeEnd
<1>6. ASSUME NEW n \in Nat, NEW m \in Nat, n < m, n % 4 = 0, m % 4 = 0
      PROVE  /\ n + 4 <= m /\ m - n >= 4 /\ (n + 4) % 4 = 0
             /\ (m - n = 4 => n + 4 = m)
             /\ (m - n # 4 => n + 4 < m /\ (m - n) - 4 = m - (n + 4))
  BY <1>6
<1>7. /\ xfer.bytes + 4 <= job.len /\ xfer.len >= 4 /\ (xfer.bytes + 4) % 4 = 0
      /\ xfer.len = 4 => xfer.bytes + 4 = job.len
      /\ xfer.len # 4 => /\ xfer.bytes + 4 < job.len
                         /\ xfer.len - 4 = job.len - (xfer.bytes + 4)
  BY <1>1, <1>2, <1>4, <1>6
<1>8. Advanced.bytes = xfer.bytes + 4 /\ Advanced.len = xfer.len - 4
  <2>1. xfer.bytes + 4 < WordMod \/ xfer.bytes + 4 = job.len
    BY <1>1, <1>7
  <2>. QED  BY <1>1, <1>3, <1>7, <2>1 DEF Add, Sub
<1>9. ASSUME NEW a \in Nat, NEW n \in Nat, NEW m \in Nat,
             a + m <= WordMod, n + 4 < m
      PROVE  Add(a + n, 4) = a + (n + 4)
  BY <1>9 DEF Add
<1>10. ASSUME xfer.len # 4
       PROVE  /\ Advanced.src = job.src + (xfer.bytes + 4)
              /\ Advanced.dst = job.dst + (xfer.bytes + 4)
  <2>1. xfer.bytes + 4 < job.len
    BY <1>7, <1>10
  <2>2. Add(job.src + xfer.bytes, 4) = job.src + (xfer.bytes + 4)
    BY <1>1, <1>5, <1>9, <2>1
  <2>3. Add(job.dst + xfer.bytes, 4) = job.dst + (xfer.bytes + 4)
    BY <1>1, <1>5, <1>9, <2>1
  <2>. QED  BY <1>3, <1>4, <2>2, <2>3
<1>. QED  BY <1>2, <1>7, <1>8, <1>10

\* What every answer does to the bus, the history and the bits of the channel.
LEMMA RespondEnv ==
  ASSUME Channel, DmaTypeOK', NEW cfg \in SwWrites, NEW err \in BOOLEAN,
         RespondEdge(cfg, err)
  PROVE  /\ EnvTypes' /\ Asked'
         /\ state \in WaitStates /\ state' \notin WaitStates /\ ~ctl'.inflight
<1>. /\ DmaTypeOK /\ EnvTypes /\ Path
     /\ ctl \in CtlType /\ csr \in CsrType /\ xfer' \in XferType
  BY DEF Channel, Inv, DmaTypeOK
<1>. DEFINE r == [data |-> mem[bus.addr], err |-> err]
<1>1. RespStep(cfg, r)
  BY DEF RespondEdge
<1>. HIDE DEF r
<1>2. state \in WaitStates /\ state' \notin WaitStates
  BY <1>1 DEF RespStep, FetchWord, FetchFail, RefuseDescriptor, TakeDescriptor, ReadDone,
              WriteDone, PayloadFail, PayloadAbort, AbortDrained, WriteBackAbort,
              WriteBackFail, WriteBackNext, DescriptorFinished, WriteBackWaits,
              StopForAbort, StateAfterStop, WaitStates
<1>3. ~ctl'.inflight
  <2>1. state # "ABORT_WAIT" => ~ctl.inflight
    BY DEF Path
  <2>. QED  BY <1>1, <2>1
            DEF RespStep, FetchWord, FetchFail, RefuseDescriptor, TakeDescriptor, ReadDone,
                WriteDone, PayloadFail, PayloadAbort, AbortDrained, WriteBackAbort,
                WriteBackFail, WriteBackNext, DescriptorFinished, WriteBackWaits,
                StopForAbort, CtlType
<1>4. bus \in RequestType /\ mem \in [SramWords -> Word]
  BY <1>2, Answer DEF EnvTypes
<1>5. mem' \in [SramWords -> Word]
  <2>1. bus.addr \in SramWords /\ bus.data \in Word
    BY <1>4 DEF RequestType
  <2>2. [mem EXCEPT ![bus.addr] = bus.data] \in [SramWords -> Word]
    BY <1>4, <2>1
  <2>. QED  BY <1>4, <2>2 DEF RespondEdge
<1>6. job' \in [src : Word, dst : Word, len : Word, uart : BOOLEAN,
                before : [PayloadWords -> Word]]
  <2>1. Payload(mem) \in [PayloadWords -> Word]
    BY <1>4 DEF Payload, PayloadWords
  <2>2. 0 \in Word /\ xfer'.src \in Word /\ xfer'.dst \in Word /\ xfer'.len \in Word
    BY DmaAssumption DEF Word, XferType
  <2>3. \A l \in {0, xfer'.len} :
          NewJob(FALSE, l) \in [src : Word, dst : Word, len : Word, uart : BOOLEAN,
                                before : [PayloadWords -> Word]]
    BY <2>1, <2>2 DEF NewJob
  <2>. QED  BY <2>3 DEF RespondEdge, EnvTypes
<1>7. sent' \in Seq(Word \X (0 .. 3))
  <2>1. <<>> \in Seq(Word \X (0 .. 3))
    OBVIOUS
  <2>. QED  BY <2>1 DEF RespondEdge, EnvTypes
<1>8. given' \in [DescAddrs -> {NotGiven} \cup FieldsType]
  BY DEF RespondEdge, EnvTypes
<1>9. call' = "none"
  BY <1>2, BusyCounted DEF RespondEdge, Software, WaitStates
<1>10. bus' = NoBus
  BY DEF RespondEdge
<1>11. EnvTypes'
  BY <1>2, <1>5, <1>6, <1>7, <1>8, <1>9, <1>10 DEF EnvTypes
<1>12. Asked'
  BY <1>2, <1>3 DEF Asked, WaitStates
<1>. QED  BY <1>2, <1>3, <1>11, <1>12

\* Answers to a fetch.
LEMMA FetchChannel ==
  ASSUME Channel, NEW cfg \in SwWrites, NEW err \in BOOLEAN,
         RespondEdge(cfg, err), state = "FETCH_WAIT", ~ctl'.inflight
  PROVE  Path' /\ Registers'
<1>. /\ DmaTypeOK /\ EnvTypes /\ Path
     /\ ctl \in CtlType /\ csr \in CsrType /\ xfer \in XferType /\ desc \in DescType
  BY DEF Channel, Inv, DmaTypeOK
<1>. DEFINE r == [data |-> mem[bus.addr], err |-> err]
<1>1. RespStep(cfg, r)
  BY DEF RespondEdge
<1>2. /\ ctl.active /\ ~ctl.inflight /\ DescriptorAddr(desc.addr) /\ ~csr.uart
  BY DEF Path, FetchStates
<1>. HIDE DEF r
<1>3. /\ ~CsrAfter(cfg).uart
      /\ CsrAfter(cfg) \in CsrType
      /\ Aborting(cfg) \in BOOLEAN
      /\ ctl.abort => Aborting(cfg)
  BY <1>2, BusySoftware DEF Path
<1>4. CASE FetchWord(cfg, r)
  <2>1. /\ state' = "FETCH_REQ" /\ desc'.addr = desc.addr /\ csr' = CsrAfter(cfg)
        /\ ctl'.active = ctl.active /\ ctl'.abort = Aborting(cfg)
    BY <1>4, <1>3 DEF FetchWord, Fetched, DescType, CtlType
  <2>. QED  BY <1>2, <1>3, <2>1
            DEF Path, Registers, Moving, FetchStates, PayloadStates, WriteBackStates
<1>5. CASE FetchFail(cfg, r)
  <2>1. state' = "IDLE" /\ ctl'.active = FALSE
    BY <1>5 DEF FetchFail, CtlType
  <2>. QED  BY <2>1
            DEF Path, Registers, Moving, FetchStates, PayloadStates, WriteBackStates
<1>6. CASE RefuseDescriptor(cfg, r)
  <2>1. /\ state' = "WB_CTRL_REQ" /\ desc' = desc /\ csr' = CsrAfter(cfg)
        /\ ctl'.active = ctl.active /\ ctl'.abort = Aborting(cfg) /\ ctl'.derr
        /\ Own(desc.ctrl)
    BY <1>6, <1>3 DEF RefuseDescriptor, CtlType
  <2>. QED  BY <1>2, <1>3, <2>1
            DEF Path, Registers, Moving, FetchStates, PayloadStates, WriteBackStates
<1>7. CASE TakeDescriptor(cfg, r)
  <2>1. /\ state' = "READ_REQ" /\ csr' = CsrAfter(cfg)
        /\ ctl'.active = ctl.active /\ ctl'.abort = ctl.abort
        /\ xfer'.src = desc.src /\ xfer'.dst = desc.dst /\ xfer'.len = desc.len
        /\ xfer'.bytes = 0
        /\ Own(desc.ctrl) /\ DescriptorValid(desc) /\ ~Aborting(cfg)
    BY <1>7 DEF TakeDescriptor, DescriptorRefused, CtlType, XferType
  <2>2. /\ desc'.addr = desc.addr /\ desc'.next = desc.next /\ desc'.src = desc.src
        /\ desc'.dst = desc.dst /\ desc'.len = desc.len /\ desc'.ctrl = desc.ctrl
    BY <1>7 DEF TakeDescriptor, DescType
  <2>3. DescriptorValid(desc')
    BY <2>1, <2>2 DEF DescriptorValid
  <2>4. /\ job'.src = desc.src /\ job'.dst = desc.dst /\ job'.len = desc.len
        /\ ~job'.uart
    BY <2>1 DEF RespondEdge, NewJob
  <2>5. Path'
    BY <1>2, <1>3, <2>1, <2>2, <2>3, <2>4
       DEF Path, FetchStates, PayloadStates, WriteBackStates
  <2>6. /\ desc.src % 4 = 0 /\ desc.dst % 4 = 0 /\ desc.len % 4 = 0
        /\ RangeAllowed(desc.src, desc.len) /\ RangeAllowed(desc.dst, desc.len)
        /\ desc.src \in Nat /\ desc.dst \in Nat /\ desc.len \in Nat /\ desc.len # 0
    BY <2>1 DEF DescriptorValid, DescType, Word, RangeAllowed
  <2>7. 0 % 4 = 0 /\ desc.src + 0 = desc.src /\ desc.dst + 0 = desc.dst
        /\ 0 < desc.len /\ desc.len - 0 = desc.len
    <3>1. \A n \in Nat : n # 0 => 0 < n
      OBVIOUS
    <3>2. \A n \in Nat : n + 0 = n /\ n - 0 = n
      OBVIOUS
    <3>3. 0 % 4 = 0
      OBVIOUS
    <3>4. desc.src \in Nat /\ desc.dst \in Nat /\ desc.len \in Nat /\ desc.len # 0
      BY <2>6
    <3>. QED  BY <3>1, <3>2, <3>3, <3>4
  <2>8. CopyAt'
    BY <1>3, <2>1, <2>4, <2>6, <2>7 DEF CopyAt
  <2>9. Registers'
    BY <2>1, <2>4, <2>6, <2>7, <2>8 DEF Registers
  <2>. QED  BY <2>5, <2>9
<1>. QED  BY <1>1, <1>4, <1>5, <1>6, <1>7
          DEF RespStep, ReadDone, WriteDone, PayloadFail, PayloadAbort, AbortDrained,
              WriteBackAbort, WriteBackFail, WriteBackNext, DescriptorFinished,
              WriteBackWaits

\* Answers to a payload word, and to what an abort left to be drained.
LEMMA PayloadChannel ==
  ASSUME Channel, NEW cfg \in SwWrites, NEW err \in BOOLEAN,
         RespondEdge(cfg, err), state \in {"READ_WAIT", "WRITE_WAIT", "ABORT_WAIT"},
         ~ctl'.inflight
  PROVE  Path' /\ Registers'
<1>. /\ DmaTypeOK /\ EnvTypes /\ Path /\ Registers /\ job.uart \in BOOLEAN
     /\ ctl \in CtlType /\ csr \in CsrType /\ xfer \in XferType /\ desc \in DescType
  BY DEF Channel, Inv, DmaTypeOK, EnvTypes
<1>. DEFINE r == [data |-> mem[bus.addr], err |-> err]
<1>1. RespStep(cfg, r) /\ job' = job
  BY DEF RespondEdge
<1>. HIDE DEF r
<1>2. /\ CsrAfter(cfg).uart => csr.uart
      /\ ~Aborting(cfg) => CsrAfter(cfg).uart = csr.uart
      /\ CsrAfter(cfg) \in CsrType
      /\ Aborting(cfg) \in BOOLEAN
      /\ ctl.abort => Aborting(cfg)
  BY BusySoftware DEF Path
<1>3. /\ ctl.active => DescriptorAddr(desc.addr) /\ ~csr.uart /\ Own(desc.ctrl)
      /\ ctl.active /\ state # "ABORT_WAIT" =>
           DescriptorValid(desc) /\ job.len = desc.len
      /\ state # "ABORT_WAIT" => Moving /\ ~ctl.inflight
  BY DEF Path, FetchStates, PayloadStates, Moving
<1>4. CASE ReadDone(cfg, r)
  <2>1. /\ state = "READ_WAIT" /\ ~Aborting(cfg)
        /\ state' = IF csr.uart THEN "UART_TX_REQ" ELSE "WRITE_REQ"
        /\ csr' = CsrAfter(cfg) /\ ctl' = ctl /\ desc' = desc
        /\ xfer'.src = xfer.src /\ xfer'.dst = xfer.dst /\ xfer'.len = xfer.len
        /\ xfer'.bytes = xfer.bytes /\ xfer'.byte = xfer.byte
    BY <1>4 DEF ReadDone, XferType
  <2>2. Path'
    BY <1>1, <1>2, <1>3, <2>1 DEF Path, FetchStates, PayloadStates, WriteBackStates
  <2>3. ~job.uart => CopyAt'
    <3>. SUFFICES ASSUME ~job.uart PROVE CopyAt'
      OBVIOUS
    <3>1. CopyAt /\ ~csr.uart
      BY <1>2, <1>3, <2>1 DEF Registers, CopyAt
    <3>. QED  BY <1>1, <1>2, <2>1, <3>1 DEF CopyAt
  <2>4. job.uart => StreamAt'
    <3>. SUFFICES ASSUME job.uart PROVE StreamAt'
      OBVIOUS
    <3>1. StreamAt /\ csr.uart
      BY <1>2, <1>3, <2>1 DEF Registers, StreamAt
    <3>. QED  BY <1>1, <1>2, <2>1, <3>1 DEF StreamAt
  <2>5. Registers'
    BY <1>1, <1>3, <2>1, <2>3, <2>4 DEF Registers
  <2>. QED  BY <2>2, <2>5
<1>5. CASE WriteDone(cfg, r)
  <2>1. /\ state = "WRITE_WAIT" /\ ~Aborting(cfg) /\ xfer' = Advanced /\ desc' = desc
        /\ state' = IF xfer.len = 4 THEN IF ctl.active THEN "WB_CTRL_REQ" ELSE "IDLE"
                    ELSE "READ_REQ"
        /\ ctl'.abort = ctl.abort /\ ctl'.active = ctl.active
        /\ csr'.uart = csr.uart
    BY <1>2, <1>5 DEF WriteDone, StateAfterStop, CtlType, CsrType
  <2>2. ~job.uart /\ Moving
    BY <1>3, <2>1 DEF Registers, StreamAt
  <2>3. Path'
    BY <1>1, <1>2, <1>3, <2>1, <2>2, CopiedWord
       DEF Path, FetchStates, PayloadStates, WriteBackStates
  <2>4. CASE xfer.len = 4
    BY <2>1, <2>3, <2>4 DEF Registers, Moving, PayloadStates
  <2>5. CASE xfer.len # 4
    <3>1. CopyAt /\ ~csr.uart
      BY <1>2, <2>1, <2>2, CopiedWord DEF CopyAt
    <3>2. CopyAt'
      BY <1>1, <2>1, <2>2, <2>5, <3>1, CopiedWord DEF CopyAt
    <3>. QED  BY <1>1, <2>1, <2>2, <2>3, <2>5, <3>2, CopiedWord DEF Registers
  <2>. QED  BY <2>4, <2>5
<1>6. CASE PayloadFail(cfg, r) \/ PayloadAbort(cfg, r) \/ AbortDrained(cfg, r)
  <2>1. /\ state' = IF ctl.active THEN "WB_CTRL_REQ" ELSE "IDLE"
        /\ desc' = desc /\ ctl'.active = ctl.active
        /\ ctl.active => ctl'.derr
        /\ csr'.uart => csr.uart
    BY <1>2, <1>6 DEF PayloadFail, PayloadAbort, AbortDrained, StopForAbort,
                      StateAfterStop, CtlType, CsrType
  <2>2. Path'
    BY <1>1, <1>2, <1>3, <2>1 DEF Path, FetchStates, PayloadStates, WriteBackStates
  <2>. QED  BY <2>1, <2>2 DEF Registers, Moving, PayloadStates
<1>. QED  BY <1>1, <1>4, <1>5, <1>6
          DEF RespStep, FetchWord, FetchFail, RefuseDescriptor, TakeDescriptor,
              WriteBackAbort, WriteBackFail, WriteBackNext, DescriptorFinished,
              WriteBackWaits

\* Answers to the write-back of a descriptor.
LEMMA WriteBackChannel ==
  ASSUME Channel, NEW cfg \in SwWrites, NEW err \in BOOLEAN,
         RespondEdge(cfg, err), state \in WriteBackWaits, ~ctl'.inflight
  PROVE  Path' /\ Registers'
<1>. /\ DmaTypeOK /\ EnvTypes /\ Path
     /\ ctl \in CtlType /\ csr \in CsrType /\ desc \in DescType
  BY DEF Channel, Inv, DmaTypeOK
<1>. DEFINE r == [data |-> mem[bus.addr], err |-> err]
<1>1. RespStep(cfg, r) /\ job' = job
  BY DEF RespondEdge, WriteBackWaits
<1>. HIDE DEF r
<1>2. /\ ctl.active /\ DescriptorAddr(desc.addr) /\ ~csr.uart /\ Own(desc.ctrl)
      /\ ~ctl.derr => /\ DescriptorValid(desc) /\ job.len = desc.len
                      /\ xfer.bytes = desc.len
  BY DEF Path, FetchStates, WriteBackStates, WriteBackWaits
<1>3. /\ ~CsrAfter(cfg).uart
      /\ CsrAfter(cfg) \in CsrType
      /\ ctl.abort => Aborting(cfg)
  BY <1>2, BusySoftware DEF Path, WriteBackWaits
<1>4. CASE WriteBackAbort(cfg, r)
  <2>1. /\ state' = "WB_CTRL_REQ" /\ desc' = desc /\ csr' = CsrAfter(cfg)
        /\ ctl'.active = ctl.active /\ ctl'.derr /\ Aborting(cfg)
    BY <1>4 DEF WriteBackAbort, CtlType
  <2>. QED  BY <1>2, <1>3, <2>1
            DEF Path, Registers, Moving, FetchStates, PayloadStates, WriteBackStates
<1>5. CASE WriteBackFail(cfg, r)
  <2>1. state' = "IDLE" /\ ctl'.active = FALSE
    BY <1>5 DEF WriteBackFail, CtlType
  <2>. QED  BY <2>1
            DEF Path, Registers, Moving, FetchStates, PayloadStates, WriteBackStates
<1>6. CASE WriteBackNext(cfg, r)
  <2>1. /\ state' \in {"WB_STATUS_REQ", "WB_BYTES_REQ"} /\ csr' = CsrAfter(cfg)
        /\ desc' = desc /\ ctl' = ctl /\ xfer' = xfer /\ ~Aborting(cfg)
    BY <1>6 DEF WriteBackNext
  <2>. QED  BY <1>1, <1>2, <1>3, <2>1
            DEF Path, Registers, Moving, FetchStates, PayloadStates, WriteBackStates
<1>7. CASE DescriptorFinished(cfg, r)
  <2>. DEFINE more == ~ctl.derr /\ desc.next # 0
  <2>1. /\ state' = (IF more THEN "FETCH_REQ" ELSE "IDLE") /\ ~Aborting(cfg)
        /\ more => desc'.addr = desc.next
        /\ ctl'.abort = ctl.abort /\ ctl'.active = more
        /\ csr'.uart = CsrAfter(cfg).uart
    BY <1>2, <1>3, <1>7 DEF DescriptorFinished, CtlType, CsrType, DescType
  <2>2. more => DescriptorAddr(desc.next)
    BY <1>2 DEF DescriptorValid
  <2>. HIDE DEF more
  <2>. QED  BY <1>3, <2>1, <2>2
            DEF Path, Registers, Moving, FetchStates, PayloadStates, WriteBackStates
<1>. QED  BY <1>1, <1>4, <1>5, <1>6, <1>7
          DEF RespStep, FetchWord, FetchFail, RefuseDescriptor, TakeDescriptor, ReadDone,
              WriteDone, PayloadFail, PayloadAbort, AbortDrained, WriteBackWaits

LEMMA RespondChannel ==
  ASSUME Channel, DmaTypeOK', NEW cfg \in SwWrites, NEW err \in BOOLEAN,
         RespondEdge(cfg, err)
  PROVE  EnvTypes' /\ Path' /\ Registers' /\ Asked'
<1>1. /\ EnvTypes' /\ Asked' /\ state \in WaitStates /\ ~ctl'.inflight
  BY RespondEnv
<1>. QED  BY <1>1, FetchChannel, PayloadChannel, WriteBackChannel
          DEF WaitStates, WriteBackWaits

LEMMA IdleChannel ==
  ASSUME Channel, DmaTypeOK', NEW cfg \in SwWrites, IdleEdge(cfg)
  PROVE  EnvTypes' /\ Path' /\ Registers' /\ Asked'
<1>. /\ DmaTypeOK /\ EnvTypes /\ Path
     /\ ctl \in CtlType /\ csr \in CsrType /\ desc \in DescType
     /\ xfer \in XferType /\ xfer' \in XferType
  BY DEF Channel, Inv, DmaTypeOK
<1>1. cfg \in CfgWrites /\ state = "IDLE" /\ IdleStep(cfg)
  BY SwWritesType DEF IdleEdge, IdleStep, IdleWrite, StartDescriptors, StartDirect,
                      DescType
<1>2. /\ mem' = mem /\ bus' = bus /\ given' = given
      /\ IF state' = "READ_REQ" THEN job' = NewJob(cfg.uart, xfer.len) /\ sent' = <<>>
         ELSE job' = job /\ sent' = sent
  BY DEF IdleEdge
<1>3. /\ ~ctl.active /\ ~ctl.inflight
  BY <1>1 DEF Path
<1>4. IsStart(cfg) => cfg.uart \in BOOLEAN
  BY <1>1 DEF IsStart, CfgWrites, CtrlWrites, StatusWrites, ParamWrites, NoCfg
<1>5. state' \in {"IDLE", "READ_REQ", "FETCH_REQ"}
  BY <1>1 DEF IdleStep, IdleWrite, StartDescriptors, StartDirect
<1>6. EnvTypes'
  <2>1. /\ 0 \in Word /\ xfer'.src \in Word /\ xfer'.dst \in Word /\ xfer.len \in Word
    BY DmaAssumption DEF Word, XferType
  <2>2. Payload(mem) \in [PayloadWords -> Word]
    BY DEF EnvTypes, Payload, PayloadWords
  <2>3. state' # "IDLE" => IsStart(cfg)
    BY <1>1 DEF IdleStep, IdleWrite, StartDescriptors, StartDirect
  <2>4. state' = "READ_REQ" =>
          job' \in [src : Word, dst : Word, len : Word, uart : BOOLEAN,
                    before : [PayloadWords -> Word]]
    BY <1>2, <1>4, <2>1, <2>2, <2>3 DEF NewJob
  <2>5. call' # "none" => state' = "IDLE"
    <3>1. IsStart(cfg) => cfg.reg \notin {"SRC", "DST", "LEN"}
      BY DEF IsStart
    <3>. QED  BY <2>3, <3>1 DEF IdleEdge, Software, Counted
  <2>6. state \notin WaitStates /\ state' \notin WaitStates
    BY <1>1, <1>5 DEF WaitStates
  <2>7. <<>> \in Seq(Word \X (0 .. 3))
    OBVIOUS
  <2>. QED  BY <1>2, <2>4, <2>5, <2>6, <2>7 DEF EnvTypes
<1>7. CASE IdleWrite(cfg)
  <2>1. state' = "IDLE" /\ ctl' = ctl
    BY <1>7 DEF IdleWrite
  <2>. QED  BY <1>3, <1>6, <2>1
            DEF Path, Registers, Moving, Asked, FetchStates, PayloadStates,
                WriteBackStates
<1>8. CASE StartDescriptors(cfg)
  <2>. DEFINE refused == cfg.uart \/ ~DescriptorAddr(desc.head)
  <2>1. /\ state' = (IF refused THEN "IDLE" ELSE "FETCH_REQ")
        /\ ctl'.active = ~refused /\ ctl'.abort = FALSE
        /\ ctl'.inflight = ctl.inflight
        /\ csr'.uart = cfg.uart
        /\ ~refused => desc'.addr = desc.head
    BY <1>8 DEF StartDescriptors, CsrAtStart, CtlType, DescType
  <2>2. ~refused => DescriptorAddr(desc.head) /\ ~cfg.uart
    OBVIOUS
  <2>. HIDE DEF refused
  <2>. QED  BY <1>3, <1>6, <2>1, <2>2
            DEF Path, Registers, Moving, Asked, FetchStates, PayloadStates,
                WriteBackStates
<1>9. CASE StartDirect(cfg)
  <2>1. /\ state' = (IF DirectStartAllowed(cfg.uart) THEN "READ_REQ" ELSE "IDLE")
        /\ ctl'.active = FALSE /\ ctl'.abort = FALSE /\ ctl'.inflight = ctl.inflight
        /\ csr'.uart = cfg.uart
    BY <1>9 DEF StartDirect, CsrAtStart, CtlType
  <2>2. Path' /\ Asked'
    BY <1>3, <1>5, <2>1 DEF Path, Asked, FetchStates, WriteBackStates
  <2>3. CASE ~DirectStartAllowed(cfg.uart)
    BY <1>3, <1>6, <2>1, <2>2, <2>3 DEF Registers, Moving, PayloadStates
  <2>4. CASE DirectStartAllowed(cfg.uart)
    <3>1. /\ xfer'.src = xfer.src /\ xfer'.dst = xfer.dst /\ xfer'.len = xfer.len
          /\ xfer'.byte = 0 /\ xfer'.bytes = 0
      BY <1>9, <2>4 DEF StartDirect, XferType
    <3>2. /\ job'.src = xfer.src /\ job'.dst = xfer.dst /\ job'.len = xfer.len
          /\ job'.uart = cfg.uart
      BY <1>2, <2>1, <2>4, <3>1 DEF NewJob
    <3>3. /\ xfer.len # 0 /\ xfer.src % 4 = 0 /\ RangeAllowed(xfer.src, xfer.len)
          /\ ~cfg.uart => /\ xfer.dst % 4 = 0 /\ xfer.len % 4 = 0
                          /\ RangeAllowed(xfer.dst, xfer.len)
      BY <2>4 DEF DirectStartAllowed
    <3>4. xfer.src \in Nat /\ xfer.dst \in Nat /\ xfer.len \in Nat
      BY DEF XferType, Word
    <3>5. /\ \A n \in Nat : n # 0 => 0 < n
          /\ \A n \in Nat : n + 0 = n /\ n - 0 = n /\ n + (0 - 0) = n
          /\ 0 % 4 = 0
      OBVIOUS
    <3>6. ~job'.uart => CopyAt'
      BY <2>1, <2>4, <3>1, <3>2, <3>3, <3>4, <3>5 DEF CopyAt
    <3>7. job'.uart => StreamAt'
      BY <1>3, <2>1, <2>4, <3>1, <3>2, <3>3, <3>4, <3>5 DEF StreamAt
    <3>8. Registers'
      BY <3>1, <3>2, <3>3, <3>4, <3>5, <3>6, <3>7 DEF Registers
    <3>. QED  BY <1>6, <2>2, <3>8
  <2>. QED  BY <2>3, <2>4
<1>. QED  BY <1>1, <1>7, <1>8, <1>9 DEF IdleStep

\* Software that prepares a descriptor touches neither the channel nor the bus,
\* and sets OWN without carrying out of the control word.
LEMMA SoftwareChannel ==
  ASSUME Channel, SoftwareStep
  PROVE  EnvTypes' /\ Path' /\ Registers' /\ Asked'
<1>. EnvTypes /\ Path /\ Registers /\ Asked /\ mem \in [SramWords -> Word]
  BY DEF Channel, EnvTypes
<1>1. /\ state' = state /\ ctl' = ctl /\ xfer' = xfer /\ desc' = desc /\ csr' = csr
      /\ bus' = bus /\ job' = job /\ sent' = sent /\ call' = call
  BY DEF SoftwareStep, SwGive, SwFill, dmaVars
<1>2. mem' \in [SramWords -> Word] /\ given' \in [DescAddrs -> {NotGiven} \cup FieldsType]
  <2>1. given \in [DescAddrs -> {NotGiven} \cup FieldsType]
    BY DEF EnvTypes
  <2>2. ASSUME NEW d \in DescAddrs, SwGive(d)
        PROVE  mem' \in [SramWords -> Word]
                 /\ given' \in [DescAddrs -> {NotGiven} \cup FieldsType]
    <3>1. d + 16 \in SramWords /\ mem[d + 16] \in Word /\ ~Own(mem[d + 16])
      BY <2>2, WordsOf DEF SwGive, MayPrepare
    <3>2. ASSUME NEW c \in Word, ~Own(c)
          PROVE  c + 1 \in Word
      <4>1. WordMod % 2 = 0 /\ WordMod \in Nat /\ c % 2 # 1 /\ c \in Nat /\ c < WordMod
        BY <3>2, MemoryAssumption, DmaAssumption DEF Word, Own
      <4>2. c + 1 # WordMod
        BY <4>1
      <4>. QED  BY <4>1, <4>2 DEF Word
    <3>3. mem' \in [SramWords -> Word]
      BY <2>2, <3>1, <3>2 DEF SwGive
    <3>4. Fields(mem', d) \in FieldsType
      BY <3>3, FieldsInMemory
    <3>. QED  BY <2>1, <2>2, <3>3, <3>4 DEF SwGive
  <2>3. ASSUME NEW d \in DescAddrs, NEW t \in Templates[d], SwFill(d, t)
        PROVE  mem' \in [SramWords -> Word]
                 /\ given' \in [DescAddrs -> {NotGiven} \cup FieldsType]
    <3>1. /\ 0 \in Word /\ t.next \in Word /\ t.src \in Word /\ t.dst \in Word
          /\ t.len \in Word /\ t.ctrl \in Word
      BY SoftwareAssumption, DmaAssumption DEF Word
    <3>. QED  BY <2>1, <2>3, <3>1 DEF SwFill
  <2>. QED  BY <2>2, <2>3 DEF SoftwareStep
<1>3. EnvTypes'
  BY <1>1, <1>2 DEF EnvTypes
<1>. QED  BY <1>1, <1>3 DEF Path, Registers, Moving, CopyAt, StreamAt, Asked

\* Neither does the interrupt.
LEMMA InterruptChannel ==
  ASSUME Channel, PlicSamples \/ HandlerReads
  PROVE  EnvTypes' /\ Path' /\ Registers' /\ Asked'
BY DEF Channel, PlicSamples, HandlerReads, dmaVars, EnvTypes, Path, Registers, Moving,
       CopyAt, StreamAt, Asked

\* The edges of the busy channel keep an abort only if there was one, and take
\* nothing from ERROR.
LEMMA BusyEdge ==
  ASSUME Channel, NEW cfg \in SwWrites,
         \/ HoldEdge(cfg) \/ WithdrawEdge(cfg) \/ AcceptEdge(cfg)
         \/ \E err \in BOOLEAN : RespondEdge(cfg, err)
         \/ \E ready \in BOOLEAN : UartEdge(cfg, ready)
  PROVE  /\ state # "IDLE" /\ Counted(cfg)
         /\ ctl'.abort => Aborting(cfg)
         /\ CsrAfter(cfg).error => csr'.error
<1>. ctl \in CtlType /\ DmaTypeOK
  BY DEF Channel, Inv, DmaTypeOK
<1>1. CASE HoldEdge(cfg) \/ WithdrawEdge(cfg) \/ AcceptEdge(cfg)
  <2>1. state # "IDLE" /\ Counted(cfg) /\ csr' = CsrAfter(cfg)
    BY <1>1 DEF HoldEdge, Hold, WithdrawEdge, Withdraw, AcceptEdge, Accept, RequestStates,
                Software
  <2>2. Aborting(cfg) \in BOOLEAN /\ CsrAfter(cfg) \in CsrType
    BY <2>1, BusySoftware
  <2>3. ctl'.abort => Aborting(cfg)
    BY <1>1, <2>2 DEF HoldEdge, Hold, WithdrawEdge, Withdraw, StopForAbort, AcceptEdge,
                      Accept, CtlType
  <2>. QED  BY <2>1, <2>3
<1>2. ASSUME NEW err \in BOOLEAN, RespondEdge(cfg, err)
      PROVE  /\ state # "IDLE" /\ Counted(cfg)
             /\ ctl'.abort => Aborting(cfg)
             /\ CsrAfter(cfg).error => csr'.error
  <2>. DEFINE r == [data |-> mem[bus.addr], err |-> err]
  <2>1. RespStep(cfg, r) /\ Counted(cfg)
    BY <1>2 DEF RespondEdge, Software
  <2>. HIDE DEF r
  <2>2. state # "IDLE"
    BY <2>1 DEF RespStep, FetchWord, FetchFail, RefuseDescriptor, TakeDescriptor, ReadDone,
                WriteDone, PayloadFail, PayloadAbort, AbortDrained, WriteBackAbort,
                WriteBackFail, WriteBackNext, DescriptorFinished, WriteBackWaits
  <2>3. /\ Aborting(cfg) \in BOOLEAN /\ CsrAfter(cfg) \in CsrType
        /\ ctl.abort => Aborting(cfg)
    BY <2>2, BusySoftware
  <2>4. CASE FetchWord(cfg, r) \/ FetchFail(cfg, r) \/ RefuseDescriptor(cfg, r)
             \/ TakeDescriptor(cfg, r) \/ ReadDone(cfg, r)
    BY <2>1, <2>2, <2>3, <2>4 DEF FetchWord, FetchFail, RefuseDescriptor, TakeDescriptor,
                                  ReadDone, CtlType, CsrType
  <2>5. CASE WriteDone(cfg, r) \/ PayloadFail(cfg, r) \/ PayloadAbort(cfg, r)
             \/ AbortDrained(cfg, r)
    BY <2>1, <2>2, <2>3, <2>5 DEF WriteDone, PayloadFail, PayloadAbort, StopForAbort,
                                  AbortDrained, CtlType, CsrType
  <2>6. CASE WriteBackAbort(cfg, r) \/ WriteBackFail(cfg, r) \/ WriteBackNext(cfg, r)
             \/ DescriptorFinished(cfg, r)
    BY <2>1, <2>2, <2>3, <2>6 DEF WriteBackAbort, WriteBackFail, WriteBackNext,
                                  DescriptorFinished, CtlType, CsrType
  <2>. QED  BY <2>1, <2>4, <2>5, <2>6 DEF RespStep
<1>3. ASSUME NEW ready \in BOOLEAN, UartEdge(cfg, ready)
      PROVE  /\ state # "IDLE" /\ Counted(cfg)
             /\ ctl'.abort => Aborting(cfg)
             /\ CsrAfter(cfg).error => csr'.error
  <2>1. state # "IDLE" /\ Counted(cfg)
    BY <1>3 DEF UartEdge, UartByte, UartAbort, Software
  <2>2. CsrAfter(cfg) \in CsrType /\ (ctl.abort => Aborting(cfg))
    BY <2>1, BusySoftware
  <2>. QED  BY <1>3, <2>1, <2>2 DEF UartEdge, UartByte, UartAbort, CtlType, CsrType
<1>. QED  BY <1>1, <1>2, <1>3

\* ERROR of an abort stays until the handler has read it: its clearing write
\* follows the read, and no abort comes between the two.
LEMMA AbortToldStep ==
  ASSUME Channel, [Next]_vars
  PROVE  AbortTold'
<1>. DmaTypeOK /\ EnvTypes /\ Path /\ AbortTold /\ ctl \in CtlType /\ csr \in CsrType
  BY DEF Channel, Inv, DmaTypeOK
<1>1. CASE SoftwareStep \/ PlicSamples \/ UNCHANGED vars
  BY <1>1 DEF SoftwareStep, SwGive, SwFill, PlicSamples, vars, dmaVars, envVars, AbortTold
<1>2. CASE HandlerReads
  <2>1. csr.done \in BOOLEAN /\ csr.error \in BOOLEAN
    BY DEF CsrType
  <2>. QED  BY <1>2, <2>1 DEF HandlerReads, dmaVars, AbortTold
<1>3. ASSUME NEW cfg \in SwWrites, Counted(cfg)
      PROVE  /\ handler' = NoIrq \/ handler' = handler
             /\ handler' \in [at : {"none", "pending", "read"}, done : BOOLEAN,
                              error : BOOLEAN]
             /\ told' \in BOOLEAN
  BY <1>3 DEF Counted, AbortTold, NoIrq
<1>4. ASSUME NEW cfg \in SwWrites, IdleEdge(cfg)
      PROVE  AbortTold'
  <2>1. /\ Counted(cfg) /\ state = "IDLE"
        /\ state' = "IDLE" \/ ctl'.abort = FALSE
    BY <1>4 DEF IdleEdge, Software, IdleStep, IdleWrite, StartDescriptors, StartDirect,
                CtlType
  <2>. QED  BY <1>3, <2>1 DEF AbortTold
<1>5. ASSUME NEW cfg \in SwWrites,
             \/ HoldEdge(cfg) \/ WithdrawEdge(cfg) \/ AcceptEdge(cfg)
             \/ \E err \in BOOLEAN : RespondEdge(cfg, err)
             \/ \E ready \in BOOLEAN : UartEdge(cfg, ready)
      PROVE  AbortTold'
  <2>1. /\ state # "IDLE" /\ Counted(cfg)
        /\ ctl'.abort => Aborting(cfg)
        /\ CsrAfter(cfg).error => csr'.error
    BY <1>5, BusyEdge
  <2>2. ~IsStart(cfg)
    BY <2>1, BusySoftware
  <2>3. told' = told
    BY <2>1, <2>2 DEF Counted, AbortTold
  <2>4. ctl'.abort /\ ~told => csr'.error /\ handler.at # "read"
    BY <2>1, BusySoftware DEF AbortTold
  <2>5. handler.at # "read" => handler' = handler
    BY <2>1 DEF Counted
  <2>. QED  BY <1>3, <2>1, <2>3, <2>4, <2>5 DEF AbortTold
<1>. QED  BY <1>1, <1>2, <1>4, <1>5 DEF Next

LEMMA ChannelStep == Channel /\ [Next]_vars => Channel'
<1>. SUFFICES ASSUME Channel, [Next]_vars
              PROVE  Channel'
  OBVIOUS
<1>1. Inv' /\ DmaTypeOK'
  BY NextIsDma, InvStep DEF Channel, Inv
<1>2. AbortTold'
  BY AbortToldStep
<1>3. CASE UNCHANGED vars
  BY <1>1, <1>2, <1>3 DEF Channel, vars, dmaVars, envVars, EnvTypes, Path, Registers,
                          Moving, CopyAt, StreamAt, Asked
<1>4. CASE Next
  BY <1>1, <1>2, <1>4, IdleChannel, HoldChannel, WithdrawChannel, AcceptChannel,
     RespondChannel, UartChannel, SoftwareChannel, InterruptChannel DEF Next, Channel
<1>. QED  BY <1>3, <1>4

LEMMA ChannelInvariance == Spec => []Channel
<1>. QED  BY ChannelInit, ChannelStep, PTL DEF Spec

-----------------------------------------------------------------------------
(* What follows from the first invariant alone.                            *)

\* The channel, placed in its environment, is the channel whose guarantees
\* are proved above: the environment gives it no input, and reads
\* from it no answer, that the specification of its ports does not have.
THEOREM ImplementsDmaSpec == Spec => DmaSpec
<1>1. Init => DmaInit
  BY DEF Init
<1>2. Channel /\ [Next]_vars => [DmaNext]_dmaVars
  BY NextIsDma DEF Channel, Inv
<1>. QED  BY <1>1, <1>2, ChannelInvariance, PTL DEF Spec, DmaSpec

\* Registers and memory keep their types, no access leaves System SRAM, and a
\* request is on the bus exactly while the channel waits for an answer.
THEOREM SystemTypes == Spec => []TypeOK
<1>1. Channel => TypeOK
  BY DEF Channel, Inv, EnvTypes, AbortTold, TypeOK
<1>. QED  BY <1>1, ChannelInvariance, PTL

\* Software's polling of STATUS is sound in the whole system.
THEOREM SystemOutcome == Spec => [](OutcomeExclusive /\ AbortStopsPayload)
<1>1. Channel => OutcomeExclusive /\ AbortStopsPayload
  BY DEF Channel, Inv
<1>. QED  BY <1>1, ChannelInvariance, PTL

\* The end of a transfer, of a chain or of an abort is reported with one outcome,
\* and DONE means that nothing was aborted and every byte was moved.  Without an
\* outcome ends only a direct transfer whose abort the handler has been told of.
LEMMA EndStep ==
  ASSUME Channel, [Next]_vars, state # "IDLE", state' = "IDLE"
  PROVE  /\ ~(csr'.done /\ csr'.error)
         /\ csr'.done \/ csr'.error \/ (told /\ ctl.abort /\ ~ctl.active)
         /\ csr'.done => ~ctl.abort /\ xfer'.bytes = job.len
<1>. /\ DmaTypeOK /\ EnvTypes /\ Path /\ Registers /\ ErrorHasCause /\ ~csr.done
     /\ AbortTold
     /\ ctl \in CtlType /\ csr \in CsrType /\ csr' \in CsrType /\ xfer \in XferType
  BY NextIsDma, InvStep DEF Channel, Inv, DmaTypeOK, OutcomeExclusive
<1>0. csr'.done \in BOOLEAN /\ csr'.error \in BOOLEAN
  BY DEF CsrType
<1>. DEFINE Quiet == told /\ ctl.abort /\ ~ctl.active
<1>1. SUFFICES \/ ~csr'.done /\ (csr'.error \/ Quiet)
               \/ csr'.done /\ ~csr'.error /\ ~ctl.abort /\ xfer'.bytes = job.len
  BY <1>0
<1>2. ASSUME NEW cfg \in SwWrites
      PROVE  /\ CsrAfter(cfg) \in CsrType /\ ~CsrAfter(cfg).done
             /\ Aborting(cfg) => CsrAfter(cfg).error \/ (told /\ ctl.abort)
             /\ ctl.abort => Aborting(cfg)
             /\ Aborting(cfg) \/ (state \in WriteBackStates /\ ctl.derr)
                \/ ~CsrAfter(cfg).error
  <2>. DEFINE c == CsrAfter(cfg)
  <2>1. /\ c \in CsrType /\ ~c.done /\ (ctl.abort => Aborting(cfg))
    BY BusySoftware
  <2>2. c.error => csr.error \/ Aborting(cfg)
    BY BusyWrite, BusySoftware
  <2>3. Aborting(cfg) => c.error \/ (told /\ ctl.abort)
    BY BusySoftware DEF AbortTold
  <2>. HIDE DEF c
  <2>4. Aborting(cfg) \/ (state \in WriteBackStates /\ ctl.derr) \/ ~c.error
    BY <2>1, <2>2 DEF ErrorHasCause
  <2>. QED  BY <2>1, <2>3, <2>4 DEF c
<1>3. ASSUME NEW cfg \in SwWrites, WithdrawEdge(cfg)
      PROVE  ~csr'.done /\ (csr'.error \/ Quiet)
  BY <1>2, <1>3 DEF WithdrawEdge, Withdraw, StopForAbort, StateAfterStop
<1>4. ASSUME NEW cfg \in SwWrites, NEW ready \in BOOLEAN, UartEdge(cfg, ready)
      PROVE  \/ ~csr'.done /\ (csr'.error \/ Quiet)
             \/ csr'.done /\ ~csr'.error /\ ~ctl.abort /\ xfer'.bytes = job.len
  <2>1. CASE UartAbort(cfg)
    BY <1>2, <2>1 DEF UartAbort, CsrType
  <2>2. CASE UartByte(cfg)
    <3>1. /\ state = "UART_TX_REQ" /\ xfer.len = 1 /\ ~Aborting(cfg)
          /\ csr' = [CsrAfter(cfg) EXCEPT !.done = TRUE]
          /\ xfer'.bytes = Add(xfer.bytes, 1)
      BY <2>2 DEF UartByte, XferType
    <3>2. csr'.done /\ ~csr'.error /\ ~ctl.abort
      BY <1>2, <3>1 DEF CsrType, WriteBackStates
    <3>3. xfer.bytes < job.len /\ job.len - xfer.bytes = 1
      BY <3>1 DEF Registers, Moving, PayloadStates
    <3>4. xfer.bytes \in Nat /\ job.len \in Nat /\ job.len < WordMod /\ WordMod \in Nat
      BY DmaAssumption DEF XferType, EnvTypes, Word
    <3>5. \A n, m \in Nat : m - n = 1 => n + 1 = m
      OBVIOUS
    <3>6. xfer'.bytes = job.len
      BY <3>1, <3>3, <3>4, <3>5 DEF Add
    <3>. QED  BY <3>2, <3>6
  <2>. QED  BY <1>4, <2>1, <2>2 DEF UartEdge
<1>5. ASSUME NEW cfg \in SwWrites, NEW err \in BOOLEAN, RespondEdge(cfg, err)
      PROVE  \/ ~csr'.done /\ (csr'.error \/ Quiet)
             \/ csr'.done /\ ~csr'.error /\ ~ctl.abort /\ xfer'.bytes = job.len
  <2>. DEFINE r == [data |-> mem[bus.addr], err |-> err]
  <2>1. RespStep(cfg, r)
    BY <1>5 DEF RespondEdge
  <2>. HIDE DEF r
  <2>2. CASE FetchFail(cfg, r) \/ PayloadFail(cfg, r) \/ WriteBackFail(cfg, r)
    BY <1>2, <2>2 DEF FetchFail, PayloadFail, WriteBackFail, CsrType
  <2>3. CASE PayloadAbort(cfg, r) \/ AbortDrained(cfg, r)
    BY <1>2, <2>3 DEF PayloadAbort, AbortDrained, StopForAbort, StateAfterStop, Path
  <2>4. CASE WriteDone(cfg, r)
    <3>1. /\ state = "WRITE_WAIT" /\ xfer' = Advanced /\ ~Aborting(cfg)
          /\ xfer.len = 4
          /\ ~ctl.active
      BY <2>4 DEF WriteDone, StateAfterStop
    <3>2. csr' = [CsrAfter(cfg) EXCEPT !.done = TRUE]
      BY <2>4, <3>1 DEF WriteDone
    <3>3. csr'.done /\ ~csr'.error /\ ~ctl.abort
      BY <1>2, <3>1, <3>2 DEF CsrType, WriteBackStates
    <3>4. Moving /\ ~job.uart
      BY <3>1 DEF Registers, Moving, PayloadStates, StreamAt
    <3>. QED  BY <3>1, <3>3, <3>4, CopiedWord
  <2>5. CASE DescriptorFinished(cfg, r)
    <3>. DEFINE more == ~ctl.derr /\ desc.next # 0
    <3>1. /\ state = "WB_BYTES_WAIT" /\ ~Aborting(cfg) /\ ~more /\ xfer' = xfer
      BY <2>5 DEF DescriptorFinished
    <3>2. /\ csr'.error <=> CsrAfter(cfg).error \/ ctl.derr
          /\ csr'.done <=> CsrAfter(cfg).done \/ ~(ctl.derr \/ more)
      BY <1>2, <2>5 DEF DescriptorFinished, CsrType
    <3>3. ~ctl.derr => xfer.bytes = job.len
      BY <3>1 DEF Path, WriteBackStates
    <3>. QED  BY <1>2, <3>1, <3>2, <3>3
  <2>. QED  BY <2>1, <2>2, <2>3, <2>4, <2>5
            DEF RespStep, FetchWord, RefuseDescriptor, TakeDescriptor, ReadDone,
                WriteBackAbort, WriteBackNext
<1>6. ASSUME SoftwareStep \/ PlicSamples \/ HandlerReads \/ UNCHANGED vars
      PROVE  FALSE
  BY <1>6 DEF SoftwareStep, SwGive, SwFill, PlicSamples, HandlerReads, vars, dmaVars
<1>7. ASSUME NEW cfg \in SwWrites, IdleEdge(cfg) \/ HoldEdge(cfg) \/ AcceptEdge(cfg)
      PROVE  FALSE
  <2>1. \A s \in RequestStates : WaitOf[s] # "IDLE"
    BY DEF RequestStates, WaitOf
  <2>. QED  BY <1>7, <2>1 DEF IdleEdge, IdleStep, IdleWrite, StartDescriptors, StartDirect,
                      HoldEdge, Hold, AcceptEdge, Accept
<1>. QED  BY <1>3, <1>4, <1>5, <1>6, <1>7 DEF Next

\* A transfer that ends with no outcome is a direct one whose abort the handler
\* has been told of; every other end shows one, and DONE only for all of it.
THEOREM EndTold == Spec => EndReported
<1>1. Channel /\ [Next]_vars =>
        [ state # "IDLE" /\ state' = "IDLE" =>
            /\ ~(csr'.done /\ csr'.error)
            /\ csr'.done \/ csr'.error \/ (told /\ ctl.abort /\ ~ctl.active)
            /\ csr'.done => ~ctl.abort /\ xfer'.bytes = job.len ]_vars
  BY EndStep
<1>. QED  BY <1>1, ChannelInvariance, PTL DEF Spec, EndReported

-----------------------------------------------------------------------------
(* Descriptors and payload in memory.                                      *)

LEMMA Slots ==
  ASSUME NEW d \in Nat, NEW e \in Nat, d % 32 = 0, e % 32 = 0,
         NEW a \in 0 .. 31, NEW b \in 0 .. 31, d + a = e + b
  PROVE  d = e /\ a = b
OBVIOUS

\* Every word of a descriptor is one of its eight.
LEMMA WordInSlot ==
  ASSUME NEW w \in DescWords
  PROVE  \E d \in DescAddrs, k \in 0 .. 31 : w = d + k
<1>1. PICK d \in DescAddrs, i \in 0 .. 7 : w = d + 4 * i
  BY DEF DescWords
<1>2. 4 * i \in 0 .. 31
  OBVIOUS
<1>. QED  BY <1>1, <1>2

\* A write off the descriptors changes none of them.
LEMMA OffDescriptors ==
  ASSUME NEW m \in [SramWords -> Word], NEW n \in [SramWords -> Word],
         \A w \in DescWords : n[w] = m[w]
  PROVE  \A d \in DescAddrs :
           /\ Fields(n, d) = Fields(m, d)
           /\ n[d] = m[d] /\ n[d + 4] = m[d + 4] /\ n[d + 8] = m[d + 8]
           /\ n[d + 12] = m[d + 12] /\ n[d + 16] = m[d + 16] /\ n[d + 20] = m[d + 20]
BY WordsOf DEF Fields

\* The write of a completion word changes neither the payload nor the fields of
\* any descriptor, but for the control word.
LEMMA CompletionWrite ==
  ASSUME NEW m \in [SramWords -> Word], NEW e \in DescAddrs, NEW k \in {16, 20, 24},
         NEW v \in Word, NEW n, n = [m EXCEPT ![e + k] = v]
  PROVE  /\ n \in [SramWords -> Word]
         /\ \A w \in PayloadWords : n[w] = m[w]
         /\ n[e + k] = v
         /\ \A d \in DescAddrs :
              /\ n[d] = m[d] /\ n[d + 4] = m[d + 4] /\ n[d + 8] = m[d + 8]
              /\ n[d + 12] = m[d + 12]
              /\ d # e \/ k # 16 => n[d + 16] = m[d + 16]
              /\ d # e \/ k # 20 => n[d + 20] = m[d + 20]
<1>1. e + k \in SramWords \cap DescWords
  BY WordsOf
<1>2. n \in [SramWords -> Word] /\ n[e + k] = v
      /\ \A w \in SramWords : w # e + k => n[w] = m[w]
  BY <1>1
<1>3. \A w \in PayloadWords : n[w] = m[w]
  BY <1>1, <1>2 DEF PayloadWords
<1>4. ASSUME NEW d \in DescAddrs, NEW j \in {0, 4, 8, 12, 16, 20}, d # e \/ k # j
      PROVE  n[d + j] = m[d + j]
  <2>1. d + j \in SramWords
    <3>1. d + 0 = d
      BY WordsOf
    <3>. QED  BY <3>1, WordsOf
  <2>2. j \in 0 .. 31 /\ k \in 0 .. 31
    OBVIOUS
  <2>3. d + j # e + k
    <3>. SUFFICES ASSUME d + j = e + k PROVE FALSE
      OBVIOUS
    <3>1. d \in Nat /\ e \in Nat /\ d % 32 = 0 /\ e % 32 = 0
      BY WordsOf
    <3>2. d = e /\ j = k
      BY <2>2, <3>1, Slots
    <3>. QED  BY <1>4, <3>2
  <2>. QED  BY <1>2, <2>1, <2>3
<1>5. ASSUME NEW d \in DescAddrs
      PROVE  /\ n[d] = m[d] /\ n[d + 4] = m[d + 4] /\ n[d + 8] = m[d + 8]
             /\ n[d + 12] = m[d + 12]
             /\ d # e \/ k # 16 => n[d + 16] = m[d + 16]
             /\ d # e \/ k # 20 => n[d + 20] = m[d + 20]
  <2>1. d + 0 = d
    BY WordsOf
  <2>2. k # 0 /\ k # 4 /\ k # 8 /\ k # 12
    OBVIOUS
  <2>. QED  BY <1>4, <2>1, <2>2
<1>. QED  BY <1>2, <1>3, <1>5

\* The word that the channel reads is payload, and still what it was before.
LEMMA SourceWord ==
  ASSUME Channel, Moving, Apart(job), CopyExact, xfer.src \in SramWords
  PROVE  xfer.src \in PayloadWords /\ mem[xfer.src] = job.before[xfer.src]
<1>. EnvTypes /\ Registers /\ xfer \in XferType /\ WordMod \in Nat
  BY DmaAssumption DEF Channel, Inv, DmaTypeOK
<1>1. /\ xfer.bytes \in Nat /\ xfer.byte \in 0 .. 3 /\ xfer.src \in Nat
      /\ job.src \in Nat /\ job.dst \in Nat /\ job.len \in Nat /\ job.uart \in BOOLEAN
  BY DEF XferType, EnvTypes, Word
<1>2. xfer.bytes < job.len
  BY DEF Registers
<1>3. xfer.src >= job.src /\ xfer.src < job.src + job.len
  <2>1. CASE job.uart
    <3>1. xfer.src = job.src + (xfer.bytes - xfer.byte)
      BY <2>1 DEF Registers, StreamAt
    <3>2. xfer.byte <= xfer.bytes
      <4>1. xfer.byte = xfer.bytes % 4
        BY <2>1 DEF Registers, StreamAt
      <4>. QED  BY <1>1, <4>1, NextByte
    <3>3. \A s, n, l, b \in Nat : b <= n /\ n < l =>
            s + (n - b) >= s /\ s + (n - b) < s + l
      OBVIOUS
    <3>4. xfer.byte \in Nat
      BY <1>1
    <3>. QED  BY <1>1, <1>2, <3>1, <3>2, <3>3, <3>4
  <2>2. CASE ~job.uart
    <3>1. xfer.src = job.src + xfer.bytes
      BY <2>2 DEF Registers, CopyAt
    <3>2. \A s, n, l \in Nat : n < l => s + n >= s /\ s + n < s + l
      OBVIOUS
    <3>. QED  BY <1>1, <1>2, <3>1, <3>2
  <2>. QED  BY <2>1, <2>2
<1>4. xfer.src \in PayloadWords
  <2>1. \A w \in DescWords : w < job.src \/ w >= job.src + job.len
    BY DEF Apart
  <2>2. \A a, b, c \in Nat : c >= a /\ c < b => ~(c < a \/ c >= b)
    OBVIOUS
  <2>. QED  BY <1>1, <1>3, <2>1, <2>2 DEF PayloadWords
<1>5. ~job.uart => ~(xfer.src >= job.dst /\ xfer.src < job.dst + xfer.bytes)
  <2>. SUFFICES ASSUME ~job.uart
                PROVE  ~(xfer.src >= job.dst /\ xfer.src < job.dst + xfer.bytes)
    OBVIOUS
  <2>1. xfer.src = job.src + xfer.bytes
    BY DEF Registers, CopyAt
  <2>2. job.dst <= job.src \/ job.dst >= job.src + job.len
    BY DEF Apart
  <2>3. \A s, d, n, l \in Nat : n < l /\ (d <= s \/ d >= s + l) =>
          ~(s + n >= d /\ s + n < d + n)
    OBVIOUS
  <2>. QED  BY <1>1, <1>2, <2>1, <2>2, <2>3
<1>. QED  BY <1>4, <1>5 DEF CopyExact

\* The word that the channel writes is payload, and the next one of the copy.
LEMMA DestinationWord ==
  ASSUME Channel, Moving, ~job.uart, Apart(job), CopyExact,
         xfer.dst \in SramWords, xfer.data = job.before[xfer.src]
  PROVE  /\ xfer.dst \in PayloadWords
         /\ xfer.dst >= job.dst /\ xfer.dst < job.dst + job.len
         /\ \A w \in PayloadWords :
              [mem EXCEPT ![xfer.dst] = xfer.data][w] =
                IF w >= job.dst /\ w < job.dst + (xfer.bytes + 4)
                THEN job.before[w - job.dst + job.src] ELSE job.before[w]
<1>. EnvTypes /\ Registers /\ CopyAt /\ xfer \in XferType /\ WordMod \in Nat
  BY DmaAssumption DEF Channel, Inv, DmaTypeOK, Registers
<1>1. /\ xfer.bytes \in Nat /\ xfer.src \in Nat /\ xfer.dst \in Nat
      /\ job.src \in Nat /\ job.dst \in Nat /\ job.len \in Nat
      /\ mem \in [SramWords -> Word]
  BY DEF XferType, EnvTypes, Word
<1>2. xfer.bytes < job.len /\ job.dst % 4 = 0 /\ xfer.bytes % 4 = 0
      /\ xfer.src = job.src + xfer.bytes /\ xfer.dst = job.dst + xfer.bytes
  BY DEF Registers, CopyAt
<1>3. xfer.dst >= job.dst /\ xfer.dst < job.dst + job.len
  <2>1. \A s, n, l \in Nat : n < l => s + n >= s /\ s + n < s + l
    OBVIOUS
  <2>. QED  BY <1>1, <1>2, <2>1
<1>4. xfer.dst \in PayloadWords
  <2>1. \A w \in DescWords : w < job.dst \/ w >= job.dst + job.len
    BY DEF Apart
  <2>2. \A a, b, c \in Nat : c >= a /\ c < b => ~(c < a \/ c >= b)
    OBVIOUS
  <2>. QED  BY <1>1, <1>3, <2>1, <2>2 DEF PayloadWords
<1>5. ASSUME NEW w \in PayloadWords
      PROVE  [mem EXCEPT ![xfer.dst] = xfer.data][w] =
                IF w >= job.dst /\ w < job.dst + (xfer.bytes + 4)
                THEN job.before[w - job.dst + job.src] ELSE job.before[w]
  <2>1. w \in SramWords /\ w \in Nat /\ w % 4 = 0
    BY SramWordsType DEF PayloadWords, Word
  <2>2. \A x, d, n, s \in Nat : x % 4 = 0 /\ d % 4 = 0 /\ n % 4 = 0 =>
          /\ x = d + n => x >= d /\ x < d + (n + 4) /\ x - d + s = s + n
          /\ x # d + n => (x < d + (n + 4) <=> x < d + n)
    OBVIOUS
  <2>3. CASE w = xfer.dst
    <3>1. [mem EXCEPT ![xfer.dst] = xfer.data][w] = xfer.data
      BY <1>1, <2>1, <2>3
    <3>2. w >= job.dst /\ w < job.dst + (xfer.bytes + 4)
          /\ w - job.dst + job.src = xfer.src
      BY <1>1, <1>2, <2>1, <2>2, <2>3
    <3>. QED  BY <3>1, <3>2
  <2>4. CASE w # xfer.dst
    <3>1. [mem EXCEPT ![xfer.dst] = xfer.data][w] = mem[w]
      BY <1>1, <2>1, <2>4
    <3>2. w < job.dst + (xfer.bytes + 4) <=> w < job.dst + xfer.bytes
      BY <1>1, <1>2, <2>1, <2>2, <2>4
    <3>. QED  BY <3>1, <3>2 DEF CopyExact
  <2>. QED  BY <2>3, <2>4
<1>. QED  BY <1>3, <1>4, <1>5

-----------------------------------------------------------------------------
(* The second invariant is inductive, one lemma per edge.                  *)

LEMMA ContractInit == Init => Contract
<1>. SUFFICES ASSUME Init PROVE Contract
  OBVIOUS
<1>1. /\ mem = Memory0 /\ job.before = Payload(Memory0) /\ xfer.bytes = 0
      /\ job.dst = 0 /\ ~job.uart /\ state = "IDLE" /\ ~ctl.active /\ ~ctl.inflight
      /\ call = "none" /\ desc.head = 0
      /\ given = [d \in DescAddrs |-> IF Own(Memory0[d + 16]) THEN Fields(Memory0, d)
                                      ELSE NotGiven]
  BY DEF Init, DmaInit
<1>2. CopyExact
  <2>1. \A w \in PayloadWords : w \in Nat /\ job.before[w] = mem[w]
    BY <1>1, SramWordsType DEF Payload, PayloadWords, Word
  <2>2. \A w \in Nat : ~(w >= 0 /\ w < 0 + 0)
    OBVIOUS
  <2>. QED  BY <1>1, <2>1, <2>2 DEF CopyExact
<1>3. Calls /\ Ownership
  BY <1>1, SoftwareAssumption DEF Calls, Ownership, FetchStates
<1>. QED  BY <1>1, <1>2, <1>3 DEF Contract, Carried, Moving, PayloadStates, UartStream

LEMMA BusyCalls ==
  ASSUME Channel, Calls, state # "IDLE", NEW cfg \in SwWrites, Counted(cfg),
         desc'.head = desc.head
  PROVE  Calls'
BY BusyCounted DEF Channel, Inv, Calls, Links, DescriptorAddr, RangeAllowed

LEMMA HoldContract ==
  ASSUME Channel, Contract, NEW cfg \in SwWrites, HoldEdge(cfg)
  PROVE  Contract'
<1>. /\ DmaTypeOK /\ EnvTypes /\ Path /\ ctl \in CtlType /\ csr \in CsrType
     /\ ~csr.done
     /\ Calls /\ Ownership /\ Carried /\ CopyExact /\ UartStream
  BY DEF Channel, Inv, DmaTypeOK, OutcomeExclusive, Contract, HoldEdge, Hold
<1>1. state # "IDLE"
  BY DEF HoldEdge, Hold
<1>2. /\ state' = state /\ xfer' = xfer /\ desc' = desc /\ mem' = mem /\ bus' = bus
      /\ given' = given /\ job' = job /\ sent' = sent /\ csr' = CsrAfter(cfg)
  BY DEF HoldEdge, Hold
<1>3. /\ ctl'.inflight = ctl.inflight /\ ctl'.active = ctl.active
      /\ ~ctl'.abort => ~ctl.abort /\ ctl'.derr = ctl.derr
      /\ ~csr'.done
  BY <1>1, BusySoftware DEF HoldEdge, Hold, CtlType
<1>4. Calls'
  BY <1>1, <1>2, BusyCalls DEF HoldEdge, Software
<1>5. Ownership'
  BY <1>2, <1>3 DEF Ownership, Fields, Promised, DescFields
<1>6. Carried' /\ CopyExact' /\ UartStream'
  BY <1>2, <1>3 DEF Carried, Moving, Apart, CopyExact, UartStream
<1>. QED  BY <1>4, <1>5, <1>6 DEF Contract

LEMMA WithdrawContract ==
  ASSUME Channel, Contract, NEW cfg \in SwWrites, WithdrawEdge(cfg)
  PROVE  Contract'
<1>. /\ DmaTypeOK /\ EnvTypes /\ Path /\ Registers
     /\ ctl \in CtlType /\ csr \in CsrType
     /\ Calls /\ Ownership /\ Carried /\ CopyExact /\ UartStream
  BY DEF Channel, Inv, DmaTypeOK, Contract
<1>1. state \in {"READ_REQ", "WRITE_REQ"} /\ state # "IDLE"
  BY DEF WithdrawEdge, Withdraw
<1>2. /\ state' = (IF ctl.active THEN "WB_CTRL_REQ" ELSE "IDLE")
      /\ xfer' = xfer /\ desc' = desc /\ mem' = mem /\ bus' = bus
      /\ given' = given /\ job' = job /\ sent' = sent /\ csr' = CsrAfter(cfg)
  BY DEF WithdrawEdge, Withdraw, StopForAbort, StateAfterStop
<1>3. /\ ctl'.inflight = ctl.inflight /\ ctl'.active = ctl.active
      /\ ~csr.done /\ ~csr'.done /\ ~ctl.inflight
  BY <1>1, <1>2, BusySoftware DEF WithdrawEdge, Withdraw, StopForAbort, CtlType, Channel,
                              Inv, OutcomeExclusive, Path
<1>4. Calls'
  BY <1>1, <1>2, BusyCalls DEF WithdrawEdge, Software
<1>5. Ownership'
  BY <1>1, <1>2, <1>3 DEF Ownership, Fields, Promised, DescFields, FetchStates
<1>6. job.uart => ~ctl.active /\ state # "WRITE_REQ"
  BY <1>1 DEF Registers, Moving, PayloadStates, StreamAt
<1>7. Carried' /\ CopyExact'
  BY <1>1, <1>2, <1>3, <1>6 DEF Carried, Moving, PayloadStates, CopyExact
<1>8. UartStream'
  BY <1>1, <1>2, <1>3, <1>6 DEF UartStream
<1>. QED  BY <1>4, <1>5, <1>7, <1>8 DEF Contract

LEMMA AcceptContract ==
  ASSUME Channel, Contract, NEW cfg \in SwWrites, AcceptEdge(cfg)
  PROVE  Contract'
<1>. /\ DmaTypeOK /\ EnvTypes /\ Path /\ Registers
     /\ ctl \in CtlType /\ csr \in CsrType
     /\ Calls /\ Ownership /\ Carried /\ CopyExact /\ UartStream
  BY DEF Channel, Inv, DmaTypeOK, Contract
<1>. DEFINE drain == Aborting(cfg) /\ state # "FETCH_REQ"
<1>1. state \in RequestStates /\ state # "IDLE"
  BY DEF AcceptEdge, Accept, RequestStates
<1>2. /\ xfer' = xfer /\ desc' = desc /\ mem' = mem
      /\ given' = given /\ job' = job /\ sent' = sent /\ csr' = CsrAfter(cfg)
      /\ state' = IF drain THEN "ABORT_WAIT" ELSE WaitOf[state]
  BY DEF AcceptEdge, Accept
<1>3. /\ ctl'.active = ctl.active
      /\ ~ctl'.abort => ~ctl.abort
      /\ IF drain THEN ctl'.inflight = (state = "WRITE_REQ")
                  ELSE ctl'.derr = ctl.derr /\ ctl'.inflight = ctl.inflight
      /\ ~csr.done /\ ~csr'.done /\ ~ctl.inflight
  BY <1>1, <1>2, BusySoftware
     DEF AcceptEdge, Accept, CtlType, Channel, Inv, OutcomeExclusive, Path, RequestStates
<1>4. Calls'
  BY <1>1, <1>2, BusyCalls DEF AcceptEdge, Software
<1>5. job.uart => /\ state \in {"READ_REQ", "FETCH_REQ"}
                  /\ state = "READ_REQ" => ~ctl.active
  BY <1>1 DEF Registers, Moving, PayloadStates, StreamAt, Carried, RequestStates,
              FetchStates
<1>6. CopyExact'
  BY <1>2 DEF CopyExact
<1>7. CASE drain
  <2>1. state' = "ABORT_WAIT" /\ state # "FETCH_REQ" /\ ctl'.inflight = (state = "WRITE_REQ")
    BY <1>2, <1>3, <1>7
  <2>2. ctl.active => given[desc.addr] = DescFields /\ Promised(DescFields)
    BY <1>1, <2>1 DEF Ownership, FetchStates, RequestStates
  <2>3. Ownership'
    BY <1>1, <1>2, <1>3, <2>1, <2>2
       DEF Ownership, Fields, Promised, DescFields, FetchStates, RequestStates
  <2>4. Carried'
    BY <1>1, <1>2, <1>3, <1>5, <2>1
       DEF Carried, Moving, PayloadStates, FetchStates, RequestStates, Apart
  <2>5. UartStream'
    BY <1>1, <1>2, <1>3, <1>5, <2>1 DEF UartStream, RequestStates
  <2>. QED  BY <1>4, <1>6, <2>3, <2>4, <2>5 DEF Contract
<1>8. CASE ~drain
  <2>1. state' = WaitOf[state] /\ ctl'.derr = ctl.derr /\ ~ctl'.inflight
    BY <1>2, <1>3, <1>8
  <2>2. Ownership'
    BY <1>1, <1>2, <1>3, <2>1
       DEF Ownership, Fields, Promised, DescFields, FetchStates, RequestStates, WaitOf
  <2>3. Carried'
    BY <1>1, <1>2, <1>3, <1>5, <2>1
       DEF Carried, Moving, PayloadStates, FetchStates, RequestStates, WaitOf, Apart
  <2>4. UartStream'
    BY <1>1, <1>2, <1>3, <1>5, <2>1 DEF UartStream, RequestStates, WaitOf
  <2>. QED  BY <1>4, <1>6, <2>2, <2>3, <2>4 DEF Contract
<1>. QED  BY <1>7, <1>8

\* The address of a byte's word, in the two ways in which it is counted.
LEMMA WordOfByte ==
  ASSUME NEW n \in Nat
  PROVE  4 * (n \div 4) = n - (n % 4)
OBVIOUS

\* The byte that the UART takes is the next one of the source.
LEMMA NextSent ==
  ASSUME Channel, Contract, state = "UART_TX_REQ", NEW s,
         s = Append(sent, <<xfer.data, xfer.byte>>)
  PROVE  /\ Len(sent) = xfer.bytes /\ Len(s) = xfer.bytes + 1
         /\ \A k \in 1 .. Len(s) :
              s[k] = <<job.before[job.src + 4 * ((k - 1) \div 4)], (k - 1) % 4>>
<1>. /\ EnvTypes /\ UartStream /\ Carried /\ job.uart /\ StreamAt
     /\ xfer \in XferType /\ WordMod \in Nat
  BY InStream, DmaAssumption DEF Channel, Inv, DmaTypeOK, Contract
<1>1. /\ xfer.bytes \in Nat /\ xfer.byte \in 0 .. 3 /\ job.src \in Nat
      /\ sent \in Seq(Word \X (0 .. 3)) /\ <<xfer.data, xfer.byte>> \in Word \X (0 .. 3)
  BY DEF XferType, EnvTypes, Word
<1>2. /\ Len(sent) = xfer.bytes
      /\ \A k \in 1 .. Len(sent) :
           sent[k] = <<job.before[job.src + 4 * ((k - 1) \div 4)], (k - 1) % 4>>
  BY DEF UartStream
<1>3. xfer.data = job.before[xfer.src]
  BY DEF Carried
<1>4. xfer.src = job.src + 4 * (xfer.bytes \div 4) /\ xfer.byte = xfer.bytes % 4
  <2>1. xfer.byte = xfer.bytes % 4
    BY DEF StreamAt
  <2>2. xfer.src = job.src + (xfer.bytes - xfer.byte)
    BY DEF StreamAt
  <2>3. xfer.bytes - xfer.byte = 4 * (xfer.bytes \div 4)
    BY <1>1, <2>1, WordOfByte
  <2>. QED  BY <2>1, <2>2, <2>3
<1>5. /\ Len(s) = Len(sent) + 1
      /\ s[Len(sent) + 1] = <<xfer.data, xfer.byte>>
      /\ \A k \in 1 .. Len(sent) : s[k] = sent[k]
  BY <1>1
<1>6. \A k \in 1 .. Len(s) : k \in 1 .. Len(sent) \/ k = Len(sent) + 1
  BY <1>1, <1>2, <1>5
<1>7. (xfer.bytes + 1) - 1 = xfer.bytes
  BY <1>1
<1>8. s[xfer.bytes + 1] =
        <<job.before[job.src + 4 * (((xfer.bytes + 1) - 1) \div 4)],
          ((xfer.bytes + 1) - 1) % 4>>
  BY <1>2, <1>3, <1>4, <1>5, <1>7
<1>. QED  BY <1>2, <1>5, <1>6, <1>8

LEMMA UartContract ==
  ASSUME Channel, Contract, NEW cfg \in SwWrites, NEW ready \in BOOLEAN,
         UartEdge(cfg, ready)
  PROVE  Contract'
<1>. /\ DmaTypeOK /\ EnvTypes /\ Path /\ Registers
     /\ ctl \in CtlType /\ csr \in CsrType /\ xfer \in XferType /\ WordMod \in Nat
     /\ Calls /\ Ownership /\ Carried /\ CopyExact /\ UartStream
  BY DmaAssumption DEF Channel, Inv, DmaTypeOK, Contract
<1>1. state = "UART_TX_REQ" /\ state # "IDLE"
  BY DEF UartEdge, UartByte, UartAbort
<1>2. /\ desc' = desc /\ mem' = mem /\ bus' = bus /\ given' = given /\ job' = job
  BY DEF UartEdge, UartByte, UartAbort
<1>3. job.uart /\ StreamAt /\ ~ctl.active /\ ~ctl.inflight
  BY <1>1, InStream
<1>4. state' \in {"IDLE", "READ_REQ", "UART_TX_REQ"}
  BY <1>1 DEF UartEdge, UartByte, UartAbort
<1>5. ctl'.active = FALSE /\ ctl'.inflight = FALSE
  BY <1>1, <1>3 DEF UartEdge, UartByte, UartAbort, CtlType
<1>6. Calls'
  BY <1>1, <1>2, BusyCalls DEF UartEdge, Software
<1>7. Ownership'
  BY <1>2, <1>4, <1>5 DEF Ownership, Fields, Promised, FetchStates
<1>8. CopyExact'
  BY <1>2, <1>3 DEF CopyExact
<1>9. Carried'
  <2>1. state' = "UART_TX_REQ" => xfer'.data = xfer.data /\ xfer'.src = xfer.src
    BY DEF UartEdge, UartByte, UartAbort, XferType
  <2>. QED  BY <1>1, <1>2, <1>4, <1>5, <2>1
            DEF Carried, Moving, PayloadStates, Apart
<1>10. UartStream'
  <2>. DEFINE s == Append(sent, <<xfer.data, xfer.byte>>)
  <2>1. /\ Len(sent) = xfer.bytes /\ Len(s) = xfer.bytes + 1
        /\ \A k \in 1 .. Len(s) :
             s[k] = <<job.before[job.src + 4 * ((k - 1) \div 4)], (k - 1) % 4>>
        /\ \A k \in 1 .. Len(sent) :
             sent[k] = <<job.before[job.src + 4 * ((k - 1) \div 4)], (k - 1) % 4>>
    BY <1>1, <1>3, NextSent DEF UartStream
  <2>2. sent' = IF ready THEN s ELSE sent
    BY DEF UartEdge
  <2>. HIDE DEF s
  <2>3. CASE UartAbort(cfg)
    <3>1. xfer' = xfer /\ state' = "IDLE" /\ ~csr'.done
      BY <1>1, <2>3, BusySoftware DEF UartAbort, CsrType, Channel, Inv, OutcomeExclusive
    <3>. QED  BY <1>2, <2>1, <2>2, <3>1 DEF UartStream
  <2>4. CASE ready /\ UartByte(cfg)
    <3>1. xfer'.bytes = Add(xfer.bytes, 1)
      BY <2>4 DEF UartByte, XferType
    <3>2. /\ xfer.bytes \in Nat /\ job.len \in Nat /\ xfer.bytes < job.len
          /\ job.len < WordMod
      BY <1>1 DEF XferType, EnvTypes, Word, Registers, Moving, PayloadStates
    <3>3. xfer'.bytes = xfer.bytes + 1
      BY <3>1, <3>2 DEF Add
    <3>. QED  BY <1>2, <2>1, <2>2, <2>4, <3>3 DEF UartStream
  <2>. QED  BY <2>3, <2>4 DEF UartEdge
<1>. QED  BY <1>6, <1>7, <1>8, <1>9, <1>10 DEF Contract

\* Software prepares a descriptor while the channel is idle.
LEMMA SoftwareContract ==
  ASSUME Channel, Contract, ~PrepareWhileBusy, SoftwareStep
  PROVE  Contract'
<1>. /\ EnvTypes /\ Path /\ mem \in [SramWords -> Word]
     /\ Calls /\ Ownership /\ Carried /\ CopyExact /\ UartStream
  BY DEF Channel, EnvTypes, Contract
<1>1. /\ state' = state /\ ctl' = ctl /\ xfer' = xfer /\ desc' = desc /\ csr' = csr
      /\ job' = job /\ sent' = sent /\ call' = call
  BY DEF SoftwareStep, SwGive, SwFill, dmaVars
<1>2. state = "IDLE" /\ ~ctl.active /\ ~ctl.inflight
  BY DEF SoftwareStep, SwGive, SwFill, MayPrepare, Path
<1>3. mem' \in [SramWords -> Word]
  BY SoftwareChannel DEF EnvTypes
<1>4. ASSUME NEW d \in DescAddrs, SwGive(d)
      PROVE  /\ \A w \in PayloadWords : mem'[w] = mem[w]
             /\ \A e \in DescAddrs : Promised(Fields(mem', e))
             /\ \A e \in DescAddrs : Own(mem'[e + 16]) => given'[e] = Fields(mem', e)
  <2>1. mem' = [mem EXCEPT ![d + 16] = mem[d + 16] + 1]
        /\ given' = [given EXCEPT ![d] = Fields(mem', d)]
    BY <1>4 DEF SwGive
  <2>2. mem[d + 16] + 1 \in Word
    <3>1. d + 16 \in SramWords
      BY WordsOf
    <3>. QED  BY <1>3, <2>1, <3>1
  <2>3. /\ \A w \in PayloadWords : mem'[w] = mem[w]
        /\ \A e \in DescAddrs :
             /\ mem'[e] = mem[e] /\ mem'[e + 4] = mem[e + 4] /\ mem'[e + 8] = mem[e + 8]
             /\ mem'[e + 12] = mem[e + 12] /\ (e # d => mem'[e + 16] = mem[e + 16])
    BY <2>1, <2>2, CompletionWrite
  <2>4. \A e \in DescAddrs : Promised(Fields(mem', e))
    BY <2>3 DEF Ownership, Promised, Fields, Apart
  <2>5. given \in [DescAddrs -> {NotGiven} \cup FieldsType]
    BY DEF EnvTypes
  <2>6. ASSUME NEW e \in DescAddrs, Own(mem'[e + 16])
        PROVE  given'[e] = Fields(mem', e)
    <3>1. CASE e = d
      BY <2>1, <2>5, <3>1
    <3>2. CASE e # d
      <4>1. given'[e] = given[e] /\ Fields(mem', e) = Fields(mem, e)
        BY <2>1, <2>3, <2>5, <3>2 DEF Fields
      <4>. QED  BY <2>3, <2>6, <3>2, <4>1 DEF Ownership
    <3>. QED  BY <3>1, <3>2
  <2>. QED  BY <2>3, <2>4, <2>6
<1>5. ASSUME NEW d \in DescAddrs, NEW t \in Templates[d], SwFill(d, t)
      PROVE  /\ \A w \in PayloadWords : mem'[w] = mem[w]
             /\ \A e \in DescAddrs : Promised(Fields(mem', e))
             /\ \A e \in DescAddrs : Own(mem'[e + 16]) => given'[e] = Fields(mem', e)
  <2>. DEFINE Words == {d, d + 4, d + 8, d + 12, d + 16, d + 20, d + 24, d + 28}
  <2>1. /\ mem' = [mem EXCEPT ![d] = t.next, ![d + 4] = t.src, ![d + 8] = t.dst,
                        ![d + 12] = t.len, ![d + 16] = t.ctrl,
                        ![d + 20] = 0, ![d + 24] = 0, ![d + 28] = 0]
        /\ given' = [given EXCEPT ![d] = NotGiven]
    BY <1>5 DEF SwFill
  <2>2. d \in Nat /\ Words \subseteq SramWords \cap DescWords
    BY WordsOf
  <2>3. /\ mem'[d] = t.next /\ mem'[d + 4] = t.src /\ mem'[d + 8] = t.dst
        /\ mem'[d + 12] = t.len /\ mem'[d + 16] = t.ctrl
    BY <2>1, <2>2
  <2>4. \A w \in SramWords \ Words : mem'[w] = mem[w]
    BY <2>1
  <2>5. \A w \in PayloadWords : mem'[w] = mem[w]
    BY <2>2, <2>4 DEF PayloadWords
  <2>6. Promised(t) /\ ~Own(t.ctrl)
    BY SoftwareAssumption
  <2>7. ASSUME NEW e \in DescAddrs, e # d
        PROVE  /\ Fields(mem', e) = Fields(mem, e) /\ mem'[e + 16] = mem[e + 16]
    <3>1. ASSUME NEW j \in {0, 4, 8, 12, 16}
          PROVE  mem'[e + j] = mem[e + j]
      <4>1. e + j \in SramWords /\ e \in Nat /\ e % 32 = 0 /\ d % 32 = 0
        <5>1. e + 0 = e
          BY WordsOf
        <5>. QED  BY <5>1, WordsOf
      <4>2. ASSUME NEW b \in {0, 4, 8, 12, 16, 20, 24, 28}
            PROVE  e + j # d + b
        BY <2>2, <2>7, <4>1, Slots
      <4>3. e + j \notin Words
        <5>1. d + 0 = d
          BY <2>2
        <5>. QED  BY <4>2, <5>1
      <4>. QED  BY <2>4, <4>1, <4>3
    <3>2. e + 0 = e
      BY WordsOf
    <3>. QED  BY <3>1, <3>2 DEF Fields
  <2>8. Promised(Fields(mem', d))
    BY <2>3, <2>6 DEF Promised, Fields, Apart
  <2>9. \A e \in DescAddrs : Promised(Fields(mem', e))
    BY <2>7, <2>8 DEF Ownership
  <2>10. given \in [DescAddrs -> {NotGiven} \cup FieldsType]
    BY DEF EnvTypes
  <2>11. \A e \in DescAddrs : Own(mem'[e + 16]) => given'[e] = Fields(mem', e)
    BY <2>1, <2>3, <2>6, <2>7, <2>10 DEF Ownership
  <2>. QED  BY <2>5, <2>9, <2>11
<1>6. /\ \A w \in PayloadWords : mem'[w] = mem[w]
      /\ \A e \in DescAddrs : Promised(Fields(mem', e))
      /\ \A e \in DescAddrs : Own(mem'[e + 16]) => given'[e] = Fields(mem', e)
  BY <1>4, <1>5 DEF SoftwareStep
<1>7. Ownership'
  BY <1>1, <1>2, <1>6 DEF Ownership, FetchStates
<1>8. CopyExact'
  BY <1>1, <1>6 DEF CopyExact
<1>9. Calls' /\ Carried' /\ UartStream'
  BY <1>1, <1>2 DEF Calls, Carried, Moving, PayloadStates, UartStream
<1>. QED  BY <1>7, <1>8, <1>9 DEF Contract

\* A call of the driver has written a transfer that software may ask for, before
\* it starts it.
LEMMA IdleContract ==
  ASSUME Channel, Contract, NEW cfg \in SwWrites, IdleEdge(cfg)
  PROVE  Contract'
<1>. /\ DmaTypeOK /\ EnvTypes /\ Path /\ OutcomeExclusive
     /\ ctl \in CtlType /\ csr \in CsrType /\ xfer \in XferType /\ desc \in DescType
     /\ Calls /\ Ownership /\ Carried /\ CopyExact /\ UartStream
  BY DEF Channel, Inv, DmaTypeOK, Contract
<1>1. /\ cfg \in CfgWrites /\ state = "IDLE" /\ IdleStep(cfg) /\ Counted(cfg)
      /\ cfg \in {NoCfg, ClearStatus} \cup IdleWrites
  BY SwWritesType DEF IdleEdge, IdleStep, IdleWrite, StartDescriptors, StartDirect,
                      DescType, Software, SwWrites
<1>2. /\ mem' = mem /\ bus' = bus /\ given' = given
      /\ IF state' = "READ_REQ" THEN job' = NewJob(cfg.uart, xfer.len) /\ sent' = <<>>
         ELSE job' = job /\ sent' = sent
  BY DEF IdleEdge
<1>3. ~ctl.active /\ ~ctl.inflight
  BY <1>1 DEF Path
<1>4. /\ cfg.reg \in {"SRC", "DST", "LEN", "DESC_HEAD"} => cfg \in IdleWrites
      /\ IsStart(cfg) /\ ~cfg.descStart => call = "LEN"
  <2>1. NoCfg.reg = "none" /\ ClearStatus.reg = "STATUS"
    BY DEF NoCfg, ClearStatus
  <2>2. cfg \in IdleWrites /\ cfg.reg = "CTRL" => call = "LEN" \/ cfg.descStart
    BY <2>1 DEF IdleWrites, Ctrl
  <2>. QED  BY <1>1, <2>1, <2>2 DEF IsStart
<1>5. CASE IdleWrite(cfg)
  <2>1. /\ state' = "IDLE" /\ ctl' = ctl /\ csr' = CsrAfter(cfg)
        /\ xfer'.bytes = xfer.bytes
        /\ job' = job /\ sent' = sent /\ desc'.addr = desc.addr
    BY <1>2, <1>5 DEF IdleWrite, XferType, DescType
  <2>2. csr'.done => csr.done
    BY <1>1, <2>1 DEF CsrAfter, CsrAfterCtrl, CsrAfterStatus, CsrType, CfgWrites,
                      CtrlWrites, StatusWrites, ParamWrites, NoCfg
  <2>3. Ownership' /\ Carried' /\ CopyExact' /\ UartStream'
    BY <1>1, <1>2, <1>3, <2>1, <2>2
       DEF Ownership, Fields, Promised, FetchStates, Carried, Moving, PayloadStates,
           CopyExact, UartStream
  <2>4. Calls'
    <3>1. ~IsStart(cfg) /\ call' \in {call, cfg.reg}
      BY <1>1, <1>5 DEF Counted, IdleWrite
    <3>2. CASE cfg.reg = "SRC"
      <4>1. xfer' = [xfer EXCEPT !.src = cfg.value] /\ desc' = desc
        BY <1>5, <3>2 DEF IdleWrite
      <4>2. call = "STATUS" /\ \E t \in Transfers : t.src = cfg.value
        BY <1>4, <3>2 DEF IdleWrites, ClearStatus, Ctrl
      <4>. QED  BY <3>1, <3>2, <4>1, <4>2 DEF Calls, XferType, Links
    <3>3. CASE cfg.reg = "DST"
      <4>1. xfer' = [xfer EXCEPT !.dst = cfg.value] /\ desc' = desc
        BY <1>5, <3>3 DEF IdleWrite
      <4>2. call = "SRC" /\ \E t \in Transfers : t.src = xfer.src /\ t.dst = cfg.value
        BY <1>4, <3>3 DEF IdleWrites, ClearStatus, Ctrl
      <4>. QED  BY <3>1, <3>3, <4>1, <4>2 DEF Calls, XferType, Links
    <3>4. CASE cfg.reg = "LEN"
      <4>1. xfer' = [xfer EXCEPT !.len = cfg.value] /\ desc' = desc
        BY <1>5, <3>4 DEF IdleWrite
      <4>2. /\ call = "DST"
            /\ \E t \in Transfers : t.src = xfer.src /\ t.dst = xfer.dst
                                    /\ t.len = cfg.value
        BY <1>4, <3>4 DEF IdleWrites, ClearStatus, Ctrl
      <4>. QED  BY <3>1, <3>4, <4>1, <4>2 DEF Calls, XferType, Links
    <3>5. CASE cfg.reg = "DESC_HEAD"
      <4>1. /\ xfer' = xfer /\ desc' = [desc EXCEPT !.head = cfg.value]
        BY <1>5, <3>5 DEF IdleWrite
      <4>2. cfg.value \in Heads
        BY <1>4, <3>5 DEF IdleWrites, ClearStatus, Ctrl
      <4>. QED  BY <3>1, <3>5, <4>1, <4>2, SoftwareAssumption DEF Calls, DescType, Links
    <3>6. CASE cfg.reg \notin {"SRC", "DST", "LEN", "DESC_HEAD"}
      <4>1. xfer' = xfer /\ desc' = desc
        BY <1>5, <3>6 DEF IdleWrite
      <4>. QED  BY <3>1, <3>6, <4>1 DEF Calls, Links
    <3>. QED  BY <3>2, <3>3, <3>4, <3>5, <3>6
  <2>. QED  BY <2>3, <2>4 DEF Contract
<1>6. CASE StartDescriptors(cfg)
  <2>. DEFINE refused == cfg.uart \/ ~DescriptorAddr(desc.head)
  <2>1. /\ state' = (IF refused THEN "IDLE" ELSE "FETCH_REQ")
        /\ ctl'.active = ~refused /\ ctl'.inflight = ctl.inflight
        /\ ~csr'.done /\ xfer' = xfer
        /\ desc'.head = desc.head
        /\ ~refused => desc'.addr = desc.head /\ desc'.word = 0
        /\ job' = job /\ sent' = sent
    BY <1>2, <1>6 DEF StartDescriptors, CsrAtStart, CtlType, DescType
  <2>2. ~refused => desc.head \in DescAddrs
    BY DEF Calls, Links
  <2>. HIDE DEF refused
  <2>3. call' = "none"
    BY <1>1, <1>6 DEF StartDescriptors, Counted, IsStart
  <2>4. Calls'
    BY <2>1, <2>3 DEF Calls, Links
  <2>5. Ownership'
    <3>1. CASE refused
      BY <1>2, <2>1, <3>1 DEF Ownership, Fields, FetchStates
    <3>2. CASE ~refused
      <4>1. ~(desc'.word > 0) /\ ~(desc'.word > 1) /\ ~(desc'.word > 2)
            /\ ~(desc'.word > 3) /\ ~(desc'.word > 4)
        BY <2>1, <3>2
      <4>. QED  BY <1>2, <2>1, <2>2, <3>2, <4>1 DEF Ownership, Fields, FetchStates
    <3>. QED  BY <3>1, <3>2
  <2>6. Carried' /\ CopyExact' /\ UartStream'
    BY <1>1, <1>2, <1>3, <2>1
       DEF Carried, Moving, PayloadStates, FetchStates, CopyExact, UartStream
  <2>. QED  BY <2>4, <2>5, <2>6 DEF Contract
<1>7. CASE StartDirect(cfg)
  <2>1. /\ state' = (IF DirectStartAllowed(cfg.uart) THEN "READ_REQ" ELSE "IDLE")
        /\ ctl'.active = FALSE /\ ctl'.inflight = ctl.inflight
        /\ ~csr'.done /\ desc' = desc
        /\ xfer'.src = xfer.src /\ xfer'.dst = xfer.dst /\ xfer'.len = xfer.len
        /\ xfer'.bytes = IF DirectStartAllowed(cfg.uart) THEN 0 ELSE xfer.bytes
    BY <1>7 DEF StartDirect, CsrAtStart, CtlType, XferType
  <2>2. call = "LEN" /\ call' = "none"
    BY <1>1, <1>4, <1>7 DEF StartDirect, Counted, IsStart
  <2>3. Calls' /\ Ownership'
    BY <1>2, <2>1, <2>2 DEF Calls, Links, Ownership, Fields, Promised, FetchStates
  <2>4. CASE ~DirectStartAllowed(cfg.uart)
    BY <1>1, <1>2, <1>3, <2>1, <2>3, <2>4
       DEF Contract, Carried, Moving, PayloadStates, CopyExact, UartStream
  <2>5. CASE DirectStartAllowed(cfg.uart)
    <3>1. /\ job'.src = xfer.src /\ job'.dst = xfer.dst /\ job'.len = xfer.len
          /\ job'.before = Payload(mem) /\ sent' = <<>> /\ state' = "READ_REQ"
      BY <1>2, <2>1, <2>5 DEF NewJob
    <3>2. Apart(job')
      <4>1. PICK t \in Transfers : t.src = xfer.src /\ t.dst = xfer.dst /\ t.len = xfer.len
        BY <2>2 DEF Calls
      <4>2. Apart(t)
        BY SoftwareAssumption
      <4>. QED  BY <3>1, <4>1, <4>2 DEF Apart
    <3>3. Carried'
      BY <1>3, <2>1, <3>1, <3>2 DEF Carried, Moving, PayloadStates, FetchStates
    <3>4. CopyExact'
      <4>1. \A w \in PayloadWords : w \in Nat /\ job'.before[w] = mem'[w]
        <5>1. \A w \in PayloadWords : Payload(mem)[w] = mem[w]
          BY DEF Payload
        <5>2. \A w \in PayloadWords : w \in Nat
          BY SramWordsType, DmaAssumption DEF PayloadWords, Word
        <5>3. job'.before = Payload(mem) /\ mem' = mem
          BY <1>2, <3>1
        <5>. QED  BY <5>1, <5>2, <5>3
      <4>2. xfer.dst \in Nat /\ \A w, d \in Nat : ~(w >= d /\ w < d + 0)
        BY DEF XferType, Word
      <4>. QED  BY <2>1, <2>5, <3>1, <4>1, <4>2 DEF CopyExact
    <3>5. UartStream'
      <4>1. Len(<<>>) = 0 /\ \A k \in 1 .. 0 : FALSE
        OBVIOUS
      <4>. QED  BY <2>1, <2>5, <3>1, <4>1 DEF UartStream
    <3>. QED  BY <2>3, <3>3, <3>4, <3>5 DEF Contract
  <2>. QED  BY <2>4, <2>5
<1>. QED  BY <1>1, <1>5, <1>6, <1>7 DEF IdleStep

\* No answer touches DESC_HEAD, and none sets DONE but at a transfer's good end.
LEMMA RespondCalls ==
  ASSUME Channel, Calls, NEW cfg \in SwWrites, NEW err \in BOOLEAN, RespondEdge(cfg, err)
  PROVE  Calls'
<1>. DEFINE r == [data |-> mem[bus.addr], err |-> err]
<1>. DmaTypeOK /\ EnvTypes /\ desc \in DescType
  BY DEF Channel, Inv, DmaTypeOK
<1>1. RespStep(cfg, r) /\ Counted(cfg)
  BY DEF RespondEdge, Software
<1>. HIDE DEF r
<1>2. desc'.head = desc.head /\ state # "IDLE"
  BY <1>1 DEF RespStep, FetchWord, FetchFail, RefuseDescriptor, TakeDescriptor, ReadDone,
              WriteDone, PayloadFail, PayloadAbort, AbortDrained, WriteBackAbort,
              WriteBackFail, WriteBackNext, DescriptorFinished, WriteBackWaits,
              Fetched, DescType
<1>. QED  BY <1>1, <1>2, BusyCalls

\* A descriptor is fetched as software gave it.
LEMMA FetchContract ==
  ASSUME Channel, Contract, NEW cfg \in SwWrites, NEW err \in BOOLEAN,
         RespondEdge(cfg, err), state = "FETCH_WAIT", ~ctl'.inflight
  PROVE  Contract'
<1>. /\ DmaTypeOK /\ EnvTypes /\ Path /\ Asked
     /\ ctl \in CtlType /\ csr \in CsrType /\ xfer \in XferType /\ desc \in DescType
     /\ Calls /\ Ownership /\ Carried /\ CopyExact /\ UartStream
  BY DEF Channel, Inv, DmaTypeOK, Contract
<1>. DEFINE r == [data |-> mem[bus.addr], err |-> err]
<1>1. RespStep(cfg, r) /\ ~bus.we /\ bus.addr = desc.addr + 4 * desc.word
  BY DEF RespondEdge, Asked
<1>2. mem' = mem /\ given' = given /\ r.data = mem[bus.addr]
  BY <1>1 DEF RespondEdge
<1>. HIDE DEF r
<1>3. /\ ctl.active /\ ~ctl.inflight /\ desc.addr \in DescAddrs
      /\ ~csr.done /\ ~CsrAfter(cfg).done /\ CsrAfter(cfg) \in CsrType
  BY BusySoftware DEF Path, FetchStates, Ownership, Channel, Inv, OutcomeExclusive
<1>4. Calls'
  BY RespondCalls
<1>5. /\ desc.word > 0 => desc.next = mem[desc.addr]
      /\ desc.word > 1 => desc.src  = mem[desc.addr + 4]
      /\ desc.word > 2 => desc.dst  = mem[desc.addr + 8]
      /\ desc.word > 3 => desc.len  = mem[desc.addr + 12]
      /\ desc.word > 4 => desc.ctrl = mem[desc.addr + 16]
      /\ desc.word \in 0 .. 7 /\ desc.addr \in Nat
  BY WordsOf, <1>3 DEF Ownership, FetchStates, DescType
<1>6. CASE FetchWord(cfg, r)
  <2>1. /\ state' = "FETCH_REQ" /\ desc'.addr = desc.addr /\ desc'.word = desc.word + 1
        /\ desc'.next = (IF desc.word = 0 THEN r.data ELSE desc.next)
        /\ desc'.src  = (IF desc.word = 1 THEN r.data ELSE desc.src)
        /\ desc'.dst  = (IF desc.word = 2 THEN r.data ELSE desc.dst)
        /\ desc'.len  = (IF desc.word = 3 THEN r.data ELSE desc.len)
        /\ desc'.ctrl = (IF desc.word = 4 THEN r.data ELSE desc.ctrl)
        /\ xfer' = xfer /\ job' = job /\ sent' = sent /\ ctl'.active = ctl.active
        /\ csr' = CsrAfter(cfg)
    BY <1>6 DEF FetchWord, Fetched, DescType, RespondEdge, CtlType
  <2>2. /\ desc'.word > 0 => desc.word = 0 \/ desc.word > 0
        /\ desc'.word > 1 => desc.word = 1 \/ desc.word > 1
        /\ desc'.word > 2 => desc.word = 2 \/ desc.word > 2
        /\ desc'.word > 3 => desc.word = 3 \/ desc.word > 3
        /\ desc'.word > 4 => desc.word = 4 \/ desc.word > 4
    BY <1>5, <2>1
  <2>3. /\ desc.word = 0 => r.data = mem[desc.addr]
        /\ desc.word = 1 => r.data = mem[desc.addr + 4]
        /\ desc.word = 2 => r.data = mem[desc.addr + 8]
        /\ desc.word = 3 => r.data = mem[desc.addr + 12]
        /\ desc.word = 4 => r.data = mem[desc.addr + 16]
    <3>1. /\ desc.addr + 4 * 0 = desc.addr /\ desc.addr + 4 * 1 = desc.addr + 4
          /\ desc.addr + 4 * 2 = desc.addr + 8 /\ desc.addr + 4 * 3 = desc.addr + 12
          /\ desc.addr + 4 * 4 = desc.addr + 16
      BY <1>5
    <3>. QED  BY <1>1, <1>2, <3>1
  <2>4. /\ desc'.word > 0 => desc'.next = mem[desc.addr]
        /\ desc'.word > 1 => desc'.src  = mem[desc.addr + 4]
        /\ desc'.word > 2 => desc'.dst  = mem[desc.addr + 8]
        /\ desc'.word > 3 => desc'.len  = mem[desc.addr + 12]
        /\ desc'.word > 4 => desc'.ctrl = mem[desc.addr + 16]
    BY <1>5, <2>1, <2>2, <2>3
  <2>5. Ownership'
    BY <1>2, <1>3, <2>1, <2>4 DEF Ownership, Fields, FetchStates
  <2>6. Carried' /\ CopyExact' /\ UartStream'
    BY <1>2, <1>3, <2>1
       DEF Carried, Moving, PayloadStates, FetchStates, CopyExact, UartStream
  <2>. QED  BY <1>4, <2>5, <2>6 DEF Contract
<1>7. CASE FetchFail(cfg, r)
  <2>1. /\ state' = "IDLE" /\ ctl'.active = FALSE /\ xfer' = xfer
        /\ job' = job /\ sent' = sent /\ csr'.done = CsrAfter(cfg).done
    BY <1>3, <1>7 DEF FetchFail, CtlType, CsrType, RespondEdge
  <2>2. Ownership' /\ Carried' /\ CopyExact' /\ UartStream'
    BY <1>2, <1>3, <2>1
       DEF Ownership, Fields, FetchStates, Carried, Moving, PayloadStates, CopyExact,
           UartStream
  <2>. QED  BY <1>4, <2>2 DEF Contract
<1>8. CASE RefuseDescriptor(cfg, r) \/ TakeDescriptor(cfg, r)
  <2>1. /\ desc.word = 7 /\ Own(desc.ctrl)
        /\ state' \in {"READ_REQ", "WB_CTRL_REQ"}
        /\ xfer'.bytes = 0 /\ ctl'.active = ctl.active
        /\ desc'.addr = desc.addr /\ desc'.next = desc.next /\ desc'.src = desc.src
        /\ desc'.dst = desc.dst /\ desc'.len = desc.len /\ desc'.ctrl = desc.ctrl
        /\ state' = "READ_REQ" => /\ xfer'.src = desc.src /\ xfer'.dst = desc.dst
                                  /\ xfer'.len = desc.len
    BY <1>8 DEF RefuseDescriptor, TakeDescriptor, XferType, CtlType, DescType
  <2>2. /\ job'.uart = FALSE /\ job'.before = Payload(mem) /\ sent' = <<>>
        /\ job'.dst = xfer'.dst
        /\ state' = "READ_REQ" => job'.src = desc.src /\ job'.dst = desc.dst
                                  /\ job'.len = desc.len
    BY <2>1 DEF RespondEdge, NewJob
  <2>3. /\ desc.next = mem[desc.addr] /\ desc.src = mem[desc.addr + 4]
        /\ desc.dst = mem[desc.addr + 8] /\ desc.len = mem[desc.addr + 12]
        /\ desc.ctrl = mem[desc.addr + 16]
    <3>1. 7 > 0 /\ 7 > 1 /\ 7 > 2 /\ 7 > 3 /\ 7 > 4
      OBVIOUS
    <3>. QED  BY <1>5, <2>1, <3>1
  <2>4. DescFields = Fields(mem, desc.addr)
    BY <2>3 DEF DescFields, Fields
  <2>5. given[desc.addr] = DescFields /\ Promised(DescFields)
    BY <1>3, <2>1, <2>3, <2>4 DEF Ownership
  <2>6. DescFields' = DescFields
    BY <2>1 DEF DescFields
  <2>7. Ownership'
    BY <1>2, <1>3, <2>1, <2>5, <2>6 DEF Ownership, Fields, FetchStates
  <2>8. CopyExact'
    <3>1. \A w \in PayloadWords : w \in Nat
      BY SramWordsType, DmaAssumption DEF PayloadWords, Word
    <3>2. \A w \in PayloadWords : job'.before[w] = mem'[w]
      <4>1. \A w \in PayloadWords : Payload(mem)[w] = mem[w]
        BY DEF Payload
      <4>2. job'.before = Payload(mem) /\ mem' = mem
        BY <1>2, <2>2
      <4>. QED  BY <4>1, <4>2
    <3>3. \A w, d \in Nat : ~(w >= d /\ w < d + 0)
      OBVIOUS
    <3>4. xfer'.dst \in Nat
      <4>1. xfer'.dst \in {xfer.dst, desc.dst}
        BY <1>8 DEF RefuseDescriptor, TakeDescriptor, XferType
      <4>2. xfer.dst \in Word /\ desc.dst \in Word
        BY DEF XferType, DescType
      <4>. QED  BY <4>1, <4>2, DmaAssumption DEF Word
    <3>. QED  BY <2>1, <2>2, <3>1, <3>2, <3>3, <3>4 DEF CopyExact
  <2>9. Carried'
    <3>1. state' = "READ_REQ" => Apart(job')
      BY <2>2, <2>5 DEF Promised, Apart, DescFields
    <3>. QED  BY <2>1, <2>2, <3>1 DEF Carried, Moving, PayloadStates
  <2>. QED  BY <1>4, <2>2, <2>7, <2>8, <2>9 DEF Contract, UartStream
<1>. QED  BY <1>1, <1>6, <1>7, <1>8
          DEF RespStep, ReadDone, WriteDone, PayloadFail, PayloadAbort, AbortDrained,
              WriteBackAbort, WriteBackFail, WriteBackNext, DescriptorFinished,
              WriteBackWaits

\* What an answer outside a fetch has done to memory: a payload word of the copy
\* was written, or a completion word of the descriptor in work, or nothing.
LEMMA Written ==
  ASSUME Channel, Contract, NEW cfg \in SwWrites, NEW err \in BOOLEAN,
         RespondEdge(cfg, err), state \in WaitStates \ {"FETCH_WAIT"}
  PROVE  LET copied == (state = "WRITE_WAIT" \/ ctl.inflight) /\ ~err
             a      == desc.addr
         IN  /\ \A d \in DescAddrs :
                  /\ Promised(Fields(mem', d))
                  /\ Own(mem'[d + 16]) => given[d] = Fields(mem', d)
             /\ copied => /\ mem' = [mem EXCEPT ![xfer.dst] = xfer.data]
                          /\ Moving /\ ~job.uart /\ xfer.dst \in SramWords
             /\ ~copied => \A w \in PayloadWords : mem'[w] = mem[w]
             /\ state \in {"WB_STATUS_WAIT", "WB_BYTES_WAIT"} => ~Own(mem'[a + 16])
             /\ state = "WB_CTRL_WAIT" /\ ~err => ~Own(mem'[a + 16])
             /\ state = "WB_STATUS_WAIT" /\ ~err /\ ~ctl.abort =>
                  mem'[a + 20] = IF ctl.derr THEN StatusError ELSE StatusDone
             /\ state = "WB_BYTES_WAIT" /\ ~ctl.abort =>
                  mem'[a + 20] = IF ctl.derr THEN StatusError ELSE StatusDone
             /\ state = "WB_BYTES_WAIT" /\ ~err => mem'[a + 24] = xfer.bytes
<1>. DEFINE copied == (state = "WRITE_WAIT" \/ ctl.inflight) /\ ~err
            a      == desc.addr
<1>. /\ DmaTypeOK /\ EnvTypes /\ Path /\ Asked
     /\ Ownership /\ Carried /\ CopyExact
     /\ mem \in [SramWords -> Word] /\ bus \in RequestType
  BY Answer DEF Channel, Inv, Contract, EnvTypes
<1>1. /\ bus.addr \in SramWords /\ bus.data \in Word /\ bus.we \in BOOLEAN
      /\ mem' = IF bus.we /\ ~err THEN [mem EXCEPT ![bus.addr] = bus.data] ELSE mem
  BY DEF RequestType, RespondEdge
<1>2. CASE ~(bus.we /\ ~err)
  <2>1. mem' = mem /\ ~copied
    BY <1>1, <1>2 DEF Asked
  <2>2. state \in {"WB_CTRL_WAIT", "WB_STATUS_WAIT", "WB_BYTES_WAIT"} => err
    BY <1>2 DEF Asked
  <2>. QED  BY <2>1, <2>2 DEF Ownership, Fields
<1>3. CASE bus.we /\ ~err /\ (state = "WRITE_WAIT" \/ ctl.inflight)
  <2>1. /\ bus.addr = xfer.dst /\ bus.data = xfer.data /\ ~job.uart /\ Moving
        /\ state \in {"WRITE_WAIT", "ABORT_WAIT"}
    BY <1>3 DEF Asked, Moving, PayloadStates, Path
  <2>2. mem' = [mem EXCEPT ![xfer.dst] = xfer.data] /\ xfer.dst \in SramWords
    BY <1>1, <1>3, <2>1
  <2>3. xfer.dst \in PayloadWords
    BY <1>3, <2>1, <2>2, DestinationWord DEF Carried
  <2>4. mem' \in [SramWords -> Word] /\ \A w \in DescWords : mem'[w] = mem[w]
    BY <1>1, <2>1, <2>2, <2>3, WordInSlot, MemoryAssumption
       DEF PayloadWords
  <2>5. \A d \in DescAddrs : Fields(mem', d) = Fields(mem, d) /\ mem'[d + 16] = mem[d + 16]
    BY <2>4, OffDescriptors
  <2>. QED  BY <1>3, <2>1, <2>2, <2>5 DEF Ownership
<1>4. CASE bus.we /\ ~err /\ ~(state = "WRITE_WAIT" \/ ctl.inflight)
  <2>1. /\ ctl.active /\ a \in DescAddrs
        /\ state \in {"WB_CTRL_WAIT", "WB_STATUS_WAIT", "WB_BYTES_WAIT", "ABORT_WAIT"}
    BY <1>4 DEF Asked, Path, WriteBackStates, WaitStates, Ownership
  <2>2. PICK k \in {16, 20, 24} : bus.addr = a + k
    BY <1>4, <2>1 DEF Asked
  <2>3. /\ state = "WB_CTRL_WAIT"   => k = 16
        /\ state = "WB_STATUS_WAIT" => k = 20
        /\ state = "WB_BYTES_WAIT"  => k = 24
        /\ k = 16 => ~Own(bus.data)
    <3>1. a \in Nat /\ \A n, i, j \in Nat : n + i = n + j => i = j
      BY <2>1, WordsOf
    <3>2. k \in Nat /\ (k = 16 => bus.addr = a + 16) /\ 16 # 20 /\ 16 # 24 /\ 20 # 24
      BY <2>2
    <3>3. /\ state = "WB_CTRL_WAIT"   => bus.addr = a + 16 /\ ~Own(bus.data)
          /\ state = "WB_STATUS_WAIT" => bus.addr = a + 20
          /\ state = "WB_BYTES_WAIT"  => bus.addr = a + 24
          /\ state = "ABORT_WAIT" /\ bus.addr = a + 16 => ~Own(bus.data)
      BY <1>4 DEF Asked
    <3>. QED  BY <2>1, <2>2, <3>1, <3>2, <3>3
  <2>4. mem' = [mem EXCEPT ![a + k] = bus.data]
    BY <1>1, <1>4, <2>2
  <2>5. /\ \A w \in PayloadWords : mem'[w] = mem[w]
        /\ mem'[a + k] = bus.data
        /\ \A d \in DescAddrs :
              /\ mem'[d] = mem[d] /\ mem'[d + 4] = mem[d + 4] /\ mem'[d + 8] = mem[d + 8]
              /\ mem'[d + 12] = mem[d + 12]
              /\ d # a \/ k # 16 => mem'[d + 16] = mem[d + 16]
              /\ d # a \/ k # 20 => mem'[d + 20] = mem[d + 20]
    BY <1>1, <2>1, <2>4, CompletionWrite
  <2>6. \A d \in DescAddrs : Promised(Fields(mem', d))
    BY <2>5 DEF Ownership, Promised, Fields, Apart
  <2>7. ASSUME NEW d \in DescAddrs, Own(mem'[d + 16])
        PROVE  given[d] = Fields(mem', d)
    <3>1. d # a \/ k # 16
      BY <2>3, <2>5, <2>7
    <3>2. mem'[d + 16] = mem[d + 16] /\ Fields(mem', d) = Fields(mem, d)
      BY <2>5, <3>1 DEF Fields
    <3>. QED  BY <2>7, <3>2 DEF Ownership
  <2>8. /\ state \in {"WB_STATUS_WAIT", "WB_BYTES_WAIT"} => ~Own(mem'[a + 16])
        /\ state = "WB_CTRL_WAIT" => ~Own(mem'[a + 16])
    BY <2>1, <2>3, <2>5 DEF Ownership
  <2>9. /\ state = "WB_STATUS_WAIT" /\ ~ctl.abort =>
             mem'[a + 20] = IF ctl.derr THEN StatusError ELSE StatusDone
        /\ state = "WB_BYTES_WAIT" => mem'[a + 24] = xfer.bytes
    BY <2>3, <2>5 DEF Asked
  <2>10. state = "WB_BYTES_WAIT" /\ ~ctl.abort =>
           mem'[a + 20] = IF ctl.derr THEN StatusError ELSE StatusDone
    BY <2>1, <2>3, <2>5 DEF Ownership
  <2>. QED  BY <1>4, <2>5, <2>6, <2>7, <2>8, <2>9, <2>10
<1>. QED  BY <1>1, <1>2, <1>3, <1>4

\* A payload word is read, written, or the request of an aborted one is drained.
LEMMA PayloadContract ==
  ASSUME Channel, Contract, NEW cfg \in SwWrites, NEW err \in BOOLEAN,
         RespondEdge(cfg, err), state \in {"READ_WAIT", "WRITE_WAIT", "ABORT_WAIT"},
         ~ctl'.inflight
  PROVE  Contract'
<1>. /\ DmaTypeOK /\ EnvTypes /\ Path /\ Registers /\ Asked
     /\ ctl \in CtlType /\ csr \in CsrType /\ xfer \in XferType
     /\ Calls /\ Ownership /\ Carried /\ CopyExact /\ UartStream
     /\ bus \in RequestType /\ bus.addr \in SramWords
  BY Answer DEF Channel, Inv, DmaTypeOK, Contract, EnvTypes, RequestType, WaitStates
<1>. DEFINE r == [data |-> mem[bus.addr], err |-> err]
            copied == (state = "WRITE_WAIT" \/ ctl.inflight) /\ ~err
<1>1. /\ RespStep(cfg, r) /\ r.data = mem[bus.addr] /\ r.err = err
      /\ given' = given /\ job' = job /\ sent' = sent
  BY DEF RespondEdge
<1>. HIDE DEF r
<1>2. /\ copied => /\ mem' = [mem EXCEPT ![xfer.dst] = xfer.data]
                   /\ Moving /\ ~job.uart /\ xfer.dst \in SramWords
      /\ ~copied => \A w \in PayloadWords : mem'[w] = mem[w]
      /\ \A d \in DescAddrs :
           /\ Promised(Fields(mem', d))
           /\ Own(mem'[d + 16]) => given[d] = Fields(mem', d)
  BY Written DEF WaitStates
<1>. HIDE DEF copied
<1>3. /\ ~csr.done /\ ~CsrAfter(cfg).done /\ CsrAfter(cfg) \in CsrType
      /\ state # "IDLE" /\ state \notin FetchStates
  BY BusySoftware DEF Channel, Inv, OutcomeExclusive, FetchStates
<1>4. Calls'
  BY RespondCalls
<1>5. /\ ctl.active => /\ desc.addr \in DescAddrs
                       /\ given[desc.addr] = DescFields /\ Promised(DescFields)
      /\ job.uart => ~ctl.active
      /\ state # "ABORT_WAIT" => Moving /\ ~ctl.inflight
  BY <1>3 DEF Ownership, Registers, Moving, PayloadStates, StreamAt, Carried, Path
<1>6. CASE ReadDone(cfg, r)
  <2>1. /\ state = "READ_WAIT" /\ state' \in {"UART_TX_REQ", "WRITE_REQ"}
        /\ ctl' = ctl /\ desc' = desc
        /\ xfer'.src = xfer.src /\ xfer'.bytes = xfer.bytes /\ xfer'.data = r.data
        /\ state' = (IF csr.uart THEN "UART_TX_REQ" ELSE "WRITE_REQ")
        /\ ~Aborting(cfg)
    BY <1>6 DEF ReadDone, XferType
  <2>2. Moving /\ Apart(job) /\ ~ctl.abort /\ ~ctl.inflight /\ ~copied
    BY <1>5, <2>1, BusySoftware DEF Carried, copied
  <2>3. bus.addr = xfer.src
    BY <2>1 DEF Asked
  <2>4. mem[xfer.src] = job.before[xfer.src]
    BY <2>2, <2>3, SourceWord
  <2>5. job.uart => csr.uart
    BY <2>2 DEF Registers, StreamAt
  <2>6. Ownership'
    BY <1>1, <1>2, <1>5, <2>1 DEF Ownership, FetchStates, DescFields
  <2>7. Carried'
    BY <1>1, <2>1, <2>2, <2>3, <2>4, <2>5 DEF Carried, Moving, PayloadStates, Apart
  <2>8. CopyExact'
    BY <1>1, <1>2, <2>1, <2>2 DEF CopyExact
  <2>9. UartStream'
    BY <1>1, <2>1 DEF UartStream
  <2>. QED  BY <1>4, <2>6, <2>7, <2>8, <2>9 DEF Contract
<1>7. CASE WriteDone(cfg, r) \/ PayloadFail(cfg, r) \/ PayloadAbort(cfg, r)
           \/ AbortDrained(cfg, r)
  <2>1. /\ xfer' = (IF copied THEN Advanced ELSE xfer)
        /\ desc' = desc /\ ctl'.active = ctl.active
    BY <1>1, <1>5, <1>7 DEF WriteDone, PayloadFail, PayloadAbort, AbortDrained, StopForAbort,
                       CtlType, copied, Path
  <2>2. /\ state' \in {"READ_REQ", "WB_CTRL_REQ", "IDLE"}
        /\ ~ctl.active => state' # "WB_CTRL_REQ"
        /\ state' = "READ_REQ" => Moving
    BY <1>5, <1>7 DEF WriteDone, PayloadFail, PayloadAbort, AbortDrained, StopForAbort,
                  StateAfterStop
  <2>3. job.uart => state' = "IDLE" /\ ~copied /\ ~csr'.done
    <3>. SUFFICES ASSUME job.uart PROVE state' = "IDLE" /\ ~copied /\ ~csr'.done
      OBVIOUS
    <3>1. state # "WRITE_WAIT" /\ ~copied
      BY <1>2, <1>5 DEF Registers, StreamAt
    <3>2. ~WriteDone(cfg, r)
      BY <3>1 DEF WriteDone
    <3>. QED  BY <1>3, <1>5, <1>7, <3>1, <3>2
              DEF PayloadFail, PayloadAbort, AbortDrained, StopForAbort, StateAfterStop, CsrType
  <2>4. Ownership'
    BY <1>1, <1>2, <1>5, <2>1, <2>2 DEF Ownership, FetchStates, DescFields
  <2>5. Carried'
    BY <1>1, <2>1, <2>2, <2>3 DEF Carried, Moving, PayloadStates, Apart
  <2>6. CopyExact'
    <3>1. CASE ~copied
      BY <1>1, <1>2, <2>1, <3>1 DEF CopyExact
    <3>2. CASE copied
      <4>1. /\ mem' = [mem EXCEPT ![xfer.dst] = xfer.data]
            /\ Moving /\ ~job.uart /\ xfer.dst \in SramWords /\ Apart(job)
        BY <1>2, <3>2 DEF Carried
      <4>2. xfer.data = job.before[xfer.src]
        BY <3>2 DEF copied, Carried
      <4>3. xfer'.bytes = xfer.bytes + 4
        BY <2>1, <3>2, <4>1, CopiedWord
      <4>4. \A w \in PayloadWords :
              [mem EXCEPT ![xfer.dst] = xfer.data][w] =
                IF w >= job.dst /\ w < job.dst + (xfer.bytes + 4)
                THEN job.before[w - job.dst + job.src] ELSE job.before[w]
        BY <4>1, <4>2, DestinationWord
      <4>. QED  BY <1>1, <4>1, <4>3, <4>4 DEF CopyExact
    <3>. QED  BY <3>1, <3>2
  <2>7. UartStream'
    BY <1>1, <2>1, <2>3 DEF UartStream
  <2>. QED  BY <1>4, <2>4, <2>5, <2>6, <2>7 DEF Contract
<1>. QED  BY <1>1, <1>6, <1>7
          DEF RespStep, FetchWord, FetchFail, RefuseDescriptor, TakeDescriptor,
              WriteBackAbort, WriteBackFail, WriteBackNext, DescriptorFinished,
              WriteBackWaits

\* A descriptor is handed back word by word; the last word ends its turn.
LEMMA WriteBackContract ==
  ASSUME Channel, Contract, NEW cfg \in SwWrites, NEW err \in BOOLEAN,
         RespondEdge(cfg, err), state \in WriteBackWaits, ~ctl'.inflight
  PROVE  Contract'
<1>. /\ DmaTypeOK /\ EnvTypes /\ Path
     /\ ctl \in CtlType /\ csr \in CsrType /\ desc \in DescType
     /\ Calls /\ Ownership /\ Carried /\ CopyExact /\ UartStream
  BY DEF Channel, Inv, DmaTypeOK, Contract
<1>. DEFINE r == [data |-> mem[bus.addr], err |-> err]
            a == desc.addr
<1>1. /\ RespStep(cfg, r) /\ r.err = err /\ job' = job /\ sent' = sent
      /\ given' = IF state = "WB_BYTES_WAIT" /\ ~err /\ state' # "WB_CTRL_REQ"
                  THEN [given EXCEPT ![a] = NotGiven] ELSE given
  BY DEF RespondEdge, WriteBackWaits
<1>. HIDE DEF r
<1>2. /\ \A d \in DescAddrs :
           /\ Promised(Fields(mem', d))
           /\ Own(mem'[d + 16]) => given[d] = Fields(mem', d)
      /\ \A w \in PayloadWords : mem'[w] = mem[w]
      /\ state \in {"WB_STATUS_WAIT", "WB_BYTES_WAIT"} => ~Own(mem'[a + 16])
      /\ state = "WB_CTRL_WAIT" /\ ~err => ~Own(mem'[a + 16])
      /\ state = "WB_STATUS_WAIT" /\ ~err /\ ~ctl.abort =>
           mem'[a + 20] = IF ctl.derr THEN StatusError ELSE StatusDone
  <2>1. state # "WRITE_WAIT" /\ ~ctl.inflight /\ state \in WaitStates \ {"FETCH_WAIT"}
    BY DEF WriteBackWaits, WaitStates, Path
  <2>. QED  BY <2>1, Written
<1>3. /\ ctl.active /\ a \in DescAddrs
      /\ given[a] = DescFields /\ Promised(DescFields) /\ ~job.uart
      /\ ~ctl.derr /\ desc.next # 0 => DescriptorAddr(desc.next)
  BY DEF WriteBackWaits, WriteBackStates, FetchStates, Path, Ownership, Carried,
         DescriptorValid
<1>4. Calls'
  BY RespondCalls
<1>5. ASSUME xfer' = xfer,
             state' \in {"IDLE", "FETCH_REQ", "WB_CTRL_REQ", "WB_STATUS_REQ", "WB_BYTES_REQ"}
      PROVE  Carried' /\ CopyExact' /\ UartStream'
  BY <1>1, <1>2, <1>3, <1>5
     DEF Carried, Moving, PayloadStates, CopyExact, UartStream
<1>6. CASE WriteBackAbort(cfg, r) \/ WriteBackFail(cfg, r) \/ WriteBackNext(cfg, r)
  <2>1. /\ xfer' = xfer /\ desc' = desc /\ given' = given
        /\ ctl'.active => ctl.active
        /\ state' \in {"IDLE", "WB_CTRL_REQ", "WB_STATUS_REQ", "WB_BYTES_REQ"}
        /\ state' # "IDLE" => ctl'.active = ctl.active
        /\ state' \in {"WB_STATUS_REQ", "WB_BYTES_REQ"} =>
             /\ ~err /\ ctl' = ctl
             /\ state = IF state' = "WB_STATUS_REQ" THEN "WB_CTRL_WAIT"
                                                    ELSE "WB_STATUS_WAIT"
    BY <1>1, <1>6 DEF WriteBackAbort, WriteBackFail, WriteBackNext, CtlType
  <2>2. Ownership'
    BY <1>2, <1>3, <2>1 DEF Ownership, FetchStates, DescFields
  <2>. QED  BY <1>4, <1>5, <2>1, <2>2 DEF Contract
<1>7. CASE DescriptorFinished(cfg, r)
  <2>. DEFINE more == ~ctl.derr /\ desc.next # 0
  <2>1. /\ state = "WB_BYTES_WAIT" /\ ~err /\ xfer' = xfer
        /\ state' = (IF more THEN "FETCH_REQ" ELSE "IDLE")
        /\ more => desc'.addr = desc.next /\ desc'.word = 0
        /\ ctl'.active = more
    BY <1>1, <1>3, <1>7 DEF DescriptorFinished, CtlType, DescType
  <2>2. more => desc.next \in DescAddrs
    BY <1>3 DEF Promised, DescFields, Links
  <2>. HIDE DEF more
  <2>3. given' = [given EXCEPT ![a] = NotGiven] /\ ~Own(mem'[a + 16])
    BY <1>1, <1>2, <2>1
  <2>4. ASSUME NEW d \in DescAddrs, Own(mem'[d + 16])
        PROVE  given'[d] = Fields(mem', d)
    BY <1>2, <2>3, <2>4 DEF EnvTypes
  <2>5. Ownership'
    BY <1>2, <2>1, <2>2, <2>4 DEF Ownership, FetchStates
  <2>. QED  BY <1>4, <1>5, <2>1, <2>5 DEF Contract
<1>. QED  BY <1>1, <1>6, <1>7
          DEF RespStep, FetchWord, FetchFail, RefuseDescriptor, TakeDescriptor,
              ReadDone, WriteDone, PayloadFail, PayloadAbort, AbortDrained,
              WriteBackWaits

LEMMA RespondContract ==
  ASSUME Channel, DmaTypeOK', Contract, NEW cfg \in SwWrites, NEW err \in BOOLEAN,
         RespondEdge(cfg, err)
  PROVE  Contract'
<1>1. state \in WaitStates /\ ~ctl'.inflight
  BY RespondEnv
<1>. QED  BY <1>1, FetchContract, PayloadContract, WriteBackContract
          DEF WaitStates, WriteBackWaits

LEMMA ContractStep ==
  ASSUME ~PrepareWhileBusy
  PROVE  Channel /\ Contract /\ [Next]_vars => Contract'
<1>. SUFFICES ASSUME Channel, Contract, [Next]_vars PROVE Contract'
  OBVIOUS
<1>1. DmaTypeOK'
  BY ChannelStep DEF Channel, Inv
<1>2. CASE SoftwareStep
  BY <1>2, SoftwareContract
<1>3. CASE PlicSamples \/ HandlerReads
  <2>1. /\ state' = state /\ ctl' = ctl /\ xfer' = xfer /\ desc' = desc /\ csr' = csr
        /\ mem' = mem /\ call' = call /\ given' = given /\ job' = job /\ sent' = sent
    BY <1>3 DEF PlicSamples, HandlerReads, dmaVars
  <2>. QED  BY <2>1 DEF Contract, Calls, Ownership, Fields, Promised, DescFields,
                        Carried, Moving, Apart, CopyExact, UartStream
<1>4. ASSUME NEW cfg \in SwWrites,
             \/ IdleEdge(cfg) \/ HoldEdge(cfg) \/ WithdrawEdge(cfg) \/ AcceptEdge(cfg)
             \/ \E err \in BOOLEAN : RespondEdge(cfg, err)
             \/ \E ready \in BOOLEAN : UartEdge(cfg, ready)
      PROVE  Contract'
  BY <1>1, <1>4, IdleContract, HoldContract, WithdrawContract, AcceptContract,
     RespondContract, UartContract
<1>5. CASE UNCHANGED vars
  BY <1>5 DEF vars, dmaVars, envVars, Contract, Calls, Ownership, Fields, Promised,
              DescFields, Carried, Moving, Apart, CopyExact, UartStream
<1>. QED  BY <1>2, <1>3, <1>4, <1>5 DEF Next

LEMMA ContractInvariance ==
  ASSUME ~PrepareWhileBusy
  PROVE  Spec => []IInv
<1>1. Init => IInv
  BY ChannelInit, ContractInit DEF IInv
<1>2. IInv /\ [Next]_vars => IInv'
  BY ChannelStep, ContractStep DEF IInv
<1>. QED  BY <1>1, <1>2, PTL DEF Spec

-----------------------------------------------------------------------------
(* What it gives when software prepares descriptors only while the channel  *)
(* is idle, as every program of sw/examples does: without that the channel  *)
(* may take a descriptor that it read in halves.                            *)

\* The payload copied, or streamed, is the source as it was when the transfer
\* began, up to the count, whatever was aborted or failed.
THEOREM PayloadCopied ==
  ASSUME ~PrepareWhileBusy
  PROVE  Spec => []PayloadExact
<1>1. IInv => PayloadExact
  BY DEF IInv, Contract, PayloadExact
<1>. QED  BY <1>1, ContractInvariance, PTL

\* A descriptor is processed with the fields under which it was given.
THEOREM DescriptorsAsGiven ==
  ASSUME ~PrepareWhileBusy
  PROVE  Spec => []TakenAsGiven
<1>1. IInv => TakenAsGiven
  BY DEF IInv, Contract, Ownership, TakenAsGiven, FetchStates, DescFields
<1>. QED  BY <1>1, ContractInvariance, PTL

\* The channel writes only into its destination and into the completion words
\* of descriptors that were given to it.
THEOREM WritesInBounds ==
  ASSUME ~PrepareWhileBusy
  PROVE  Spec => []WritesConfined
<1>1. IInv => WritesConfined
  <2>. SUFFICES ASSUME IInv, bus # NoBus, bus.we PROVE WritesConfined
    BY DEF WritesConfined
  <2>. /\ EnvTypes /\ Path /\ Asked /\ Channel
       /\ Ownership /\ Carried /\ CopyExact
       /\ bus \in RequestType /\ bus.addr \in SramWords
    BY DEF IInv, Channel, Contract, EnvTypes, RequestType
  <2>1. state \in WaitStates \ {"FETCH_WAIT", "READ_WAIT"}
    BY DEF EnvTypes, Asked
  <2>2. CASE state = "WRITE_WAIT" \/ ctl.inflight
    <3>1. bus.addr = xfer.dst /\ ~job.uart /\ Moving
      BY <2>2 DEF Asked, Moving, PayloadStates
    <3>2. Apart(job) /\ xfer.data = job.before[xfer.src]
      BY <2>2, <3>1 DEF Carried
    <3>. QED  BY <3>1, <3>2, DestinationWord DEF WritesConfined
  <2>3. CASE ~(state = "WRITE_WAIT" \/ ctl.inflight)
    <3>1. /\ ctl.active /\ state \notin FetchStates
          /\ bus.addr \in {desc.addr + 16, desc.addr + 20, desc.addr + 24}
      BY <2>1, <2>3 DEF Asked, Path, WaitStates, WriteBackStates, FetchStates
    <3>2. desc.addr \in DescAddrs /\ given[desc.addr] = DescFields /\ Own(desc.ctrl)
      BY <3>1 DEF Ownership, Path
    <3>3. given[desc.addr] # NotGiven
      <4>1. DescFields.ctrl = desc.ctrl /\ NotGiven.ctrl = 0 /\ ~Own(0)
        BY DEF DescFields, NotGiven, Own
      <4>. QED  BY <3>2, <4>1
    <3>. QED  BY <3>1, <3>2, <3>3 DEF WritesConfined
  <2>. QED  BY <2>2, <2>3
<1>. QED  BY <1>1, ContractInvariance, PTL

\* A descriptor comes back without OWN, with the outcome that is true of it and
\* with the number of bytes that were copied.
THEOREM HandbackIsTrue ==
  ASSUME ~PrepareWhileBusy
  PROVE  Spec => HandbackTruth
<1>1. ASSUME IInv, [Next]_vars, state = "WB_BYTES_WAIT", given' # given
      PROVE  LET d == desc.addr
             IN  /\ ~Own(mem'[d + 16])
                 /\ mem'[d + 24] = xfer.bytes
                 /\ \/ /\ mem'[d + 20] = StatusDone
                       /\ ~csr.error /\ xfer.bytes = given[d].len
                    \/ mem'[d + 20] = StatusError /\ csr'.error
  <2>. /\ Channel /\ Contract /\ EnvTypes /\ Path /\ ErrorHasCause /\ Ownership
       /\ DmaTypeOK /\ csr \in CsrType /\ ctl \in CtlType
    BY <1>1 DEF IInv, Channel, Contract, Inv, DmaTypeOK
  <2>1. PICK cfg \in SwWrites, err \in BOOLEAN : RespondEdge(cfg, err)
    <3>1. ~SoftwareStep
      BY <1>1 DEF SoftwareStep, SwGive, SwFill, MayPrepare
    <3>. QED  BY <1>1, <3>1 DEF Next, PlicSamples, HandlerReads, IdleEdge, HoldEdge, WithdrawEdge, AcceptEdge, UartEdge,
                         vars, envVars
  <2>. DEFINE r == [data |-> mem[bus.addr], err |-> err]
  <2>2. RespStep(cfg, r) /\ ~err /\ r.err = err /\ state' # "WB_CTRL_REQ"
    BY <1>1, <2>1 DEF RespondEdge
  <2>. HIDE DEF r
  <2>3. DescriptorFinished(cfg, r)
    BY <1>1, <2>2 DEF RespStep, FetchWord, FetchFail, RefuseDescriptor, TakeDescriptor,
                      ReadDone, WriteDone, PayloadFail, PayloadAbort, AbortDrained,
                      WriteBackAbort, WriteBackFail, WriteBackNext, WriteBackWaits
  <2>4. /\ ~ctl.abort /\ CsrAfter(cfg) \in CsrType
    BY <1>1, <2>3, BusySoftware DEF DescriptorFinished
  <2>5. /\ ~Own(mem'[desc.addr + 16]) /\ mem'[desc.addr + 24] = xfer.bytes
        /\ mem'[desc.addr + 20] = IF ctl.derr THEN StatusError ELSE StatusDone
    <3>1. state \in WaitStates \ {"FETCH_WAIT"}
      BY <1>1 DEF WaitStates
    <3>. QED  BY <1>1, <2>1, <2>2, <2>4, <3>1, Written
  <2>6. ctl.derr => csr'.error
    BY <2>3, <2>4 DEF DescriptorFinished, CsrType
  <2>7. ~ctl.derr => ~csr.error /\ xfer.bytes = given[desc.addr].len
    <3>1. given[desc.addr] = DescFields
      BY <1>1 DEF Ownership, Path, WriteBackStates, FetchStates
    <3>2. ~ctl.derr => xfer.bytes = desc.len
      BY <1>1 DEF Path, WriteBackStates
    <3>3. ~ctl.derr => ~csr.error
      BY <1>1, <2>4 DEF ErrorHasCause
    <3>. QED  BY <3>1, <3>2, <3>3 DEF DescFields
  <2>. QED  BY <2>5, <2>6, <2>7
<1>2. IInv /\ [Next]_vars =>
        [ state = "WB_BYTES_WAIT" /\ given' # given =>
            LET d == desc.addr
            IN  /\ ~Own(mem'[d + 16])
                /\ mem'[d + 24] = xfer.bytes
                /\ \/ /\ mem'[d + 20] = StatusDone
                      /\ ~csr.error /\ xfer.bytes = given[d].len
                   \/ mem'[d + 20] = StatusError /\ csr'.error ]_vars
  BY <1>1
<1>. QED  BY <1>2, ContractInvariance, PTL DEF Spec, HandbackTruth

=============================================================================
