------------------------------- MODULE IfStage -------------------------------
(***************************************************************************)
(* The instruction fetch stage: the request counter pc_q, one outstanding  *)
(* request to the instruction memory, the buffers that cut the words the   *)
(* memory returns into 16- and 32-bit instructions, and the IF/ID register.*)
(*                                                                         *)
(* An address counts halfwords, and the memory holds at every halfword its *)
(* own address, so an instruction assembled from the wrong halfwords shows.*)
(* The payload of a register whose valid bit is low is never read and is   *)
(* kept at one value.  The stage is a set of wires over its registers and  *)
(* over the inputs of a cycle, a record in:                                *)
(*   in.run       fetch_enable_i                                           *)
(*   in.advance   if_id_en_i (pc_en_i is run /\ advance)                   *)
(*   in.redirect  {} or {target}: redirect_valid_i and redirect_pc_i       *)
(*   in.ready     imem_ready_i                                             *)
(* if_id_flush_i only comes with a redirect and adds nothing to it.        *)
(***************************************************************************)
EXTENDS Integers, Sequences

CONSTANTS
  NumHalves,      \* size of the address space, in halfwords
  Compressed,     \* the halfwords whose low bits say "16-bit instruction"
  BootAddr,       \* boot_addr_i
  UpperPrefetch   \* ENABLE_UPPER_32_PREFETCH_P

Halves == 0 .. NumHalves - 1

ASSUME HalvesAssumption == NumHalves \in Nat \ {0} /\ NumHalves % 2 = 0
ASSUME ProgramAssumption == Compressed \subseteq Halves /\ BootAddr \in Halves
ASSUME PrefetchAssumption == UpperPrefetch \in BOOLEAN

VARIABLES
  pc,        \* pc_q: the address of the next sequential request
  resp,      \* {} or {resp_pc_q}: the outstanding request (req_pending_q)
  imem,      \* {} or {word}: the fetch response of this cycle (rvalid_o)
  target,    \* {} or {redirect_pc_q}: a redirect still to be requested
  drop,      \* drop_resp_q
  hold,      \* the packet a stalled ID stage left behind (hold_*_q)
  upper,     \* {} or {[pc, half]}: a buffered upper halfword (upper_*_q)
  ifid       \* the IF/ID register

ifVars == <<pc, resp, imem, target, drop, hold, upper, ifid>>

-----------------------------------------------------------------------------
(* Addresses and packets.                                                  *)

Plus(h, n) == (h + n) % NumHalves
WordOf(h) == h - (h % 2)
Only(S) == CHOOSE x \in S : TRUE

\* The halfwords of the instruction that starts at h.
CodeAt(h) == IF h \in Compressed THEN <<h>> ELSE <<h, Plus(h, 1)>>
SizeAt(h) == Len(CodeAt(h))

Packet(h, code) == {[pc |-> h, code |-> code]}
Codes == {<<h>> : h \in Halves} \cup (Halves \X Halves)
Packets == [pc : Halves, code : Codes]
Opt(S) == {{}} \cup {{x} : x \in S}
IsOpt(o, S) == o \subseteq S /\ \A x, y \in o : x = y

IfInit ==
  /\ pc = BootAddr
  /\ resp = {} /\ imem = {} /\ target = {} /\ drop = FALSE
  /\ hold = {} /\ upper = {} /\ ifid = {}

-----------------------------------------------------------------------------
(* Wires.                                                                  *)

RespValid == resp # {} /\ imem # {}
RespPc == Only(resp)
Low == Only(imem)
High == Plus(Low, 1)
UpperPc == Only(upper).pc
UpperHalf == Only(upper).half

UpperIsC == upper # {} /\ UpperHalf \in Compressed
UpperIsWide == upper # {} /\ UpperHalf \notin Compressed

RespHasTwoC == RespValid /\ {Low, High} \subseteq Compressed
RespStartsUpper == RespValid /\ RespPc % 2 = 1

RedirectRequest(in) == target \cup in.redirect # {}
RequestPc(in) == Only(IF in.redirect # {} THEN in.redirect ELSE target)

\* The response starts a 32-bit instruction in its upper half: the word with the
\* rest of it may be requested at once.
UpperAhead(in) == /\ UpperPrefetch /\ RespStartsUpper /\ High \notin Compressed
                  /\ in.advance /\ ~drop /\ ~RedirectRequest(in)

CanIssue(in) ==
  /\ in.run /\ hold = {}
  /\ resp # {} => imem # {}
  /\ ~RespHasTwoC
  /\ RespStartsUpper => UpperAhead(in)
  /\ ~(UpperIsWide /\ RespValid /\ (~in.advance \/ High \in Compressed))

IssueRedirect(in) == CanIssue(in) /\ in.ready /\ RedirectRequest(in)
IssueNext(in) == CanIssue(in) /\ in.ready /\ ~RedirectRequest(in) /\ in.advance

\* fetch_wait_o (it reads in.run and in.ready only)
FetchWait(run, ready) == \/ resp # {} /\ imem = {}
                         \/ run /\ hold = {} /\ resp = {} /\ ~ready

-----------------------------------------------------------------------------
(* Delivery to IF/ID, in the order of priority of the code.                *)

\* What a response offers: the packet it completes and the halfword it leaves.
Left(h, half) == {[pc |-> h, half |-> half]}
Offer ==
  IF UpperIsWide
  THEN [packet |-> Packet(UpperPc, <<UpperHalf, Low>>),
        rest   |-> Left(Plus(UpperPc, 2), High)]
  ELSE IF RespPc % 2 = 1
  THEN IF High \in Compressed
       THEN [packet |-> Packet(RespPc, <<High>>), rest |-> {}]
       ELSE [packet |-> {}, rest |-> Left(RespPc, High)]
  ELSE IF Low \in Compressed
  THEN [packet |-> Packet(RespPc, <<Low>>), rest |-> Left(Plus(RespPc, 1), High)]
  ELSE [packet |-> Packet(RespPc, <<Low, High>>), rest |-> {}]

\* A redirect issued in this cycle discards the buffered halfword as well.
KeepUpper(in, half) == upper' = IF IssueRedirect(in) THEN {} ELSE half

\* (A slip: a redirect leaves the buffered halfword of the old path.)
FlushKeepsUpper(in) ==
  /\ in.redirect # {}
  /\ ifid' = {} /\ hold' = {} /\ UNCHANGED upper

FlushAll(in) ==
  /\ in.redirect # {}
  /\ ifid' = {} /\ hold' = {} /\ upper' = {}

DeliverHeld(in) ==
  /\ in.redirect = {} /\ in.advance /\ hold # {}
  /\ ifid' = hold /\ hold' = {} /\ KeepUpper(in, upper)

UpperFirst(in) == /\ in.advance /\ hold = {} /\ ~drop
                  /\ UpperIsC \/ (UpperIsWide /\ ~RespValid)

DeliverUpper(in) ==
  /\ in.redirect = {} /\ UpperFirst(in)
  /\ ifid' = IF UpperIsC THEN Packet(UpperPc, <<UpperHalf>>) ELSE {}
  /\ KeepUpper(in, IF UpperIsC THEN {} ELSE upper)
  /\ UNCHANGED hold

\* The response goes to IF/ID, or to the hold register when ID does not take it.
DeliverResponse(in) ==
  /\ in.redirect = {} /\ RespValid /\ ~drop
  /\ ~(in.advance /\ hold # {}) /\ ~UpperFirst(in)
  /\ IF in.advance THEN ifid' = Offer.packet /\ UNCHANGED hold
                   ELSE hold' = Offer.packet /\ UNCHANGED ifid
  /\ KeepUpper(in, Offer.rest)

DeliverNothing(in) ==
  /\ in.redirect = {} /\ ~(RespValid /\ ~drop)
  /\ ~(in.advance /\ hold # {}) /\ ~UpperFirst(in)
  /\ ifid' = IF in.advance THEN {} ELSE ifid
  /\ KeepUpper(in, upper) /\ UNCHANGED hold

-----------------------------------------------------------------------------
(* The request counter and the request lifecycle.                          *)

NextPc(in) ==
  IF IssueRedirect(in) THEN Plus(RequestPc(in), 2)
  ELSE IF IssueNext(in) THEN Plus(pc, 2)
  ELSE IF in.redirect = {} /\ UpperIsC /\ in.advance /\ ~drop
  THEN Plus(UpperPc, 1)
  ELSE IF in.redirect = {} /\ RespStartsUpper /\ ~drop
  THEN Plus(RespPc, 1)
  ELSE pc

Request(in) ==
  LET issued == IF IssueRedirect(in) THEN {RequestPc(in)}
                ELSE IF IssueNext(in) THEN {pc} ELSE {}
  IN  /\ pc' = NextPc(in)
      /\ resp' = IF issued = {} /\ ~RespValid THEN resp ELSE issued
      /\ imem' = {WordOf(h) : h \in issued}
      /\ target' = IF IssueRedirect(in) THEN {}
                   ELSE IF in.redirect # {} THEN in.redirect ELSE target
      /\ drop' = \/ in.redirect # {} /\ ~IssueRedirect(in) /\ resp # {} /\ imem = {}
                 \/ drop /\ ~RespValid

\* One clock of the stage.
IfClock(in) ==
  /\ \/ FlushAll(in) \/ DeliverHeld(in) \/ DeliverUpper(in)
     \/ DeliverResponse(in) \/ DeliverNothing(in)
  /\ Request(in)

IfTypeOK ==
  /\ pc \in Halves /\ drop \in BOOLEAN
  /\ IsOpt(resp, Halves) /\ IsOpt(target, Halves)
  /\ IsOpt(upper, [pc : Halves, half : Halves])
  /\ IsOpt(imem, {WordOf(h) : h \in Halves})
  /\ IsOpt(hold, Packets) /\ IsOpt(ifid, Packets)
=============================================================================
