--------------------------- MODULE FrontEnd_proofs ---------------------------
(***************************************************************************)
(* EX gets the instructions of the program in order, each once and whole,  *)
(* for every program, every guess of the predictor and every interleaving  *)
(* of stalls, interrupts, sleep, halt and resume.                          *)
(***************************************************************************)
EXTENDS FrontEnd, TLAPS

-----------------------------------------------------------------------------
(* Addresses and words.                                                    *)

LEMMA Size == NumHalves \in Nat /\ NumHalves % 2 = 0 /\ NumHalves >= 2
BY HalvesAssumption, SMTT(30)

\* Addresses wrap around at the end of the memory.
LEMMA Wrap ==
  ASSUME NEW h \in Halves, NEW n \in {1, 2}
  PROVE  Plus(h, n) = IF h + n < NumHalves THEN h + n ELSE h + n - NumHalves
<1>1. h \in Nat /\ h < NumHalves /\ NumHalves \in Nat /\ NumHalves >= 2
  BY Size DEF Halves
<1>2. CASE h + n < NumHalves
  BY <1>1, <1>2, SMTT(30) DEF Plus
<1>3. CASE h + n >= NumHalves
  BY <1>1, <1>3, SMTT(30) DEF Plus
<1>. QED  BY <1>1, <1>2, <1>3

LEMMA PlusInside ==
  ASSUME NEW h \in Halves
  PROVE  Plus(h, 1) \in Halves /\ Plus(h, 2) \in Halves
BY Wrap, Size DEF Halves

LEMMA PlusTwice ==
  ASSUME NEW h \in Halves
  PROVE  /\ Plus(Plus(h, 1), 1) = Plus(h, 2)
         /\ Plus(Plus(h, 2), 1) = Plus(Plus(h, 1), 2)
<1>. DEFINE N == NumHalves
            P(x, n) == IF x + n < N THEN x + n ELSE x + n - N
<1>1. /\ Plus(h, 1) \in Halves /\ Plus(h, 2) \in Halves
      /\ Plus(h, 1) = P(h, 1) /\ Plus(h, 2) = P(h, 2)
  BY PlusInside, Wrap
<1>2. /\ Plus(Plus(h, 1), 1) = P(Plus(h, 1), 1)
      /\ Plus(Plus(h, 2), 1) = P(Plus(h, 2), 1)
      /\ Plus(Plus(h, 1), 2) = P(Plus(h, 1), 2)
  BY <1>1, Wrap
<1>. QED  BY <1>1, <1>2, Size DEF Halves

\* Memory words begin at even halfwords.
LEMMA Parity ==
  ASSUME NEW h \in Halves
  PROVE  /\ h % 2 \in {0, 1}
         /\ h % 2 = 0 => Plus(h, 1) % 2 = 1 /\ Plus(h, 2) % 2 = 0
         /\ h % 2 = 1 => Plus(h, 1) % 2 = 0 /\ Plus(h, 2) % 2 = 1
<1>. DEFINE N == NumHalves
            P(x, n) == IF x + n < N THEN x + n ELSE x + n - N
<1>1. Plus(h, 1) = P(h, 1) /\ Plus(h, 2) = P(h, 2)
  BY Wrap
<1>2. h \in Nat /\ h < N /\ N \in Nat /\ N % 2 = 0
  BY Size DEF Halves
<1>3. h % 2 \in {0, 1}
  BY <1>2
<1>4. h % 2 = 0 => P(h, 1) % 2 = 1 /\ P(h, 2) % 2 = 0
  BY <1>2, SMTT(30)
<1>5. h % 2 = 1 => P(h, 1) % 2 = 0 /\ P(h, 2) % 2 = 1
  BY <1>2, SMTT(30)
<1>. HIDE DEF P, N
<1>. QED  BY <1>1, <1>3, <1>4, <1>5

LEMMA Words ==
  ASSUME NEW h \in Halves
  PROVE  /\ WordOf(h) \in Halves
         /\ h % 2 = 0 => WordOf(h) = h
         /\ h % 2 = 1 => Plus(WordOf(h), 1) = h
<1>1. h \in Nat /\ h < NumHalves /\ NumHalves \in Nat /\ h % 2 \in {0, 1}
  BY Size, Parity DEF Halves
<1>2. h % 2 = 0 => WordOf(h) = h
  BY <1>1 DEF WordOf
<1>3. h % 2 = 1 => WordOf(h) = h - 1 /\ h - 1 \in Halves
  BY <1>1, SMTT(30) DEF WordOf, Halves
<1>4. ASSUME h % 2 = 1  PROVE  Plus(WordOf(h), 1) = h
  <2>1. Plus(h - 1, 1) = IF (h - 1) + 1 < NumHalves THEN (h - 1) + 1
                         ELSE (h - 1) + 1 - NumHalves
    BY <1>3, <1>4, Wrap
  <2>. QED  BY <2>1, <1>1, <1>3, <1>4
<1>. QED  BY <1>1, <1>2, <1>3, <1>4

\* The word after a word.
LEMMA NextWord ==
  ASSUME NEW h \in Halves
  PROVE  WordOf(Plus(h, 2)) = Plus(WordOf(h), 2)
<1>1. Plus(h, 2) \in Halves /\ Plus(h, 1) \in Halves
  BY PlusInside
<1>2. CASE h % 2 = 0
  BY <1>1, <1>2, Words, Parity
<1>3. CASE h % 2 = 1
  <2>. DEFINE w == WordOf(h)
              v == WordOf(Plus(h, 2))
  <2>1. /\ w \in Halves /\ v \in Halves /\ Plus(w, 1) = h
        /\ Plus(v, 1) = Plus(h, 2)
    BY <1>1, <1>3, Words, Parity
  <2>2. /\ Plus(w, 2) \in Halves
        /\ Plus(Plus(w, 2), 1) = Plus(Plus(w, 1), 2)
    BY <2>1, PlusInside, PlusTwice
  <2>3. \A x, y \in Halves : Plus(x, 1) = Plus(y, 1) => x = y
    BY Wrap, Size DEF Halves
  <2>. QED  BY <2>1, <2>2, <2>3
<1>. QED  BY <1>2, <1>3, Parity

LEMMA OnlyOne == \A x : Only({x}) = x
BY DEF Only
-----------------------------------------------------------------------------
(* The inductive invariant.                                                *)

\* Where the front end continues after the instruction in EX.
Expected == IF ex = {} THEN golden.pc ELSE Followed(Only(ex))

\* A buffer that should hold the instruction at h is empty or does; where the
\* stream goes on behind it.
At(buffer, h) == buffer = {} \/ buffer = Packet(h, CodeAt(h))
After(buffer, h) == IF buffer = {} THEN h ELSE Fall(h)

\* The first instruction that is neither in IF/ID nor in the hold register.
Front(h) == After(hold, After(ifid, h))

\* The request that continues a 32-bit instruction of which the upper buffer
\* holds the first half is for the word of its second half.
Completes(q, h) == WordOf(q) = Plus(h, 1)

\* The buffered halfword, the outstanding request and the request counter
\* continue the stream at h.
Continues(h) ==
  \/ upper = {} /\ resp = {} /\ pc = h
  \/ upper = {} /\ resp = {h} /\ pc = Plus(h, 2)
  \/ /\ upper = Left(h, h) /\ h % 2 = 1
     /\ \/ resp = {} /\ pc = Plus(h, 1)
        \/ /\ h \notin Compressed
           /\ \E q \in Halves : resp = {q} /\ Completes(q, h) /\ pc = Plus(q, 2)

\* The front end delivers the program from h on: after a redirect that could not
\* be requested yet it has discarded everything else.
Redirecting(h) ==
  target = {h} /\ ifid = {} /\ hold = {} /\ upper = {} /\ resp = {}
Streaming(h) ==
  /\ target = {} /\ At(ifid, h) /\ At(hold, After(ifid, h)) /\ Continues(Front(h))
  /\ hold # {} => resp = {}
Delivers(h) == Redirecting(h) \/ Streaming(h)

\* The instruction memory answers in the next cycle, so no response is dropped.
Answered == drop = FALSE /\ imem = {WordOf(h) : h \in resp} /\ pc \in Halves

InEx ==
  ex = {} \/ \E g \in Opt(Halves) :
               ex = {[pc |-> golden.pc, code |-> CodeAt(golden.pc), guess |-> g]}

\* A trap, MRET or WFI is alone in the pipeline until it commits, with fetch
\* serialised behind the redirect that it raised.
Eventful(S) == \E p \in S : p.event # "none"
Serialised ==
  /\ mode.serial => ex = {} /\ target # {}
  /\ Eventful(mem) => mode.serial
  /\ Eventful(wb) => mode.serial /\ mem = {}

\* MRET returns to where the last trap was taken, committed or not.
Returns ==
  \/ \E p \in mem \cup wb : p.event = "trap" /\ p.epc = golden.epc
  \/ (\A p \in mem \cup wb : p.event # "trap") /\ csr.mepc = golden.epc

Shapes ==
  /\ IsOpt(mem, [event : Events, epc : Halves])
  /\ IsOpt(wb, [event : Events, epc : Halves])
  /\ csr \in [mepc : Halves, mie : BOOLEAN, mpie : BOOLEAN, dpc : Halves]
  /\ mode \in [fetch : BOOLEAN, halting : BOOLEAN, halted : BOOLEAN,
               asleep : BOOLEAN, serial : BOOLEAN]
  /\ golden \in [pc : Halves, epc : Halves]

IInv == Shapes /\ Answered /\ InEx /\ Delivers(Expected) /\ Serialised /\ Returns
-----------------------------------------------------------------------------
(* One clock of the fetch stage.                                           *)

LEMMA Instructions ==
  ASSUME NEW h \in Halves
  PROVE  /\ Fall(h) \in Halves
         /\ h \in Compressed => CodeAt(h) = <<h>> /\ Fall(h) = Plus(h, 1)
         /\ h \notin Compressed => CodeAt(h) = <<h, Plus(h, 1)>> /\ Fall(h) = Plus(h, 2)
<1>1. CASE h \in Compressed
  BY <1>1, PlusInside DEF CodeAt, Fall, SizeAt
<1>2. CASE h \notin Compressed
  BY <1>2, PlusInside DEF CodeAt, Fall, SizeAt
<1>. QED  BY <1>1, <1>2

LEMMA UpperParts ==
  ASSUME NEW h, upper = Left(h, h)
  PROVE  /\ UpperPc = h /\ UpperHalf = h
         /\ UpperIsC <=> h \in Compressed
         /\ UpperIsWide <=> h \notin Compressed
<1>. DEFINE r == [pc |-> h, half |-> h]
<1>1. upper = {r}
  BY DEF Left
<1>2. Only(upper) = r
  <2>. HIDE DEF r
  <2>. QED  BY <1>1, OnlyOne
<1>3. UpperPc = h /\ UpperHalf = h /\ upper # {}
  BY <1>1, <1>2 DEF UpperPc, UpperHalf
<1>. QED  BY <1>3 DEF UpperIsC, UpperIsWide

\* A response is there one cycle after its request.
LEMMA Responds ==
  ASSUME Answered
  PROVE  /\ RespValid <=> resp # {}
         /\ \A q : resp = {q} => RespPc = q /\ Low = WordOf(q) /\ High = Plus(WordOf(q), 1)
<1>1. resp # {} <=> imem # {}
  BY DEF Answered
<1>2. ASSUME NEW q, resp = {q}
      PROVE  RespPc = q /\ Low = WordOf(q)
  <2>1. imem = {WordOf(q)}
    BY <1>2 DEF Answered
  <2>. QED  BY <1>2, <2>1, OnlyOne DEF RespPc, Low
<1>. QED  BY <1>1, <1>2 DEF RespValid, High

\* What a cycle requests is answered in the next one.
LEMMA Requests ==
  ASSUME Answered, NEW in, Request(in), NextPc(in) \in Halves
  PROVE  /\ Answered'
         /\ IssueRedirect(in) => resp' = {RequestPc(in)} /\ target' = {}
         /\ ~IssueRedirect(in) /\ IssueNext(in) => resp' = {pc}
         /\ ~IssueRedirect(in) /\ ~IssueNext(in) => resp' = {}
         /\ ~IssueRedirect(in) =>
              target' = IF in.redirect # {} THEN in.redirect ELSE target
<1>. DEFINE issued == IF IssueRedirect(in) THEN {RequestPc(in)}
                      ELSE IF IssueNext(in) THEN {pc} ELSE {}
<1>1. /\ pc' = NextPc(in)
      /\ resp' = IF issued = {} /\ ~RespValid THEN resp ELSE issued
      /\ imem' = {WordOf(h) : h \in issued}
      /\ target' = IF IssueRedirect(in) THEN {}
                   ELSE IF in.redirect # {} THEN in.redirect ELSE target
      /\ drop' = \/ in.redirect # {} /\ ~IssueRedirect(in) /\ resp # {} /\ imem = {}
                 \/ drop /\ ~RespValid
  BY DEF Request
<1>2. resp' = issued
  BY <1>1, Responds
<1>3. drop' = FALSE
  BY <1>1, Responds DEF Answered, RespValid
<1>4. Answered'
  BY <1>1, <1>2, <1>3 DEF Answered
<1>. QED  BY <1>1, <1>2, <1>4
\* A clock without a redirect.
Inward(in) ==
  /\ in.run \in BOOLEAN /\ in.advance \in BOOLEAN /\ in.ready \in BOOLEAN
  /\ in.redirect = {} /\ IfClock(in)

\* Where the stream stands after the clock: the instruction of IF/ID moves on
\* when ID advances.
Onward(in, h) == IF in.advance THEN After(ifid, h) ELSE h

\* A redirect that waits is requested as soon as the memory may be asked.
LEMMA WaitingRedirect ==
  ASSUME Answered, NEW h \in Halves, Redirecting(h), NEW in, Inward(in)
  PROVE  Answered' /\ Delivers(h)' /\ Onward(in, h) = h
<1>1. /\ target = {h} /\ ifid = {} /\ hold = {} /\ upper = {} /\ resp = {}
      /\ drop = FALSE /\ pc \in Halves /\ in.redirect = {} /\ Request(in)
  BY DEF Redirecting, Answered, Inward, IfClock
<1>2. ~RespValid /\ ~UpperIsC /\ ~UpperIsWide /\ ~RespStartsUpper
  BY <1>1 DEF RespValid, UpperIsC, UpperIsWide, RespStartsUpper
<1>3. RequestPc(in) = h /\ RedirectRequest(in) /\ ~IssueNext(in)
  BY <1>1, OnlyOne DEF RequestPc, RedirectRequest, IssueNext
<1>4. NextPc(in) = IF IssueRedirect(in) THEN Plus(h, 2) ELSE pc
  BY <1>1, <1>2, <1>3 DEF NextPc
<1>5. NextPc(in) \in Halves
  BY <1>1, <1>4, PlusInside
<1>6. pc' = IF IssueRedirect(in) THEN Plus(h, 2) ELSE pc
  BY <1>1, <1>4 DEF Request
<1>7. hold' = {} /\ ifid' = {} /\ upper' = {}
  <2>1. DeliverNothing(in)
    BY <1>1, <1>2 DEF Inward, IfClock, FlushAll, DeliverHeld, DeliverUpper, UpperFirst,
                      DeliverResponse
  <2>. QED  BY <2>1, <1>1 DEF DeliverNothing, KeepUpper
<1>8. CASE IssueRedirect(in)
  <2>1. resp' = {h} /\ target' = {} /\ Answered' /\ pc' = Plus(h, 2)
    BY <1>1, <1>3, <1>5, <1>6, <1>8, Requests
  <2>2. Streaming(h)'
    BY <2>1, <1>7 DEF Streaming, At, After, Front, Continues
  <2>. QED  BY <2>1, <2>2, <1>1 DEF Delivers, Onward, After
<1>9. CASE ~IssueRedirect(in)
  <2>1. resp' = {} /\ target' = {h} /\ Answered'
    BY <1>1, <1>3, <1>5, <1>9, Requests
  <2>2. Redirecting(h)'
    BY <2>1, <1>7 DEF Redirecting
  <2>. QED  BY <2>1, <2>2, <1>1 DEF Delivers, Onward, After
<1>. QED  BY <1>8, <1>9

\* A stalled packet leaves the hold register; nothing is asked meanwhile.
LEMMA HeldPacket ==
  ASSUME Answered, NEW h \in Halves, Streaming(h), hold # {}, NEW in, Inward(in),
         NEW n, n = Onward(in, h), Front(h) \in Halves
  PROVE  Answered' /\ Delivers(n)'
<1>1. /\ target = {} /\ resp = {} /\ drop = FALSE /\ pc \in Halves
      /\ in.redirect = {} /\ Request(in)
      /\ At(ifid, h) /\ At(hold, After(ifid, h)) /\ Continues(Front(h))
  BY DEF Streaming, Answered, Inward, IfClock
<1>2. ~RespValid /\ ~IssueRedirect(in) /\ ~IssueNext(in) /\ ~RespStartsUpper
  BY <1>1 DEF RespValid, RespStartsUpper, IssueRedirect, IssueNext, CanIssue
<1>3. \/ upper = {} /\ pc = Front(h)
      \/ upper = Left(Front(h), Front(h)) /\ Front(h) % 2 = 1 /\ pc = Plus(Front(h), 1)
  BY <1>1 DEF Continues
<1>4. NextPc(in) = pc
  <2>1. CASE upper = {}
    BY <1>1, <1>2, <2>1 DEF NextPc, UpperIsC
  <2>2. CASE upper = Left(Front(h), Front(h)) /\ pc = Plus(Front(h), 1)
    <3>1. UpperPc = Front(h)
      BY <2>2, UpperParts
    <3>. QED  BY <1>1, <1>2, <2>2, <3>1 DEF NextPc
  <2>. QED  BY <2>1, <2>2, <1>3
<1>5. pc' = pc
  BY <1>1, <1>4 DEF Request
<1>6. resp' = {} /\ target' = {} /\ Answered'
  BY <1>1, <1>2, <1>4, Requests
<1>7. CASE in.advance
  <2>1. DeliverHeld(in)
    BY <1>1, <1>2, <1>7 DEF Inward, IfClock, FlushAll, DeliverUpper, UpperFirst,
                      DeliverResponse, DeliverNothing
  <2>2. ifid' = hold /\ hold' = {} /\ upper' = upper
    BY <1>2, <2>1 DEF DeliverHeld, KeepUpper
  <2>3. n = After(ifid, h) /\ Front(h) = After(hold, n)
    BY <1>7 DEF Onward, Front
  <2>4. At(ifid, n)' /\ At(hold, After(ifid, n))'
    BY <1>1, <2>2, <2>3 DEF At
  <2>5. Front(n)' = Front(h)
    BY <2>2, <2>3 DEF Front, After
  <2>6. Continues(Front(n))'
    BY <1>1, <1>3, <1>5, <1>6, <2>2, <2>5 DEF Continues
  <2>. QED  BY <1>6, <2>2, <2>4, <2>6 DEF Delivers, Streaming
<1>8. CASE ~in.advance
  <2>1. DeliverNothing(in)
    BY <1>1, <1>2, <1>8 DEF Inward, IfClock, FlushAll, DeliverUpper, UpperFirst,
                      DeliverResponse, DeliverHeld
  <2>2. ifid' = ifid /\ hold' = hold /\ upper' = upper
    BY <1>2, <1>8, <2>1 DEF DeliverNothing, KeepUpper
  <2>3. n = h /\ Front(n)' = Front(h)
    BY <1>8, <2>2 DEF Onward, Front, After
  <2>4. At(ifid, n)' /\ At(hold, After(ifid, n))'
    BY <1>1, <2>2, <2>3 DEF At, After
  <2>5. Continues(Front(n))'
    BY <1>1, <1>3, <1>5, <1>6, <2>2, <2>3 DEF Continues
  <2>. QED  BY <1>6, <2>2, <2>4, <2>5 DEF Delivers, Streaming
<1>. QED  BY <1>7, <1>8 DEF Inward
\* Nothing is buffered and nothing comes: the next request is the next
\* instruction's.
LEMMA NothingFetched ==
  ASSUME Answered, NEW h \in Halves, Streaming(h), hold = {}, upper = {}, resp = {},
         NEW in, Inward(in), NEW n, n = Onward(in, h), Front(h) \in Halves
  PROVE  Answered' /\ Delivers(n)'
<1>1. /\ target = {} /\ drop = FALSE /\ in.redirect = {} /\ Request(in)
      /\ At(ifid, h) /\ pc = Front(h) /\ Front(h) = After(ifid, h)
  BY DEF Streaming, Answered, Inward, IfClock, Continues, Left, Front, After
<1>2. ~RespValid /\ ~IssueRedirect(in) /\ ~RespStartsUpper /\ ~UpperIsC /\ ~UpperIsWide
  BY <1>1 DEF RespValid, RespStartsUpper, IssueRedirect, RedirectRequest, UpperIsC,
              UpperIsWide
<1>3. NextPc(in) = IF IssueNext(in) THEN Plus(pc, 2) ELSE pc
  BY <1>1, <1>2 DEF NextPc
<1>4. pc' = NextPc(in) /\ NextPc(in) \in Halves
  BY <1>1, <1>3, PlusInside DEF Request
<1>5. Answered' /\ target' = {} /\ resp' = IF IssueNext(in) THEN {pc} ELSE {}
  BY <1>1, <1>2, <1>4, Requests
<1>6. DeliverNothing(in)
  BY <1>1, <1>2 DEF Inward, IfClock, FlushAll, DeliverHeld, DeliverUpper, UpperFirst,
                    DeliverResponse
<1>7. hold' = {} /\ upper' = {} /\ ifid' = IF in.advance THEN {} ELSE ifid
  BY <1>2, <1>6 DEF DeliverNothing, KeepUpper
<1>8. At(ifid, n)' /\ At(hold, After(ifid, n))' /\ Front(n)' = pc
  BY <1>1, <1>7 DEF At, Front, After, Onward
<1>9. Continues(Front(n))'
  BY <1>3, <1>4, <1>5, <1>7, <1>8 DEF Continues
<1>. QED  BY <1>5, <1>7, <1>8, <1>9 DEF Delivers, Streaming

\* The second halfword of a word is the next instruction, or its first half.
LEMMA HalfBuffered ==
  ASSUME Answered, NEW h \in Halves, Streaming(h), hold = {}, upper # {}, resp = {},
         NEW in, Inward(in), NEW n, n = Onward(in, h), Front(h) \in Halves
  PROVE  Answered' /\ Delivers(n)'
<1>. DEFINE f == Front(h)
<1>1. /\ target = {} /\ drop = FALSE /\ in.redirect = {} /\ Request(in)
      /\ At(ifid, h) /\ upper = Left(f, f) /\ f % 2 = 1 /\ pc = Plus(f, 1)
      /\ f = After(ifid, h) /\ pc \in Halves
  BY DEF Streaming, Answered, Inward, IfClock, Continues, Front, After
<1>a. /\ UpperPc = f /\ UpperHalf = f
      /\ UpperIsC <=> f \in Compressed
      /\ UpperIsWide <=> f \notin Compressed
  BY <1>1, UpperParts
<1>2. ~RespValid /\ ~IssueRedirect(in) /\ ~RespStartsUpper
  BY <1>1 DEF RespValid, RespStartsUpper, IssueRedirect, RedirectRequest
<1>3. NextPc(in) = IF IssueNext(in) THEN Plus(pc, 2) ELSE pc
  BY <1>1, <1>a, <1>2 DEF NextPc
<1>4. pc' = NextPc(in) /\ NextPc(in) \in Halves
  BY <1>1, <1>3, PlusInside DEF Request
<1>5. Answered' /\ target' = {} /\ resp' = IF IssueNext(in) THEN {pc} ELSE {}
  BY <1>1, <1>2, <1>4, Requests
<1>6. CASE ~in.advance
  <2>1. DeliverNothing(in)
    BY <1>1, <1>2, <1>6 DEF Inward, IfClock, FlushAll, DeliverHeld, DeliverUpper,
                            UpperFirst, DeliverResponse
  <2>2. hold' = {} /\ upper' = upper /\ ifid' = ifid
    BY <1>2, <1>6, <2>1 DEF DeliverNothing, KeepUpper
  <2>3. resp' = {} /\ pc' = pc /\ n = h
    BY <1>3, <1>4, <1>5, <1>6 DEF IssueNext, Onward
  <2>4. At(ifid, n)' /\ At(hold, After(ifid, n))' /\ Front(n)' = f
    BY <1>1, <2>2, <2>3 DEF At, Front, After
  <2>5. Continues(Front(n))'
    BY <1>1, <2>2, <2>3, <2>4 DEF Continues
  <2>. QED  BY <1>5, <2>2, <2>4, <2>5 DEF Delivers, Streaming
<1>7. CASE in.advance
  <2>1. DeliverUpper(in) /\ n = f
    BY <1>1, <1>a, <1>2, <1>7 DEF Inward, IfClock, FlushAll, DeliverHeld, DeliverResponse,
                            DeliverNothing, UpperFirst, Onward
  <2>2. /\ hold' = {}
        /\ ifid' = IF f \in Compressed THEN Packet(f, <<f>>) ELSE {}
        /\ upper' = IF f \in Compressed THEN {} ELSE upper
    BY <1>a, <1>2, <2>1 DEF DeliverUpper, KeepUpper
  <2>3. CASE f \in Compressed
    <3>1. CodeAt(f) = <<f>> /\ Fall(f) = pc
      BY <1>1, <2>3, Instructions
    <3>2. ifid' = Packet(f, CodeAt(f)) /\ ifid' # {}
      BY <2>2, <2>3, <3>1 DEF Packet
    <3>3. At(ifid, n)' /\ At(hold, After(ifid, n))' /\ Front(n)' = pc
      BY <2>1, <2>2, <3>1, <3>2 DEF At, Front, After
    <3>4. Continues(Front(n))'
      BY <1>3, <1>4, <1>5, <2>2, <2>3, <3>3 DEF Continues
    <3>. QED  BY <1>5, <2>2, <3>3, <3>4 DEF Delivers, Streaming
  <2>4. CASE f \notin Compressed
    <3>1. At(ifid, n)' /\ At(hold, After(ifid, n))' /\ Front(n)' = f
      BY <2>1, <2>2, <2>4 DEF At, Front, After
    <3>2. Completes(pc, f)
      BY <1>1, Words, Parity DEF Completes
    <3>3. Continues(Front(n))'
      BY <1>1, <1>3, <1>4, <1>5, <2>2, <2>4, <3>1, <3>2 DEF Continues, Completes
    <3>. QED  BY <1>5, <2>2, <3>1, <3>3 DEF Delivers, Streaming
  <2>. QED  BY <2>3, <2>4
<1>. QED  BY <1>6, <1>7 DEF Inward
\* What a response offers goes to IF/ID or to the hold register; it is enough that
\* buffer and request counter continue the stream behind it.
LEMMA Offered ==
  ASSUME Answered, NEW h \in Halves, Streaming(h), hold = {}, resp # {},
         NEW in, Inward(in), NEW n, n = Onward(in, h), upper # {} => UpperIsWide,
         NEW f, f = Front(h), At(Offer.packet, f), NEW g, g = After(Offer.packet, f),
         upper' = Offer.rest => Continues(g)', Answered'
  PROVE  Delivers(n)'
<1>1. /\ target = {} /\ drop = FALSE /\ in.redirect = {} /\ Request(in)
      /\ At(ifid, h) /\ f = After(ifid, h) /\ pc \in Halves
  BY DEF Streaming, Answered, Inward, IfClock, Front, After
<1>2. RespValid /\ ~IssueRedirect(in) /\ ~UpperFirst(in)
  BY <1>1, Responds DEF IssueRedirect, RedirectRequest, UpperFirst, UpperIsC, UpperIsWide
<1>3. DeliverResponse(in)
  BY <1>1, <1>2 DEF Inward, IfClock, FlushAll, DeliverHeld, DeliverUpper, DeliverNothing
<1>4. /\ IF in.advance THEN ifid' = Offer.packet /\ hold' = hold
                       ELSE hold' = Offer.packet /\ ifid' = ifid
      /\ upper' = Offer.rest
  BY <1>2, <1>3 DEF DeliverResponse, KeepUpper
<1>5. Continues(g)'
  BY <1>4
<1>6. target' = {} /\ (~in.advance => resp' = {})
  <2>1. target' = {}
    BY <1>1, <1>2 DEF Request
  <2>2. ~in.advance => ~IssueNext(in)
    BY DEF IssueNext
  <2>. QED  BY <1>1, <1>2, <2>1, <2>2 DEF Request
<1>7. CASE in.advance
  <2>1. n = f /\ ifid' = Offer.packet /\ hold' = {}
    BY <1>1, <1>4, <1>7 DEF Onward
  <2>2. At(ifid, n)' /\ At(hold, After(ifid, n))' /\ Front(n)' = g
    BY <2>1 DEF At, Front, After
  <2>3. Continues(Front(n))'
    BY <1>5, <2>2 DEF Continues
  <2>. QED  BY <1>6, <2>1, <2>2, <2>3 DEF Delivers, Streaming
<1>8. CASE ~in.advance
  <2>1. n = h /\ ifid' = ifid /\ hold' = Offer.packet
    BY <1>1, <1>4, <1>8 DEF Onward
  <2>2. At(ifid, n)' /\ At(hold, After(ifid, n))' /\ Front(n)' = g
    BY <1>1, <2>1 DEF At, Front, After
  <2>3. Continues(Front(n))'
    BY <1>5, <2>2 DEF Continues
  <2>. QED  BY <1>6, <1>8, <2>1, <2>2, <2>3 DEF Delivers, Streaming
<1>. QED  BY <1>7, <1>8 DEF Inward

\* The counter and the request of a cycle without redirect in which no compressed
\* instruction waits in the upper buffer.
LEMMA Counting ==
  ASSUME Answered, target = {}, NEW in, Inward(in), ~UpperIsC,
         RespValid, RespPc \in Halves
  PROVE  /\ Answered'
         /\ IssueNext(in) => resp' = {pc} /\ pc' = Plus(pc, 2)
         /\ ~IssueNext(in) => resp' = {} /\ pc' = IF RespPc % 2 = 1 THEN Plus(RespPc, 1)
                                                   ELSE pc
<1>1. /\ in.redirect = {} /\ Request(in) /\ drop = FALSE /\ pc \in Halves
  BY DEF Answered, Inward, IfClock
<1>2. ~IssueRedirect(in)
  BY <1>1 DEF IssueRedirect, RedirectRequest
<1>3. NextPc(in) = IF IssueNext(in) THEN Plus(pc, 2)
                   ELSE IF RespPc % 2 = 1 THEN Plus(RespPc, 1) ELSE pc
  BY <1>1, <1>2 DEF NextPc, RespStartsUpper
<1>4. NextPc(in) \in Halves
  BY <1>1, <1>3, PlusInside
<1>. QED  BY <1>1, <1>2, <1>3, <1>4, Requests DEF Request
\* A word that starts an instruction.
LEMMA FreshWord ==
  ASSUME Answered, NEW h \in Halves, Streaming(h), hold = {}, upper = {}, resp # {},
         NEW in, Inward(in), NEW n, n = Onward(in, h),
         NEW f \in Halves, f = Front(h)
  PROVE  Answered' /\ Delivers(n)'
<1>1. /\ target = {} /\ resp = {f} /\ pc = Plus(f, 2) /\ in.redirect = {}
  BY DEF Streaming, Continues, Left, Inward
<1>2. /\ RespValid /\ RespPc = f /\ ~UpperIsC /\ ~UpperIsWide
      /\ Low = WordOf(f) /\ High = Plus(WordOf(f), 1)
  BY <1>1, Responds DEF UpperIsC, UpperIsWide
<1>3. /\ Answered'
      /\ IssueNext(in) => resp' = {pc} /\ pc' = Plus(pc, 2)
      /\ ~IssueNext(in) => resp' = {} /\ pc' = IF f % 2 = 1 THEN Plus(f, 1) ELSE pc
  BY <1>1, <1>2, Counting
<1>4. /\ pc \in Halves /\ Plus(f, 1) \in Halves /\ WordOf(pc) = Plus(WordOf(f), 2)
  BY <1>1, PlusInside, NextWord
<1>5. CASE f % 2 = 0 /\ f \in Compressed
  <2>1. Low = f /\ High = Plus(f, 1) /\ CodeAt(f) = <<f>> /\ Fall(f) = Plus(f, 1)
    BY <1>2, <1>5, Words, Instructions
  <2>2. Offer = [packet |-> Packet(f, CodeAt(f)), rest |-> Left(Plus(f, 1), Plus(f, 1))]
    BY <1>2, <1>5, <2>1 DEF Offer
  <2>3. At(Offer.packet, f) /\ After(Offer.packet, f) = Plus(f, 1)
    BY <2>1, <2>2 DEF At, After, Packet
  <2>4. IssueNext(in) => Plus(f, 1) \notin Compressed
    BY <1>2, <1>5, <2>1 DEF IssueNext, CanIssue, RespHasTwoC
  <2>5. /\ Plus(f, 1) % 2 = 1 /\ pc = Plus(Plus(f, 1), 1)
        /\ Completes(pc, Plus(f, 1))
    BY <1>1, <1>4, <1>5, Parity, PlusTwice, Words DEF Completes
  <2>6. ASSUME upper' = Offer.rest, NEW g, g = Plus(f, 1)  PROVE Continues(g)'
    BY <1>3, <1>4, <1>5, <2>2, <2>4, <2>5, <2>6 DEF Continues, Completes
  <2>7. Delivers(n)'
    BY <1>2, <1>3, <2>3, <2>6, <1>1, Offered
  <2>. QED  BY <1>3, <2>7
<1>6. CASE f % 2 = 0 /\ f \notin Compressed
  <2>1. /\ Low = f /\ High = Plus(f, 1)
        /\ CodeAt(f) = <<f, Plus(f, 1)>> /\ Fall(f) = pc
    BY <1>1, <1>2, <1>6, Words, Instructions
  <2>2. Offer = [packet |-> Packet(f, CodeAt(f)), rest |-> {}]
    BY <1>2, <1>6, <2>1 DEF Offer
  <2>3. At(Offer.packet, f) /\ After(Offer.packet, f) = pc
    BY <2>1, <2>2 DEF At, After, Packet
  <2>4. ASSUME upper' = Offer.rest, NEW g, g = pc  PROVE Continues(g)'
    BY <1>3, <1>6, <2>2, <2>4 DEF Continues
  <2>5. Delivers(n)'
    BY <1>2, <1>3, <2>3, <2>4, <1>1, Offered
  <2>. QED  BY <1>3, <2>5
<1>7. CASE f % 2 = 1 /\ f \in Compressed
  <2>1. High = f /\ CodeAt(f) = <<f>> /\ Fall(f) = Plus(f, 1)
    BY <1>2, <1>7, Words, Instructions
  <2>2. Offer = [packet |-> Packet(f, CodeAt(f)), rest |-> {}]
    BY <1>2, <1>7, <2>1 DEF Offer
  <2>3. At(Offer.packet, f) /\ After(Offer.packet, f) = Plus(f, 1)
    BY <2>1, <2>2 DEF At, After, Packet
  <2>4. ~IssueNext(in)
    BY <1>2, <1>7, <2>1 DEF IssueNext, CanIssue, UpperAhead, RespStartsUpper
  <2>5. ASSUME upper' = Offer.rest, NEW g, g = Plus(f, 1)  PROVE Continues(g)'
    BY <1>3, <1>7, <2>2, <2>4, <2>5 DEF Continues
  <2>6. Delivers(n)'
    BY <1>2, <1>3, <2>3, <2>5, <1>1, Offered
  <2>. QED  BY <1>3, <2>6
<1>8. CASE f % 2 = 1 /\ f \notin Compressed
  <2>1. High = f
    BY <1>2, <1>8, Words
  <2>2. Offer = [packet |-> {}, rest |-> Left(f, f)]
    BY <1>2, <1>8, <2>1 DEF Offer
  <2>3. At(Offer.packet, f) /\ After(Offer.packet, f) = f
    BY <2>2 DEF At, After
  <2>4. Completes(pc, f)
    <3>1. Plus(WordOf(f), 2) = Plus(Plus(WordOf(f), 1), 1) /\ Plus(WordOf(f), 1) = f
      BY <1>8, Words, PlusTwice
    <3>. QED  BY <1>4, <3>1 DEF Completes
  <2>5. ASSUME upper' = Offer.rest, NEW g, g = f  PROVE Continues(g)'
    BY <1>3, <1>4, <1>8, <2>2, <2>4, <2>5 DEF Continues, Completes
  <2>6. Delivers(n)'
    BY <1>2, <1>3, <2>3, <2>5, <1>1, Offered
  <2>. QED  BY <1>3, <2>6
<1>. QED  BY <1>5, <1>6, <1>7, <1>8, Parity

\* A word that completes an instruction and starts another one.
LEMMA SecondHalf ==
  ASSUME Answered, NEW h \in Halves, Streaming(h), hold = {}, upper # {}, resp # {},
         NEW in, Inward(in), NEW n, n = Onward(in, h),
         NEW f \in Halves, f = Front(h)
  PROVE  Answered' /\ Delivers(n)'
<1>1. /\ target = {} /\ upper = Left(f, f) /\ f % 2 = 1 /\ f \notin Compressed
      /\ in.redirect = {}
  BY DEF Streaming, Continues, Inward
<1>2. PICK q \in Halves : resp = {q} /\ WordOf(q) = Plus(f, 1) /\ pc = Plus(q, 2)
  BY DEF Streaming, Continues, Completes
<1>3. UpperPc = f /\ UpperHalf = f /\ ~UpperIsC /\ UpperIsWide
  BY <1>1, UpperParts
<1>4. /\ Plus(f, 1) \in Halves /\ Plus(f, 2) \in Halves /\ Plus(Plus(f, 1), 1) = Plus(f, 2)
      /\ Plus(f, 1) % 2 = 0 /\ Plus(f, 2) % 2 = 1
      /\ Plus(Plus(f, 2), 1) = Plus(Plus(f, 1), 2)
  BY <1>1, PlusInside, PlusTwice, Parity
<1>5. RespValid /\ RespPc = q /\ Low = Plus(f, 1) /\ High = Plus(f, 2)
  BY <1>2, <1>4, Responds
<1>6. /\ Answered'
      /\ IssueNext(in) => resp' = {pc} /\ pc' = Plus(pc, 2)
      /\ ~IssueNext(in) => resp' = {} /\ pc' = IF q % 2 = 1 THEN Plus(q, 1) ELSE pc
  BY <1>1, <1>3, <1>5, Counting
<1>7. CodeAt(f) = <<f, Plus(f, 1)>> /\ Fall(f) = Plus(f, 2)
  BY <1>1, Instructions
<1>8. Offer = [packet |-> Packet(f, CodeAt(f)), rest |-> Left(Plus(f, 2), Plus(f, 2))]
  BY <1>3, <1>5, <1>7 DEF Offer
<1>9. At(Offer.packet, f) /\ After(Offer.packet, f) = Plus(f, 2)
  BY <1>7, <1>8 DEF At, After, Packet
<1>10. IssueNext(in) => Plus(f, 2) \notin Compressed
  BY <1>3, <1>5 DEF IssueNext, CanIssue
<1>11. pc \in Halves /\ WordOf(pc) = Plus(Plus(f, 2), 1)
  BY <1>2, <1>4, PlusInside, NextWord
<1>12. q % 2 = 1 => Plus(q, 1) = Plus(Plus(f, 2), 1)
  BY <1>2, <1>4, Words
<1>13. q % 2 = 0 => pc = Plus(Plus(f, 2), 1)
  BY <1>2, <1>4, Words
<1>14. ASSUME upper' = Offer.rest, NEW g, g = Plus(f, 2)  PROVE Continues(g)'
  <2>1. CASE IssueNext(in)
    BY <1>4, <1>6, <1>8, <1>10, <1>11, <1>14, <2>1 DEF Continues, Completes
  <2>2. CASE ~IssueNext(in)
    BY <1>2, <1>4, <1>6, <1>8, <1>12, <1>13, <1>14, <2>2, Parity DEF Continues
  <2>. QED  BY <2>1, <2>2
<1>15. Delivers(n)'
  BY <1>1, <1>3, <1>5, <1>6, <1>9, <1>14, Offered
<1>. QED  BY <1>6, <1>15

\* Whatever is buffered, the stage goes on with the program.
LEMMA FetchOn ==
  ASSUME Answered, NEW h \in Halves, Delivers(h), NEW in, Inward(in),
         NEW n, n = Onward(in, h)
  PROVE  Answered' /\ Delivers(n)'
<1>1. CASE Redirecting(h)
  BY <1>1, WaitingRedirect
<1>2. CASE Streaming(h)
  <2>1. After(ifid, h) \in Halves /\ Front(h) \in Halves
    <3>1. After(ifid, h) \in Halves
      BY Instructions DEF After
    <3>. QED  BY <3>1, Instructions DEF Front, After
  <2>2. CASE hold # {}
    BY <1>2, <2>1, <2>2, HeldPacket
  <2>3. CASE hold = {} /\ upper = {} /\ resp = {}
    BY <1>2, <2>1, <2>3, NothingFetched
  <2>4. CASE hold = {} /\ upper # {} /\ resp = {}
    BY <1>2, <2>1, <2>4, HalfBuffered
  <2>5. CASE hold = {} /\ upper = {} /\ resp # {}
    BY <1>2, <2>1, <2>5, FreshWord
  <2>6. CASE hold = {} /\ upper # {} /\ resp # {}
    BY <1>2, <2>1, <2>6, SecondHalf
  <2>. QED  BY <2>2, <2>3, <2>4, <2>5, <2>6
<1>. QED  BY <1>1, <1>2 DEF Delivers

\* A redirect discards everything and is requested at once or waits.
LEMMA FetchElsewhere ==
  ASSUME Answered, NEW h \in Halves, NEW in, in.redirect = {h}, IfClock(in)
  PROVE  Answered' /\ Delivers(h)'
<1>1. Request(in) /\ FlushAll(in) /\ pc \in Halves
  BY DEF IfClock, DeliverHeld, DeliverUpper, DeliverResponse, DeliverNothing, Answered
<1>2. ifid' = {} /\ hold' = {} /\ upper' = {}
  BY <1>1 DEF FlushAll
<1>3. RequestPc(in) = h /\ RedirectRequest(in) /\ ~IssueNext(in)
  BY OnlyOne DEF RequestPc, RedirectRequest, IssueNext
<1>4. NextPc(in) = IF IssueRedirect(in) THEN Plus(h, 2) ELSE pc
  BY <1>3 DEF NextPc
<1>5. NextPc(in) \in Halves /\ pc' = NextPc(in)
  BY <1>1, <1>4, PlusInside DEF Request
<1>6. CASE IssueRedirect(in)
  <2>1. resp' = {h} /\ target' = {} /\ Answered' /\ pc' = Plus(h, 2)
    BY <1>1, <1>3, <1>4, <1>5, <1>6, Requests
  <2>. QED  BY <2>1, <1>2 DEF Delivers, Streaming, At, After, Front, Continues
<1>7. CASE ~IssueRedirect(in)
  <2>1. resp' = {} /\ target' = {h} /\ Answered'
    BY <1>1, <1>3, <1>5, <1>7, Requests
  <2>. QED  BY <2>1, <1>2 DEF Delivers, Redirecting
<1>. QED  BY <1>6, <1>7
-----------------------------------------------------------------------------
(* What EX accepts, and where it sends the front end.                      *)

\* One clock with its inputs, the guess of the predictor and the successor that
\* the instruction in EX chooses.
Step(i, guess, next) ==
  /\ i \in Inputs /\ guess \in GuessesNow(i)
  /\ next \in IF Accepted(i) = {} THEN {pc} ELSE Successors(Only(ex).pc)
  /\ IfClock(FetchInputs(i, guess, next))
  /\ IdEx(i, guess, BackRedirect(next, i)) /\ Golden(i, next)
  /\ ExMemWb(i) /\ Csr(i) /\ Mode(i)

LEMMA Successor ==
  ASSUME NEW h \in Halves
  PROVE  /\ Successors(h) \subseteq Halves
         /\ Kind[h] \in {"fence", "wfi"} => Successors(h) = {Plus(h, 2)}
<1>1. /\ Kind[h] \in Kinds /\ Targets[h] \subseteq Halves /\ Fall(h) \in Halves
      /\ Kind[h] \in {"fence", "wfi"} => Fall(h) = Plus(h, 2)
  BY KindAssumption, FormatAssumption, Instructions
<1>. QED  BY <1>1 DEF Successors, Kinds

LEMMA InputFacts ==
  ASSUME NEW i \in Inputs
  PROVE  /\ i.stall \in {"none", "ex", "mem"}
         /\ i.stall = "ex" => ex # {}
         /\ i.stall = "mem" => Plain(mem)
         /\ i.replay \in BOOLEAN /\ i.busy \in BOOLEAN /\ i.irq \in BOOLEAN
         /\ i.halt \in BOOLEAN /\ i.resume \in BOOLEAN /\ i.release \in BOOLEAN
         /\ i.busy => BootWrites \/ i.stall = "mem"
         /\ i.resume => mode.halted /\ Drained
         /\ i.dpc \in Opt(DebuggerPcs)
         /\ i.dpc # {} => mode.halted /\ Drained
         /\ i.resume => i.dpc = {}
<1>1. /\ i.stall \in {"none"} \cup {s \in {"ex"} : ex # {}} \cup {s \in {"mem"} : Plain(mem)}
      /\ i.replay \in When(ifid # {} /\ (ex # {} \/ Plain(mem)))
      /\ i.busy \in When(BootWrites \/ Plain(mem))
      /\ i.irq \in BOOLEAN
      /\ i.halt \in IF mode.halting THEN {TRUE} ELSE When(~mode.halted)
      /\ i.resume \in When(mode.halted /\ Drained)
      /\ i.dpc \in IF mode.halted /\ Drained THEN Opt(DebuggerPcs) ELSE {{}}
      /\ i.release \in When(~mode.fetch)
      /\ i.busy => BootWrites \/ i.stall = "mem"
      /\ i.resume => i.dpc = {}
  BY DEF Inputs
<1>2. i.stall \in {"none", "ex", "mem"} /\ (i.stall = "ex" => ex # {})
      /\ (i.stall = "mem" => Plain(mem))
  BY <1>1
<1>3. /\ i.replay \in BOOLEAN /\ i.busy \in BOOLEAN /\ i.irq \in BOOLEAN
      /\ i.halt \in BOOLEAN /\ i.resume \in BOOLEAN /\ i.release \in BOOLEAN
      /\ i.resume => mode.halted /\ Drained
  BY <1>1 DEF When
<1>4. i.dpc \in Opt(DebuggerPcs) /\ (i.dpc # {} => mode.halted /\ Drained)
  BY <1>1 DEF Opt
<1>. QED  BY <1>1, <1>2, <1>3, <1>4

\* The instruction in EX, if there is one, is the next one of the program, and no
\* trap or return is under way behind it.
LEMMA Current ==
  ASSUME IInv, ex # {}
  PROVE  \E p : /\ ex = {p} /\ Only(ex) = p /\ p.pc = golden.pc
                /\ p.code = CodeAt(golden.pc) /\ p.guess \in Opt(Halves)
                /\ Followed(p) \in Halves /\ Expected = Followed(p)
                /\ golden.pc \in Halves /\ ~mode.serial
                /\ ~Eventful(mem) /\ ~Eventful(wb) /\ csr.mepc = golden.epc
<1>1. PICK g \in Opt(Halves) :
        ex = {[pc |-> golden.pc, code |-> CodeAt(golden.pc), guess |-> g]}
  BY DEF IInv, InEx
<1>. DEFINE p == [pc |-> golden.pc, code |-> CodeAt(golden.pc), guess |-> g]
<1>2. p.pc = golden.pc /\ p.code = CodeAt(golden.pc) /\ p.guess = g /\ golden.pc \in Halves
  BY DEF IInv, Shapes
<1>3. ex = {p} /\ Only(ex) = p
  <2>. HIDE DEF p
  <2>. QED  BY <1>1, OnlyOne DEF p
<1>4. Followed(p) \in Halves
  <2>1. CASE g = {}
    BY <1>2, <2>1, Instructions DEF Followed
  <2>2. CASE g # {}
    <3>1. PICK t \in Halves : g = {t}
      BY <2>2 DEF Opt
    <3>2. Only(g) = t
      BY <3>1, OnlyOne
    <3>. QED  BY <1>2, <2>2, <3>1, <3>2 DEF Followed
  <2>. QED  BY <2>1, <2>2
<1>5. Expected = Followed(p)
  BY <1>3 DEF Expected
<1>6. ~mode.serial /\ ~Eventful(mem) /\ ~Eventful(wb)
  BY DEF IInv, Serialised
<1>7. csr.mepc = golden.epc
  BY <1>6 DEF IInv, Returns, Eventful
<1>. HIDE DEF p
<1>. QED  BY <1>2, <1>3, <1>4, <1>5, <1>6, <1>7
\* The back end redirects the front end exactly to where the program goes on, or
\* leaves it on the way it follows.
LEMMA Redirects ==
  ASSUME IInv, NEW i, NEW guess, NEW next, Step(i, guess, next),
         NEW back, back = BackRedirect(next, i)
  PROVE  /\ golden' \in [pc : Halves, epc : Halves]
         /\ \/ /\ back = {} /\ ~Event(i) /\ ~i.resume
               /\ golden'.pc = IF i.stall = "none" THEN Expected ELSE golden.pc
            \/ \E r \in Halves : back = {r} /\ golden'.pc = r
         /\ Event(i) => \E r \in Halves : back = {r}
<1>1. /\ i \in Inputs /\ Golden(i, next)
      /\ next \in IF Accepted(i) = {} THEN {pc} ELSE Successors(Only(ex).pc)
  BY DEF Step
<1>2. golden \in [pc : Halves, epc : Halves] /\ csr.dpc \in Halves /\ csr.mepc \in Halves
  BY DEF IInv, Shapes
<1>3. i.resume => ex = {}
  BY <1>1, InputFacts DEF Drained
<1>4. CASE Accepted(i) = {}
  <2>1. ~Event(i) /\ back = IF i.resume THEN {csr.dpc} ELSE {}
    BY <1>4 DEF Event, BackRedirect
  <2>2. golden' = IF i.resume THEN [golden EXCEPT !.pc = csr.dpc] ELSE golden
    BY <1>1, <1>4 DEF Golden
  <2>3. i.stall = "none" => Expected = golden.pc
    BY <1>4 DEF Accepted, Expected
  <2>. QED  BY <1>2, <2>1, <2>2, <2>3
<1>5. CASE Accepted(i) # {}
  <2>1. ex # {} /\ i.stall = "none" /\ Accepted(i) = ex /\ ~i.resume
    BY <1>3, <1>5 DEF Accepted
  <2>2. PICK p : /\ ex = {p} /\ Only(ex) = p /\ p.pc = golden.pc
                 /\ Expected = Followed(p) /\ Followed(p) \in Halves
                 /\ golden.pc \in Halves /\ csr.mepc = golden.epc
    BY <2>1, Current
  <2>3. next \in Successors(p.pc) /\ next \in Halves
    BY <1>1, <1>5, <2>2, Successor
  <2>4. back = ExRedirect(p, next, i)
    BY <2>1, <2>2 DEF BackRedirect
  <2>5. Event(i) <=> EventOf(p, i) # "none"
    BY <2>1, <2>2 DEF Event
  <2>6. golden' = CASE EventOf(p, i) = "trap" -> [pc |-> Mtvec, epc |-> golden.pc]
                    [] EventOf(p, i) = "mret" -> [golden EXCEPT !.pc = golden.epc]
                    [] OTHER -> [golden EXCEPT !.pc = next]
    BY <1>1, <2>1, <2>2, OnlyOne DEF Golden
  <2>7. CASE EventOf(p, i) = "trap"
    <3>1. back = {Mtvec} /\ golden' = [pc |-> Mtvec, epc |-> golden.pc]
      BY <2>4, <2>6, <2>7 DEF ExRedirect
    <3>. QED  BY <3>1, <2>2, <1>2, VectorAssumption
  <2>8. CASE EventOf(p, i) = "mret"
    <3>1. back = {csr.mepc} /\ golden' = [golden EXCEPT !.pc = golden.epc]
      BY <2>4, <2>6, <2>8 DEF ExRedirect
    <3>. QED  BY <3>1, <2>2, <1>2
  <2>9. CASE EventOf(p, i) \notin {"trap", "mret"}
    <3>1. golden' = [golden EXCEPT !.pc = next]
      BY <2>6, <2>9
    <3>2. golden' \in [pc : Halves, epc : Halves] /\ golden'.pc = next
      BY <3>1, <1>2, <2>3
    <3>3. CASE EventOf(p, i) = "wfi" \/ Kind[p.pc] = "fence"
      <4>1. back = {Plus(p.pc, 2)}
        <5>1. EventOf(p, i) = "wfi" \/ (EventOf(p, i) = "none" /\ Kind[p.pc] = "fence")
          BY <2>9, <3>3 DEF EventOf
        <5>. QED  BY <2>4, <5>1 DEF ExRedirect
      <4>2. Kind[p.pc] \in {"fence", "wfi"}
        BY <3>3 DEF EventOf
      <4>3. next = Plus(p.pc, 2)
        BY <2>2, <2>3, <4>2, Successor
      <4>. QED  BY <3>2, <4>1, <4>3, <2>3
    <3>4. CASE ~(EventOf(p, i) = "wfi" \/ Kind[p.pc] = "fence")
      <4>1. back = {next} \ {Followed(p)}
        BY <2>4, <2>9, <3>4 DEF ExRedirect
      <4>2. EventOf(p, i) = "none"
        BY <2>9, <3>4 DEF EventOf
      <4>. QED  BY <2>1, <2>2, <2>3, <2>5, <3>2, <4>1, <4>2
    <3>. QED  BY <3>3, <3>4
  <2>. QED  BY <2>7, <2>8, <2>9
<1>. QED  BY <1>4, <1>5
LEMMA Predictions ==
  ASSUME NEW h \in Halves, NEW g \in Guesses(h)
  PROVE  g \in Opt(Halves)
<1>1. /\ Kind[h] \in Kinds /\ Targets[h] \subseteq Halves /\ Successors(h) \subseteq Halves
      /\ Kind[h] = "jump" => \E t \in Halves : Targets[h] = {t}
  BY KindAssumption, FormatAssumption, Successor
<1>2. \A S : S \subseteq Halves => Opt(S) \subseteq Opt(Halves)
  BY DEF Opt
<1>3. {} \in Opt(Halves) /\ \A t \in Halves : {t} \in Opt(Halves)
  BY DEF Opt
<1>. QED  BY <1>1, <1>2, <1>3 DEF Guesses, Kinds

\* The pipeline advances unless EX, MEM or a load-use bubble holds it: the memory
\* serves another port only while a load or store is held.
LEMMA Advances ==
  ASSUME IInv, ~BootWrites, NEW i \in Inputs, NEW guess, NEW next,
         NEW in, in = FetchInputs(i, guess, next)
  PROVE  /\ in.advance <=> i.stall = "none" /\ ~i.replay
         /\ in.run \in BOOLEAN /\ in.ready \in BOOLEAN /\ in.advance \in BOOLEAN
         /\ in.redirect = IF BackRedirect(next, i) # {} THEN BackRedirect(next, i)
                          ELSE IdRedirect(guess)
         /\ Event(i) \/ ~Running => ~in.run
<1>. DEFINE run == Running /\ ~Event(i)
<1>1. /\ in.advance = (i.stall = "none" /\ ~i.replay /\ ~FetchWait(run, ~i.busy))
      /\ in.run = run /\ in.ready = ~i.busy
      /\ in.redirect = IF BackRedirect(next, i) # {} THEN BackRedirect(next, i)
                       ELSE IdRedirect(guess)
  BY DEF FetchInputs
<1>2. i.stall = "none" => ~FetchWait(run, ~i.busy)
  <2>1. i.stall = "none" => ~i.busy
    BY InputFacts
  <2>2. resp # {} => imem # {}
    BY DEF IInv, Answered
  <2>. QED  BY <2>1, <2>2, InputFacts DEF FetchWait
<1>3. run \in BOOLEAN /\ i.busy \in BOOLEAN
  BY InputFacts DEF Running
<1>. HIDE DEF run
<1>. QED  BY <1>1, <1>2, <1>3 DEF run

\* A redirect of the back end.
LEMMA BackStep ==
  ASSUME IInv, ~BootWrites, NEW i, NEW guess, NEW next, Step(i, guess, next),
         BackRedirect(next, i) # {}
  PROVE  Answered' /\ InEx' /\ Delivers(Expected)'
<1>1. PICK r \in Halves : BackRedirect(next, i) = {r} /\ golden'.pc = r
  BY Redirects
<1>2. i \in Inputs /\ ex' = {}
  BY <1>1 DEF Step, IdEx
<1>3. FetchInputs(i, guess, next).redirect = {r} /\ IfClock(FetchInputs(i, guess, next))
  BY <1>1, <1>2, Advances DEF Step
<1>4. Answered' /\ Delivers(r)'
  BY <1>3, FetchElsewhere DEF IInv
<1>5. Expected' = r
  BY <1>1, <1>2 DEF Expected
<1>6. Delivers(Expected)'
  BY <1>4, <1>5 DEF Delivers, Redirecting, Streaming, Front
<1>. QED  BY <1>2, <1>4, <1>6 DEF InEx

\* A clock in which ID keeps its instruction.
LEMMA HoldStep ==
  ASSUME IInv, ~BootWrites, NEW i, NEW guess, NEW next, Step(i, guess, next),
         BackRedirect(next, i) = {}, i.stall # "none" \/ i.replay
  PROVE  Answered' /\ InEx' /\ Delivers(Expected)'
<1>. DEFINE in == FetchInputs(i, guess, next)
<1>1. i \in Inputs /\ IfClock(in) /\ guess = {}
  BY DEF Step, GuessesNow
<1>2. IdRedirect(guess) = {}
  BY <1>1 DEF IdRedirect
<1>3. Inward(in) /\ ~in.advance
  BY <1>1, <1>2, Advances DEF Inward
<1>4. golden \in [pc : Halves, epc : Halves] /\ golden' \in [pc : Halves, epc : Halves]
      /\ golden'.pc = IF i.stall = "none" THEN Expected ELSE golden.pc
  BY Redirects DEF IInv, Shapes
<1>5. Expected \in Halves
  <2>1. CASE ex = {}
    BY <1>4, <2>1 DEF Expected
  <2>2. CASE ex # {}
    BY <2>2, Current
  <2>. QED  BY <2>1, <2>2
<1>6. PICK e \in Halves : e = Expected
  BY <1>5
<1>7. Answered' /\ Delivers(e)'
  <2>1. Answered /\ Delivers(e) /\ e = Onward(in, e)
    BY <1>3, <1>6 DEF IInv, Onward
  <2>. HIDE DEF in
  <2>. QED  BY <1>3, <2>1, FetchOn
<1>8. InEx' /\ Expected' = e
  <2>1. CASE i.stall = "none"
    <3>1. ex' = {}
      BY <2>1 DEF Step, IdEx
    <3>. QED  BY <1>4, <1>6, <2>1, <3>1 DEF InEx, Expected
  <2>2. CASE i.stall # "none"
    <3>1. ex' = ex
      BY <2>2 DEF Step, IdEx
    <3>2. golden'.pc = golden.pc
      BY <1>4, <2>2
    <3>. QED  BY <1>6, <3>1, <3>2 DEF IInv, InEx, Expected
  <2>. QED  BY <2>1, <2>2
<1>9. Delivers(Expected)'
  BY <1>7, <1>8 DEF Delivers, Redirecting, Streaming, Front
<1>. QED  BY <1>7, <1>8, <1>9

\* A clock in which the instruction of ID goes to EX, and the predictor may send
\* the front end elsewhere.
LEMMA MoveStep ==
  ASSUME IInv, ~BootWrites, NEW i, NEW guess, NEW next, Step(i, guess, next),
         BackRedirect(next, i) = {}, i.stall = "none", ~i.replay
  PROVE  Answered' /\ InEx' /\ Delivers(Expected)'
<1>. DEFINE in == FetchInputs(i, guess, next)
<1>1. i \in Inputs /\ IfClock(in) /\ guess \in GuessesNow(i)
      /\ ex' = {[pc |-> p.pc, code |-> p.code, guess |-> guess] : p \in ifid}
  BY DEF Step, IdEx
<1>2. /\ in.advance /\ in.run \in BOOLEAN /\ in.ready \in BOOLEAN /\ in.advance \in BOOLEAN
      /\ in.redirect = IdRedirect(guess)
  BY <1>1, Advances
<1>4. golden \in [pc : Halves, epc : Halves] /\ golden'.pc = Expected
  BY Redirects DEF IInv, Shapes
<1>5. Expected \in Halves
  <2>1. CASE ex = {}
    BY <1>4, <2>1 DEF Expected
  <2>2. CASE ex # {}
    BY <2>2, Current
  <2>. QED  BY <2>1, <2>2
<1>6. PICK e \in Halves : e = Expected
  BY <1>5
<1>7. Answered /\ Delivers(e)
  BY <1>6 DEF IInv
<1>8. CASE ifid = {}
  <2>1. ex' = {} /\ IdRedirect(guess) = {}
    BY <1>1, <1>8 DEF IdRedirect
  <2>2. InEx' /\ Expected' = e
    BY <1>4, <1>6, <2>1 DEF InEx, Expected
  <2>3. Inward(in) /\ e = Onward(in, e)
    BY <1>1, <1>2, <1>8, <2>1 DEF Inward, Onward, After
  <2>4. Answered' /\ Delivers(e)'
    <3>. HIDE DEF in
    <3>. QED  BY <1>7, <2>3, FetchOn
  <2>5. Delivers(Expected)'
    BY <2>2, <2>4 DEF Delivers, Redirecting, Streaming, Front
  <2>. QED  BY <2>2, <2>4, <2>5
<1>9. CASE ifid # {}
  <2>1. ifid = {[pc |-> e, code |-> CodeAt(e)]}
    BY <1>7, <1>9 DEF Delivers, Redirecting, Streaming, At, Packet
  <2>2. ex' = {[pc |-> e, code |-> CodeAt(e), guess |-> guess]}
    BY <1>1, <2>1
  <2>3. guess \in Opt(Halves)
    <3>1. guess = {} \/ guess \in Guesses(e)
      BY <1>1, <1>9, <2>1 DEF GuessesNow
    <3>2. {} \in Opt(Halves)
      BY DEF Opt
    <3>. QED  BY <3>1, <3>2, Predictions
  <2>4. InEx'
    BY <1>4, <1>6, <2>2, <2>3 DEF InEx
  <2>5. Only(ex)'.guess = guess /\ Only(ex)'.pc = e /\ ex' # {}
    <3>. DEFINE r == [pc |-> e, code |-> CodeAt(e), guess |-> guess]
    <3>1. ex' = {r} /\ r.guess = guess /\ r.pc = e
      BY <2>2
    <3>. HIDE DEF r
    <3>2. Only({r}) = r
      BY OnlyOne
    <3>. QED  BY <3>1, <3>2
  <2>6. IdRedirect(guess) = guess \ {Fall(e)}
    BY <2>1 DEF IdRedirect
  <2>7. CASE guess = {} \/ guess = {Fall(e)}
    <3>1. Inward(in) /\ Fall(e) = Onward(in, e)
      BY <1>1, <1>2, <1>9, <2>6, <2>7 DEF Inward, Onward, After
    <3>2. Answered' /\ Delivers(Fall(e))'
      <4>1. PICK n : n = Fall(e)
        OBVIOUS
      <4>2. Answered' /\ Delivers(n)'
        <5>. HIDE DEF in
        <5>. QED  BY <1>7, <3>1, <4>1, FetchOn
      <4>. QED  BY <4>1, <4>2
    <3>3. Expected' = Fall(e)
      <4>1. Only({Fall(e)}) = Fall(e)
        BY OnlyOne
      <4>. QED  BY <2>5, <2>7, <4>1 DEF Expected, Followed
    <3>4. Delivers(Expected)'
      BY <3>2, <3>3 DEF Delivers, Redirecting, Streaming, Front
    <3>. QED  BY <2>4, <3>2, <3>4
  <2>8. CASE guess # {} /\ guess # {Fall(e)}
    <3>1. PICK t \in Halves : guess = {t} /\ t # Fall(e)
      BY <2>3, <2>8 DEF Opt
    <3>2. in.redirect = {t}
      BY <1>2, <2>6, <3>1
    <3>3. Answered' /\ Delivers(t)'
      <4>. HIDE DEF in
      <4>. QED  BY <1>1, <1>7, <3>2, FetchElsewhere
    <3>4. Expected' = t
      <4>1. Only({t}) = t
        BY OnlyOne
      <4>. QED  BY <2>5, <3>1, <4>1 DEF Expected, Followed
    <3>5. Delivers(Expected)'
      BY <3>3, <3>4 DEF Delivers, Redirecting, Streaming, Front
    <3>. QED  BY <2>4, <3>3, <3>5
  <2>. QED  BY <2>7, <2>8
<1>. QED  BY <1>8, <1>9
-----------------------------------------------------------------------------
(* Control events.                                                         *)

LEMMA Fetches ==
  ASSUME IInv, ~BootWrites, NEW i, NEW guess, NEW next, Step(i, guess, next)
  PROVE  Answered' /\ InEx' /\ Delivers(Expected)'
<1>1. CASE BackRedirect(next, i) # {}
  BY <1>1, BackStep
<1>2. CASE BackRedirect(next, i) = {} /\ (i.stall # "none" \/ i.replay)
  BY <1>2, HoldStep
<1>3. CASE BackRedirect(next, i) = {} /\ i.stall = "none" /\ ~i.replay
  BY <1>3, MoveStep
<1>. QED  BY <1>1, <1>2, <1>3

\* What EX/MEM and MEM/WB hold next: the event of an accepted instruction, which
\* then goes on for one clock and commits.
LEMMA Behind ==
  ASSUME IInv, NEW i, NEW guess, NEW next, Step(i, guess, next)
  PROVE  /\ IsOpt(mem, [event : Events, epc : Halves])'
         /\ IsOpt(wb, [event : Events, epc : Halves])'
         /\ \/ mem' = mem /\ i.stall # "none"
            \/ mem' = {} /\ ex = {} /\ i.stall = "none"
            \/ /\ i.stall = "none" /\ ex # {}
               /\ \E e \in Events, a \in Halves :
                    /\ mem' = {[event |-> e, epc |-> a]}
                    /\ e # "none" <=> Event(i)
                    /\ e = "trap" => a = golden'.epc
                    /\ e # "trap" => golden'.epc = golden.epc
         /\ wb' = IF i.stall = "mem" THEN {} ELSE mem
<1>. DEFINE T == [event : Events, epc : Halves]
<1>1. /\ i \in Inputs /\ ExMemWb(i) /\ Golden(i, next)
  BY DEF Step
<1>2. IsOpt(mem, T) /\ IsOpt(wb, T)
  BY DEF IInv, Shapes
<1>3. wb' = IF i.stall = "mem" THEN {} ELSE mem
  BY <1>1 DEF ExMemWb
<1>4. IsOpt(wb, T)'
  BY <1>2, <1>3 DEF IsOpt
<1>5. CASE i.stall # "none"
  <2>1. mem' = mem
    BY <1>1, <1>5 DEF ExMemWb
  <2>. QED  BY <1>2, <1>3, <1>4, <1>5, <2>1 DEF IsOpt
<1>6. CASE i.stall = "none" /\ ex = {}
  <2>1. mem' = {}
    BY <1>1, <1>6 DEF ExMemWb
  <2>. QED  BY <1>3, <1>4, <1>6, <2>1 DEF IsOpt
<1>7. CASE i.stall = "none" /\ ex # {}
  <2>1. PICK p : ex = {p} /\ Only(ex) = p /\ p.pc = golden.pc /\ golden.pc \in Halves
    BY <1>7, Current
  <2>. DEFINE e == EventOf(p, i)
              a == IF e = "trap" THEN p.pc ELSE 0
  <2>2. mem' = {[event |-> e, epc |-> a]}
    BY <1>1, <1>7, <2>1 DEF ExMemWb
  <2>3. e \in Events
    BY DEF EventOf, Events
  <2>4. a \in Halves
    BY <2>1, Size DEF Halves
  <2>5. Event(i) <=> e # "none"
    BY <1>7, <2>1 DEF Event, Accepted
  <2>6. /\ e = "trap" => golden'.epc = golden.pc
        /\ e # "trap" => golden'.epc = golden.epc
    <3>1. Accepted(i) = {p} /\ Only(Accepted(i)) = p /\ Accepted(i) # {}
      BY <1>7, <2>1 DEF Accepted
    <3>2. ~i.resume
      BY <1>1, <2>1, InputFacts DEF Drained
    <3>3. golden' = CASE e = "trap" -> [pc |-> Mtvec, epc |-> golden.pc]
                      [] e = "mret" -> [golden EXCEPT !.pc = golden.epc]
                      [] OTHER -> [golden EXCEPT !.pc = next]
      BY <1>1, <3>1, <3>2 DEF Golden
    <3>4. golden \in [pc : Halves, epc : Halves]
      BY DEF IInv, Shapes
    <3>. HIDE DEF e
    <3>5. e = "trap" => golden'.epc = golden.pc
      BY <3>3
    <3>6. e # "trap" => golden'.epc = golden.epc
      BY <3>3, <3>4
    <3>. QED  BY <3>5, <3>6
  <2>. HIDE DEF e
  <2>7. IsOpt(mem, T)'
    BY <2>2, <2>3, <2>4 DEF IsOpt
  <2>8. e = "trap" => a = golden'.epc
    BY <2>1, <2>6
  <2>. QED  BY <1>3, <1>4, <1>7, <2>2, <2>3, <2>4, <2>5, <2>6, <2>7, <2>8
<1>. QED  BY <1>5, <1>6, <1>7

\* Fetch stays serialised behind an event until it commits.
LEMMA Serialises ==
  ASSUME IInv, ~BootWrites, NEW i, NEW guess, NEW next, Step(i, guess, next)
  PROVE  Serialised'
<1>. DEFINE in == FetchInputs(i, guess, next)
<1>1. /\ i \in Inputs /\ IfClock(in) /\ IdEx(i, guess, BackRedirect(next, i)) /\ Mode(i)
  BY DEF Step
<1>2. /\ IsOpt(mem, [event : Events, epc : Halves])
      /\ IsOpt(wb, [event : Events, epc : Halves])
      /\ mode.serial => ex = {} /\ target # {}
      /\ Eventful(mem) => mode.serial
      /\ Eventful(wb) => mode.serial /\ mem = {}
  BY DEF IInv, Shapes, Serialised
<1>3. (\E e \in Events \ {"none"} : Commits(e)) <=> Eventful(wb)
  BY <1>2 DEF Commits, Eventful, IsOpt
<1>4. mode'.serial <=> ~Eventful(wb) /\ (mode.serial \/ Event(i))
  BY <1>1, <1>3 DEF Mode
<1>5. Plain(mem) => ~Eventful(mem)
  BY <1>2 DEF Plain, Eventful, IsOpt
<1>6. /\ wb' = IF i.stall = "mem" THEN {} ELSE mem
      /\ \/ mem' = mem /\ i.stall # "none"
         \/ mem' = {} /\ ex = {} /\ i.stall = "none"
         \/ i.stall = "none" /\ ex # {} /\ (Eventful(mem)' => Event(i))
  <2>1. ASSUME NEW e, NEW a, mem' = {[event |-> e, epc |-> a]}, e # "none" <=> Event(i)
        PROVE  Eventful(mem)' => Event(i)
    BY <2>1 DEF Eventful
  <2>. QED  BY <2>1, Behind
<1>7. ASSUME ~in.run, target # {} \/ BackRedirect(next, i) # {}
      PROVE  target' # {}
  <2>1. ~IssueRedirect(in)
    BY <1>7 DEF IssueRedirect, CanIssue
  <2>2. target' = IF in.redirect # {} THEN in.redirect ELSE target
    BY <1>1, <2>1 DEF IfClock, Request
  <2>3. BackRedirect(next, i) # {} => in.redirect # {}
    BY <1>1, Advances
  <2>. QED  BY <1>7, <2>2, <2>3
<1>8. CASE mode.serial
  <2>1. ex = {} /\ target # {} /\ ~in.run /\ ~Event(i)
    BY <1>1, <1>2, <1>8, Advances DEF Running, Event, Accepted
  <2>2. ifid = {}
    BY <2>1 DEF IInv, Delivers, Redirecting, Streaming
  <2>3. ex' = {}
    BY <1>1, <2>1, <2>2 DEF IdEx
  <2>4. target' # {}
    BY <1>7, <2>1
  <2>5. i.stall # "ex" /\ (i.stall = "mem" => ~Eventful(mem))
    BY <1>1, <1>5, <2>1, InputFacts
  <2>6. ~Eventful(mem)'
    <3>1. mem' = {} => ~Eventful(mem)'
      BY DEF Eventful
    <3>2. mem' = mem => (Eventful(mem)' <=> Eventful(mem))
      BY DEF Eventful
    <3>. QED  BY <1>1, <1>6, <2>1, <2>5, <3>1, <3>2, InputFacts
  <2>7. Eventful(wb)' => Eventful(mem) /\ mem' = {}
    <3>1. wb' = {} => ~Eventful(wb)'
      BY DEF Eventful
    <3>2. wb' = mem => (Eventful(wb)' <=> Eventful(mem))
      BY DEF Eventful
    <3>. QED  BY <1>1, <1>6, <2>1, <2>5, <3>1, <3>2, InputFacts
  <2>8. Eventful(mem) => ~Eventful(wb)
    BY <1>2 DEF Eventful
  <2>. QED  BY <1>4, <1>8, <2>3, <2>4, <2>6, <2>7, <2>8 DEF Serialised
<1>9. CASE ~mode.serial
  <2>1. ~Eventful(mem) /\ ~Eventful(wb)
    BY <1>2, <1>9
  <2>2. mode'.serial <=> Event(i)
    BY <1>4, <1>9, <2>1
  <2>3. ~Eventful(wb)'
    BY <1>6, <2>1 DEF Eventful
  <2>4. Eventful(mem)' => Event(i)
    BY <1>6, <2>1 DEF Eventful
  <2>5. ASSUME Event(i)  PROVE ex' = {} /\ target' # {}
    <3>1. BackRedirect(next, i) # {} /\ ~in.run
      BY <1>1, <2>5, Redirects, Advances
    <3>. QED  BY <1>1, <1>7, <3>1 DEF IdEx
  <2>. QED  BY <2>2, <2>3, <2>4, <2>5 DEF Serialised
<1>. QED  BY <1>8, <1>9
\* A trap commits the address that MRET shall return to.
LEMMA ReturnsToTrap ==
  ASSUME IInv, NEW i, NEW guess, NEW next, Step(i, guess, next)
  PROVE  Returns'
<1>1. i \in Inputs /\ Csr(i)
  BY DEF Step
<1>2. /\ IsOpt(mem, [event : Events, epc : Halves])
      /\ IsOpt(wb, [event : Events, epc : Halves])
      /\ Eventful(mem) => mode.serial
      /\ Eventful(wb) => mode.serial /\ mem = {}
      /\ mode.serial => ex = {}
      /\ csr \in [mepc : Halves, mie : BOOLEAN, mpie : BOOLEAN, dpc : Halves]
  BY DEF IInv, Shapes, Serialised
<1>3. wb' = IF i.stall = "mem" THEN {} ELSE mem
  BY Behind
<1>4. wb # {} => ~Enters(i) /\ i.dpc = {} /\ ~i.resume
  BY <1>1, InputFacts DEF Drained, Enters, Empty
<1>5. ~Commits("trap") => csr'.mepc = csr.mepc
  <2>. DEFINE Keeps(c) == c.mepc = csr.mepc
  <2>1. /\ Keeps([csr EXCEPT !.dpc = pc]) /\ Keeps([csr EXCEPT !.dpc = Only(i.dpc)])
        /\ Keeps([csr EXCEPT !.dpc = 0]) /\ Keeps([csr EXCEPT !.mie = TRUE])
        /\ Keeps([csr EXCEPT !.mie = csr.mpie, !.mpie = TRUE])
    BY <1>2
  <2>. QED  BY <1>1, <2>1 DEF Csr
<1>6. CASE \E p \in wb : p.event = "trap"
  <2>1. PICK p : wb = {p} /\ p.event = "trap" /\ p.epc \in Halves
    BY <1>2, <1>6 DEF IsOpt
  <2>2. mem = {} /\ ex = {}
    BY <1>2, <2>1 DEF Eventful
  <2>3. p.epc = golden.epc
    BY <2>1, <2>2 DEF IInv, Returns
  <2>4. Commits("trap") /\ Only(wb) = p
    BY <2>1, OnlyOne DEF Commits
  <2>5. csr' = [csr EXCEPT !.mepc = p.epc, !.mpie = csr.mie, !.mie = FALSE]
    BY <1>1, <1>4, <2>1, <2>4 DEF Csr
  <2>6. csr'.mepc = golden.epc
    BY <1>2, <2>3, <2>5
  <2>7. golden'.epc = golden.epc /\ mem' = {} /\ wb' = {}
    <3>1. ~(ex # {})
      BY <2>2
    <3>2. golden'.epc = golden.epc
      <4>1. Accepted(i) = {} /\ ~i.resume
        BY <1>4, <2>1, <2>2 DEF Accepted
      <4>. QED  BY <4>1 DEF Step, Golden
    <3>. QED  BY <1>3, <2>2, <3>1, <3>2, Behind
  <2>. QED  BY <2>6, <2>7 DEF Returns
<1>7. CASE ~\E p \in wb : p.event = "trap"
  <2>1. csr'.mepc = csr.mepc
    BY <1>5, <1>7 DEF Commits
  <2>2. golden'.epc = golden.epc \/ (i.stall = "none" /\ ex # {})
    <3>1. CASE ~(i.stall = "none" /\ ex # {})
      <4>1. Accepted(i) = {}
        BY <3>1 DEF Accepted
      <4>2. golden' = IF i.resume THEN [golden EXCEPT !.pc = csr.dpc] ELSE golden
        BY <4>1 DEF Step, Golden
      <4>3. golden \in [pc : Halves, epc : Halves]
        BY DEF IInv, Shapes
      <4>. QED  BY <4>2, <4>3
    <3>. QED  BY <3>1
  <2>3. CASE \E p \in mem : p.event = "trap"
    <3>1. PICK p : mem = {p} /\ p.event = "trap"
      BY <1>2, <2>3 DEF IsOpt
    <3>2. ex = {} /\ ~Plain(mem)
      BY <1>2, <3>1 DEF Eventful, Plain
    <3>3. i.stall = "none"
      BY <1>1, <3>2, InputFacts
    <3>4. p.epc = golden.epc
      BY <1>7, <3>1 DEF IInv, Returns
    <3>5. wb' = {p} /\ golden'.epc = golden.epc
      BY <1>3, <2>2, <3>1, <3>2, <3>3
    <3>. QED  BY <3>1, <3>4, <3>5 DEF Returns
  <2>4. CASE ~\E p \in mem : p.event = "trap"
    <3>1. csr.mepc = golden.epc
      BY <1>7, <2>4 DEF IInv, Returns
    <3>2. \A p \in wb' : p.event # "trap"
      BY <1>3, <2>4
    <3>3. CASE ~(i.stall = "none" /\ ex # {})
      <4>1. mem' = mem \/ mem' = {}
        BY <3>3, Behind
      <4>. QED  BY <2>1, <2>2, <2>4, <3>1, <3>2, <3>3, <4>1 DEF Returns
    <3>4. CASE i.stall = "none" /\ ex # {}
      <4>1. PICK e \in Events, a \in Halves :
              /\ mem' = {[event |-> e, epc |-> a]}
              /\ e = "trap" => a = golden'.epc
              /\ e # "trap" => golden'.epc = golden.epc
        BY <3>4, Behind
      <4>. DEFINE r == [event |-> e, epc |-> a]
      <4>2. mem' = {r} /\ r.event = e /\ r.epc = a
        BY <4>1
      <4>. HIDE DEF r
      <4>3. CASE e = "trap"
        BY <4>1, <4>2, <4>3 DEF Returns
      <4>4. CASE e # "trap"
        BY <2>1, <3>1, <3>2, <4>1, <4>2, <4>4 DEF Returns
      <4>. QED  BY <4>3, <4>4
    <3>. QED  BY <3>3, <3>4
  <2>. QED  BY <2>3, <2>4
<1>. QED  BY <1>6, <1>7

LEMMA Registers ==
  ASSUME IInv, NEW i, NEW guess, NEW next, Step(i, guess, next)
  PROVE  Shapes'
<1>1. i \in Inputs /\ Csr(i) /\ Mode(i)
  BY DEF Step
<1>2. /\ IsOpt(wb, [event : Events, epc : Halves]) /\ pc \in Halves
      /\ csr \in [mepc : Halves, mie : BOOLEAN, mpie : BOOLEAN, dpc : Halves]
      /\ mode \in [fetch : BOOLEAN, halting : BOOLEAN, halted : BOOLEAN,
                   asleep : BOOLEAN, serial : BOOLEAN]
  BY DEF IInv, Shapes, Answered
<1>3. csr' \in [mepc : Halves, mie : BOOLEAN, mpie : BOOLEAN, dpc : Halves]
  <2>. DEFINE C == [mepc : Halves, mie : BOOLEAN, mpie : BOOLEAN, dpc : Halves]
  <2>1. i.dpc # {} => Only(i.dpc) \in Halves
    <3>1. i.dpc # {} => \E a \in DebuggerPcs : i.dpc = {a}
      BY <1>1, InputFacts DEF Opt
    <3>. QED  BY <3>1, OnlyOne, VectorAssumption
  <2>2. Commits("trap") => Only(wb).epc \in Halves
    <3>1. Commits("trap") => \E p : wb = {p} /\ p.epc \in Halves
      BY <1>2 DEF Commits, IsOpt
    <3>. QED  BY <3>1, OnlyOne
  <2>a. 0 \in Halves
    BY Size DEF Halves
  <2>b. [csr EXCEPT !.dpc = pc] \in C
    BY <1>2
  <2>c. [csr EXCEPT !.mie = TRUE] \in C
    BY <1>2
  <2>d. [csr EXCEPT !.mie = csr.mpie, !.mpie = TRUE] \in C
    BY <1>2
  <2>3. /\ [csr EXCEPT !.dpc = pc] \in C /\ [csr EXCEPT !.mie = TRUE] \in C
        /\ [csr EXCEPT !.mie = csr.mpie, !.mpie = TRUE] \in C
        /\ 0 \in Halves
    BY <2>a, <2>b, <2>c, <2>d
  <2>4. [csr EXCEPT !.dpc = 0] \in C
    BY <1>2, <2>3
  <2>5. i.dpc # {} => [csr EXCEPT !.dpc = Only(i.dpc)] \in C
    BY <1>2, <2>1
  <2>6. Commits("trap") => [csr EXCEPT !.mepc = Only(wb).epc, !.mpie = csr.mie, !.mie = FALSE] \in C
    BY <1>2, <2>2
  <2>. QED  BY <1>1, <1>2, <2>3, <2>4, <2>5, <2>6 DEF Csr
<1>4. mode' \in [fetch : BOOLEAN, halting : BOOLEAN, halted : BOOLEAN,
                 asleep : BOOLEAN, serial : BOOLEAN]
  <2>. DEFINE f == mode.fetch \/ i.release
              g == ~Enters(i) /\ ~i.resume /\ (mode.halting \/ i.halt)
              h == Enters(i) \/ (mode.halted /\ ~i.resume)
              a == ~Wakes(i) /\ (mode.asleep \/ Commits("wfi"))
              s == ~(\E e \in Events \ {"none"} : Commits(e)) /\ (mode.serial \/ Event(i))
  <2>1. mode' = [fetch |-> f, halting |-> g, halted |-> h, asleep |-> a, serial |-> s]
    BY <1>1 DEF Mode
  <2>2. f \in BOOLEAN /\ g \in BOOLEAN /\ h \in BOOLEAN /\ a \in BOOLEAN /\ s \in BOOLEAN
    BY <1>1, <1>2, InputFacts
  <2>. HIDE DEF f, g, h, a, s
  <2>. QED  BY <2>1, <2>2
<1>5. golden' \in [pc : Halves, epc : Halves]
  BY Redirects
<1>. QED  BY <1>3, <1>4, <1>5, Behind DEF Shapes
-----------------------------------------------------------------------------
(* The theorems.                                                           *)

LEMMA InitIInv == FeInit => IInv
<1>. SUFFICES ASSUME FeInit  PROVE IInv
  OBVIOUS
<1>1. BootAddr \in Halves /\ 0 \in Halves
  BY ProgramAssumption, Size DEF Halves
<1>2. /\ pc = BootAddr /\ resp = {} /\ imem = {} /\ target = {} /\ drop = FALSE
      /\ hold = {} /\ upper = {} /\ ifid = {} /\ ex = {} /\ mem = {} /\ wb = {}
      /\ csr = [mepc |-> 0, mie |-> FALSE, mpie |-> FALSE, dpc |-> 0]
      /\ mode = [fetch |-> FALSE, halting |-> FALSE, halted |-> FALSE,
                 asleep |-> FALSE, serial |-> FALSE]
      /\ golden = [pc |-> BootAddr, epc |-> 0]
  BY DEF FeInit, IfInit
<1>3. Shapes
  BY <1>1, <1>2 DEF Shapes, IsOpt
<1>4. Answered /\ InEx
  BY <1>1, <1>2 DEF Answered, InEx
<1>5. Delivers(Expected)
  BY <1>2 DEF Delivers, Streaming, At, After, Front, Continues, Expected
<1>6. Serialised /\ Returns
  BY <1>2 DEF Serialised, Eventful, Returns
<1>. QED  BY <1>3, <1>4, <1>5, <1>6 DEF IInv

LEMMA NextIInv ==
  ASSUME ~BootWrites
  PROVE  IInv /\ [FeNext]_feVars => IInv'
<1>1. ASSUME IInv, FeNext  PROVE IInv'
  <2>1. PICK i, guess, next : Step(i, guess, next)
    BY <1>1 DEF FeNext, Clock, Step
  <2>2. Answered' /\ InEx' /\ Delivers(Expected)'
    BY <1>1, <2>1, Fetches
  <2>3. Shapes' /\ Serialised' /\ Returns'
    BY <1>1, <2>1, Registers, Serialises, ReturnsToTrap
  <2>. QED  BY <2>2, <2>3 DEF IInv
<1>2. ASSUME IInv, UNCHANGED feVars  PROVE IInv'
  <2>1. /\ UNCHANGED <<pc, resp, imem, target, drop, hold, upper, ifid>>
        /\ UNCHANGED <<ex, mem, wb, csr, mode, golden>>
    BY <1>2 DEF feVars, ifVars, coreVars
  <2>2. Shapes' /\ Answered' /\ InEx'
    BY <1>2, <2>1 DEF IInv, Shapes, IsOpt, Answered, InEx
  <2>3. Delivers(Expected)'
    BY <1>2, <2>1 DEF IInv, Delivers, Redirecting, Streaming, At, After, Front, Continues,
                      Expected
  <2>4. Serialised' /\ Returns'
    BY <1>2, <2>1 DEF IInv, Serialised, Eventful, Returns
  <2>. QED  BY <2>2, <2>3, <2>4 DEF IInv
<1>. QED  BY <1>1, <1>2

LEMMA Invariance ==
  ASSUME ~BootWrites
  PROVE  FeSpec => []IInv
BY InitIInv, NextIInv, PTL DEF FeSpec

\* EX gets the instructions of the program in order, each once and cut from the
\* right halfwords, for every program of 16- and 32-bit instructions and every
\* behaviour of the predictor, the memory, interrupts and the debugger, as long as
\* the boot port does not write while the core runs.
THEOREM InOrder ==
  ASSUME ~BootWrites
  PROVE  FeSpec => []ExecutedInOrder
<1>1. IInv => ExecutedInOrder
  BY DEF IInv, InEx, ExecutedInOrder
<1>. QED  BY <1>1, Invariance, PTL

\* Every register of the instruction side keeps its range: nothing is torn out of a
\* halfword that the program does not have.
THEOREM TypeCorrect ==
  ASSUME ~BootWrites
  PROVE  FeSpec => []FeTypeOK
<1>1. ASSUME IInv  PROVE FeTypeOK
  <2>1. ASSUME NEW h \in Halves
        PROVE  /\ CodeAt(h) \in Codes /\ Packet(h, CodeAt(h)) \in Opt(Packets)
               /\ Fall(h) \in Halves
    <3>1. CodeAt(h) \in Codes
      <4>1. CASE h \in Compressed
        BY <4>1, Instructions DEF Codes
      <4>2. CASE h \notin Compressed
        BY <4>2, Instructions, PlusInside DEF Codes
      <4>. QED  BY <4>1, <4>2
    <3>. QED  BY <3>1, Instructions DEF Packet, Packets, Opt
  <2>2. golden.pc \in Halves /\ golden.epc \in Halves
    BY <1>1 DEF IInv, Shapes
  <2>3. /\ IsOpt(ex, [pc : Halves, code : Codes, guess : Opt(Halves)])
        /\ Expected \in Halves
    <3>1. CASE ex = {}
      BY <2>2, <3>1 DEF IsOpt, Expected
    <3>2. CASE ex # {}
      <4>1. PICK g \in Opt(Halves) :
              ex = {[pc |-> golden.pc, code |-> CodeAt(golden.pc), guess |-> g]}
        BY <1>1, <3>2 DEF IInv, InEx
      <4>. QED  BY <1>1, <2>1, <2>2, <3>2, <4>1, Current DEF IsOpt
    <3>. QED  BY <3>1, <3>2
  <2>4. PICK e \in Halves : e = Expected
    BY <2>3
  <2>5. /\ At(ifid, e) /\ At(hold, After(ifid, e)) /\ After(ifid, e) \in Halves
        /\ Front(e) \in Halves
        /\ IsOpt(target, Halves)
        /\ IsOpt(resp, Halves) /\ IsOpt(upper, [pc : Halves, half : Halves])
    <3>0. Delivers(e)
      BY <1>1, <2>4 DEF IInv
    <3>1. CASE Redirecting(e)
      BY <3>1 DEF Redirecting, At, After, Front, IsOpt
    <3>2. CASE Streaming(e)
      <4>1. After(ifid, e) \in Halves
        BY <2>1 DEF After
      <4>2. Front(e) \in Halves
        BY <2>1, <4>1 DEF After, Front
      <4>. QED  BY <3>2, <4>1, <4>2 DEF Streaming, Continues, Left, IsOpt
    <3>. QED  BY <3>0, <3>1, <3>2 DEF Delivers
  <2>6. IsOpt(ifid, Packets) /\ IsOpt(hold, Packets)
    <3>1. \A S : S \in Opt(Packets) => IsOpt(S, Packets)
      BY DEF Opt, IsOpt
    <3>2. {} \in Opt(Packets)
      BY DEF Opt
    <3>. QED  BY <2>1, <2>5, <3>1, <3>2 DEF At
  <2>7. IsOpt(imem, {WordOf(h) : h \in Halves})
    BY <1>1, <2>5 DEF IInv, Answered, IsOpt
  <2>. QED  BY <1>1, <2>3, <2>5, <2>6, <2>7 DEF FeTypeOK, IfTypeOK, IInv, Shapes, Answered
<1>. QED  BY <1>1, Invariance, PTL

=============================================================================
