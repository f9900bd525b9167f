--------------------------- MODULE Control_proofs ---------------------------
(***************************************************************************)
(* What the debug link, the user-mode profile and the helpers of the       *)
(* bare-metal images promise, for all values of their constants.           *)
(*                                                                         *)
(* The link: a host that waits long enough is told the answer to its own   *)
(* last request, which was performed once, for every script and whatever   *)
(* is reset under a request.                                               *)
(*                                                                         *)
(* The profile keeps its tasks apart, for every delay and every order in   *)
(* which ticks preempt system calls and the kernel selects among ready     *)
(* tasks: each task goes on from its own frame, in the code where it was,  *)
(* behind its own PMP region.                                              *)
(*                                                                         *)
(* The helpers read and set registers of two words in halves, while the    *)
(* clock carries from one to the other.                                    *)
(*                                                                         *)
(* Clocks and resets: a domain keeps its clock until it has left its       *)
(* reset, and a locked watchdog that runs goes on counting, under any      *)
(* sequence of helpers that programs call.  A warning of the watchdog that *)
(* leaves the handler its time keeps the system from being reset by it.    *)
(*                                                                         *)
(* The boot: a core that may fetch finds every word of the file in its     *)
(* place, for every file and every host that loads it, whatever is reset   *)
(* on the way.                                                             *)
(*                                                                         *)
(* The transform of the arithmetic examples: what it leaves in its arrays  *)
(* is the discrete Fourier transform of what was put there, for every      *)
(* length that is a power of two.                                          *)
(***************************************************************************)
EXTENDS SystemControl, JtagDebug, FreertosUmode, BareMetal, Fft, SequenceTheorems,
        WellFoundedInduction, TLAPS

-----------------------------------------------------------------------------
(* The debug link: the inductive invariant.                                *)

\* What the registers on both sides of the crossing are made of.
DtmType(req, answer) ==
  [toggle : BOOLEAN, req : {req}, meta : BOOLEAN, sync : BOOLEAN, seen : BOOLEAN,
   answer : {answer}]
CdcType(req, answer) ==
  [state : {"idle", "issue", "respond"}, meta : BOOLEAN, sync : BOOLEAN,
   seen : BOOLEAN, valid : BOOLEAN, req : {req}, toggle : BOOLEAN, answer : {answer}]
HostType(told) ==
  [script : DOMAIN Scripts, access : Nat \ {0},
   phase : {"ready", "clk", "tck", "told", "settle"}, wait : Nat, told : {told}]
LedgerType(req, answer) ==
  [asked : {req}, times : {0, 1}, answer : {answer}, alien : BOOLEAN]

LinkTypes ==
  /\ dtm \in DtmType(dtm.req, dtm.answer)
  /\ cdc \in CdcType(cdc.req, cdc.answer) /\ (cdc.valid <=> cdc.state = "respond")
  /\ host \in HostType(host.told)
  /\ ledger \in LedgerType(ledger.asked, ledger.answer)
  /\ bootMode \in BootModes

\* The crossing has nothing to do.
Quiescent ==
  /\ cdc.state = "idle" /\ cdc.meta = dtm.toggle
  /\ cdc.sync = dtm.toggle /\ cdc.seen = dtm.toggle

\* A request under way has not been performed yet.
Fresh(r) == r = ledger.asked /\ r.op # "nop" /\ ledger.times = 0
Honest ==
  /\ ~ledger.alien
  /\ cdc.state # "idle" /\ cdc.req.op # "nop" => Fresh(cdc.req)

\* The last request, and how many edges of the clock it still needs: before the
\* crossing takes it, in the crossing, and performed.
Travels ==
  /\ cdc.state = "idle" /\ cdc.seen # dtm.toggle /\ Fresh(dtm.req)
  /\ dtm.meta = cdc.toggle
  /\ \/ cdc.meta # dtm.toggle /\ cdc.sync # dtm.toggle /\ host.wait >= 5
     \/ cdc.meta = dtm.toggle /\ cdc.sync # dtm.toggle /\ host.wait >= 4
     \/ cdc.meta = dtm.toggle /\ cdc.sync = dtm.toggle /\ host.wait >= 3
Crosses ==
  /\ cdc.seen = dtm.toggle /\ cdc.meta = dtm.toggle /\ cdc.sync = dtm.toggle
  /\ Fresh(cdc.req) /\ dtm.meta = cdc.toggle
  /\ \/ cdc.state = "issue" /\ host.wait >= 2
     \/ cdc.state = "respond" /\ host.wait >= 1
Performed == Quiescent /\ ledger.times = 1 /\ cdc.answer = ledger.answer

\* The answer has been taken, or a change of the toggle that announces it is on its
\* way through the synchronizer.
Announced ==
  \/ dtm.answer = cdc.answer
  \/ dtm.meta # cdc.toggle \/ dtm.sync # dtm.meta \/ dtm.seen # dtm.sync

\* After a reset of the TAP: the edges of the clock until the crossing has
\* caught up with the cleared toggle.
Unrest ==
  CASE cdc.state = "issue" -> IF cdc.seen THEN 5 ELSE 2
    [] cdc.state = "respond" -> IF cdc.meta THEN IF cdc.seen THEN 5 ELSE 7
                                ELSE IF cdc.seen THEN 4 ELSE 1
    [] cdc.state = "idle" /\ cdc.sync # cdc.seen -> IF cdc.seen THEN 3 ELSE 6
    [] cdc.state = "idle" /\ cdc.sync = cdc.seen ->
         IF cdc.meta = cdc.sync THEN IF cdc.seen THEN 5 ELSE 0
         ELSE IF cdc.seen THEN 4 ELSE 7

Phases ==
  /\ host.phase = "ready" => Quiescent
  /\ host.phase = "clk" => Travels \/ Crosses \/ (Performed /\ Announced)
  /\ host.phase = "tck" =>
       /\ Performed /\ Announced /\ dtm.meta = cdc.toggle
       /\ host.wait < TckWait => dtm.sync = cdc.toggle
       /\ host.wait + 1 < TckWait => dtm.seen = cdc.toggle
  /\ host.phase = "told" =>
       Quiescent /\ ledger.times = 1 /\ host.told = ledger.answer
  /\ host.phase = "settle" =>
       dtm.toggle = FALSE /\ dtm.req.op = "nop" /\ Unrest <= host.wait

LinkInv == LinkTypes /\ Honest /\ Phases
-----------------------------------------------------------------------------
(* An edge of the clock.                                                   *)

LEMMA CdcStep ==
  ASSUME LinkTypes, CdcClock
  PROVE  /\ (cdc \in CdcType(cdc.req, cdc.answer))'
         /\ (cdc.valid <=> cdc.state = "respond")'
         /\ cdc'.meta = dtm.toggle /\ cdc'.sync = cdc.meta
         /\ cdc.state = "idle" /\ cdc.sync # cdc.seen =>
              /\ cdc'.state = "issue" /\ cdc'.seen = cdc.sync /\ cdc'.req = dtm.req
              /\ cdc'.valid = FALSE /\ cdc'.toggle = cdc.toggle /\ cdc'.answer = cdc.answer
         /\ cdc.state = "idle" /\ cdc.sync = cdc.seen =>
              /\ cdc'.state = "idle" /\ cdc'.seen = cdc.seen /\ cdc'.req = cdc.req
              /\ cdc'.valid = FALSE /\ cdc'.toggle = cdc.toggle /\ cdc'.answer = cdc.answer
         /\ cdc.state = "issue" =>
              /\ cdc'.state = "respond" /\ cdc'.seen = cdc.seen /\ cdc'.req = cdc.req
              /\ cdc'.valid = TRUE /\ cdc'.toggle = cdc.toggle /\ cdc'.answer = cdc.answer
         /\ cdc.state = "respond" =>
              /\ cdc'.state = "idle" /\ cdc'.seen = cdc.seen /\ cdc'.req = cdc.req
              /\ cdc'.valid = FALSE /\ cdc'.toggle = ~cdc.toggle /\ cdc'.answer = Told
<1>. DEFINE S == [cdc EXCEPT !.meta = dtm.toggle, !.sync = cdc.meta, !.valid = FALSE]
            T == CdcType(cdc.req, cdc.answer)
<1>0. cdc \in T /\ (cdc.valid <=> cdc.state = "respond") /\ dtm.toggle \in BOOLEAN
  BY DEF LinkTypes, DtmType
<1>1. /\ S \in T /\ S.meta = dtm.toggle /\ S.sync = cdc.meta /\ S.valid = FALSE
      /\ S.state = cdc.state /\ S.seen = cdc.seen /\ S.req = cdc.req
      /\ S.toggle = cdc.toggle /\ S.answer = cdc.answer
  BY <1>0 DEF CdcType
<1>2. cdc' = CASE cdc.state = "idle" /\ cdc.sync # cdc.seen ->
                   [S EXCEPT !.seen = cdc.sync, !.req = dtm.req, !.state = "issue"]
              [] cdc.state = "issue" -> [S EXCEPT !.valid = TRUE, !.state = "respond"]
              [] cdc.state = "respond" /\ cdc.valid ->
                   [S EXCEPT !.answer = Told, !.toggle = ~@, !.state = "idle"]
              [] OTHER -> S
  BY DEF CdcClock, Responds
<1>. HIDE DEF S
<1>3. CASE cdc.state = "idle" /\ cdc.sync # cdc.seen
  <2>1. cdc' = [S EXCEPT !.seen = cdc.sync, !.req = dtm.req, !.state = "issue"]
    BY <1>2, <1>3
  <2>2. cdc' \in CdcType(dtm.req, cdc.answer)
    BY <1>0, <1>1, <2>1 DEF CdcType
  <2>. QED  BY <1>0, <1>1, <1>3, <2>1, <2>2 DEF CdcType
<1>4. CASE cdc.state = "idle" /\ cdc.sync = cdc.seen
  <2>1. cdc' = S
    BY <1>2, <1>4
  <2>. QED  BY <1>1, <1>4, <2>1
<1>5. CASE cdc.state = "issue"
  <2>1. cdc' = [S EXCEPT !.valid = TRUE, !.state = "respond"]
    BY <1>2, <1>5
  <2>. QED  BY <1>0, <1>1, <1>5, <2>1 DEF CdcType
<1>6. CASE cdc.state = "respond"
  <2>1. cdc' = [S EXCEPT !.answer = Told, !.toggle = ~S.toggle, !.state = "idle"]
    BY <1>0, <1>2, <1>6
  <2>2. cdc' \in CdcType(cdc.req, Told)
    BY <1>0, <1>1, <2>1 DEF CdcType
  <2>. QED  BY <1>0, <1>1, <1>6, <2>1, <2>2 DEF CdcType
<1>. QED  BY <1>0, <1>3, <1>4, <1>5, <1>6 DEF CdcType
LEMMA NotedStep ==
  ASSUME LinkTypes, Honest, ledger' = Noted
  PROVE  /\ (ledger \in LedgerType(ledger.asked, ledger.answer))'
         /\ ledger'.asked = ledger.asked /\ ~ledger'.alien
         /\ (cdc.state # "respond" \/ cdc.req.op = "nop") => ledger' = ledger
         /\ (cdc.state = "respond" /\ cdc.req.op # "nop") =>
              ledger'.times = 1 /\ ledger'.answer = Told
<1>. DEFINE A == Visible # ledger.asked \/ ledger.times > 0
<1>1. ledger \in LedgerType(ledger.asked, ledger.answer) /\ ~ledger.alien
      /\ (cdc.valid <=> cdc.state = "respond") /\ cdc.valid \in BOOLEAN
  BY DEF LinkTypes, Honest, CdcType
<1>2. CASE cdc.state # "respond" \/ cdc.req.op = "nop"
  <2>1. Visible.op = "nop"
    BY <1>1, <1>2 DEF Visible, Nop, Request
  <2>2. ledger' = ledger
    BY <2>1 DEF Noted
  <2>. QED  BY <1>1, <1>2, <2>2
<1>3. CASE cdc.state = "respond" /\ cdc.req.op # "nop"
  <2>1. Visible = cdc.req
    BY <1>1, <1>3 DEF Visible
  <2>2. ~A
    BY <1>3, <2>1 DEF Honest, Fresh
  <2>3. ledger' = [ledger EXCEPT !.alien = ledger.alien \/ A, !.times = 1, !.answer = Told]
    BY <1>3, <2>1 DEF Noted
  <2>4. ledger' \in LedgerType(ledger.asked, Told)
    BY <1>1, <2>2, <2>3 DEF LedgerType
  <2>. QED  BY <1>1, <1>3, <2>2, <2>3, <2>4 DEF LedgerType
<1>. QED  BY <1>2, <1>3

LEMMA HostWaits ==
  ASSUME LinkTypes,
         host' = IF host.phase \in {"clk", "settle"} /\ host.wait > 0
                   THEN [host EXCEPT !.wait = @ - 1] ELSE host
  PROVE  /\ (host \in HostType(host.told))'
         /\ host'.phase = host.phase /\ host'.told = host.told
         /\ host'.wait = IF host.phase \in {"clk", "settle"} /\ host.wait > 0
                           THEN host.wait - 1 ELSE host.wait
<1>1. host \in HostType(host.told)
  BY DEF LinkTypes
<1>2. CASE host.phase \in {"clk", "settle"} /\ host.wait > 0
  <2>1. host' = [host EXCEPT !.wait = host.wait - 1]
    BY <1>2
  <2>2. host' \in HostType(host.told)
    BY <1>1, <1>2, <2>1 DEF HostType
  <2>. QED  BY <1>1, <1>2, <2>1, <2>2 DEF HostType
<1>3. CASE ~(host.phase \in {"clk", "settle"} /\ host.wait > 0)
  BY <1>1, <1>3
<1>. QED  BY <1>2, <1>3

LEMMA QuietClock ==
  ASSUME LinkTypes, CdcClock, Quiescent, dtm' = dtm
  PROVE  /\ Quiescent' /\ cdc'.req = cdc.req /\ cdc'.toggle = cdc.toggle
         /\ cdc'.answer = cdc.answer
BY CdcStep DEF Quiescent

\* The crossing takes an edge less to come to rest.
LEMMA UnrestClock ==
  ASSUME LinkTypes, CdcClock, dtm.toggle = FALSE, dtm' = dtm
  PROVE  Unrest' \in Nat /\ (Unrest' = 0 \/ Unrest' = Unrest - 1)
<1>1. /\ cdc.state \in {"idle", "issue", "respond"} /\ cdc.meta \in BOOLEAN
      /\ cdc.sync \in BOOLEAN /\ cdc.seen \in BOOLEAN
  BY DEF LinkTypes, CdcType
<1>2. cdc'.meta = FALSE /\ cdc'.sync = cdc.meta
  BY CdcStep
<1>3. CASE cdc.state = "idle" /\ cdc.sync # cdc.seen
  <2>1. cdc'.state = "issue" /\ cdc'.seen = cdc.sync
    BY <1>3, CdcStep
  <2>2. Unrest = IF cdc.seen THEN 3 ELSE 6
    BY <1>3 DEF Unrest
  <2>3. Unrest' = IF cdc.sync THEN 5 ELSE 2
    BY <2>1 DEF Unrest
  <2>. QED  BY <1>1, <1>3, <2>2, <2>3
<1>4. CASE cdc.state = "idle" /\ cdc.sync = cdc.seen
  <2>1. cdc'.state = "idle" /\ cdc'.seen = cdc.seen
    BY <1>4, CdcStep
  <2>2. Unrest = IF cdc.meta = cdc.sync THEN IF cdc.seen THEN 5 ELSE 0
                 ELSE IF cdc.seen THEN 4 ELSE 7
    BY <1>4 DEF Unrest
  <2>3. CASE cdc.meta = cdc.seen
    <3>1. cdc'.sync = cdc'.seen
      BY <1>2, <2>1, <2>3
    <3>2. Unrest' = IF cdc'.meta = cdc'.sync THEN IF cdc'.seen THEN 5 ELSE 0
                    ELSE IF cdc'.seen THEN 4 ELSE 7
      BY <2>1, <3>1 DEF Unrest
    <3>3. CASE cdc.seen = TRUE
      BY <1>1, <1>2, <1>4, <2>1, <2>2, <2>3, <3>2, <3>3
    <3>4. CASE cdc.seen = FALSE
      BY <1>1, <1>2, <1>4, <2>1, <2>2, <2>3, <3>2, <3>4
    <3>. QED  BY <1>1, <3>3, <3>4
  <2>4. CASE cdc.meta # cdc.seen
    <3>1. cdc'.sync # cdc'.seen
      BY <1>2, <2>1, <2>4
    <3>2. Unrest' = IF cdc'.seen THEN 3 ELSE 6
      BY <2>1, <3>1 DEF Unrest
    <3>. QED  BY <1>1, <1>2, <1>4, <2>1, <2>2, <2>4, <3>2
  <2>. QED  BY <2>3, <2>4
<1>5. CASE cdc.state = "issue"
  <2>1. cdc'.state = "respond" /\ cdc'.seen = cdc.seen
    BY <1>5, CdcStep
  <2>2. Unrest = IF cdc.seen THEN 5 ELSE 2
    BY <1>5 DEF Unrest
  <2>3. Unrest' = IF cdc'.meta THEN IF cdc'.seen THEN 5 ELSE 7
                  ELSE IF cdc'.seen THEN 4 ELSE 1
    BY <2>1 DEF Unrest
  <2>. QED  BY <1>1, <1>2, <2>1, <2>2, <2>3
<1>6. CASE cdc.state = "respond"
  <2>1. cdc'.state = "idle" /\ cdc'.seen = cdc.seen
    BY <1>6, CdcStep
  <2>2. Unrest = IF cdc.meta THEN IF cdc.seen THEN 5 ELSE 7
                 ELSE IF cdc.seen THEN 4 ELSE 1
    BY <1>6 DEF Unrest
  <2>3. CASE cdc.meta = cdc.seen
    <3>1. cdc'.sync = cdc'.seen
      BY <1>2, <2>1, <2>3
    <3>2. Unrest' = IF cdc'.meta = cdc'.sync THEN IF cdc'.seen THEN 5 ELSE 0
                    ELSE IF cdc'.seen THEN 4 ELSE 7
      BY <2>1, <3>1 DEF Unrest
    <3>3. CASE cdc.seen = TRUE
      BY <1>1, <1>2, <2>1, <2>2, <2>3, <3>2, <3>3
    <3>4. CASE cdc.seen = FALSE
      BY <1>1, <1>2, <2>1, <2>2, <2>3, <3>2, <3>4
    <3>. QED  BY <1>1, <3>3, <3>4
  <2>4. CASE cdc.meta # cdc.seen
    <3>1. cdc'.sync # cdc'.seen
      BY <1>2, <2>1, <2>4
    <3>2. Unrest' = IF cdc'.seen THEN 3 ELSE 6
      BY <2>1, <3>1 DEF Unrest
    <3>. QED  BY <1>1, <1>2, <2>1, <2>2, <2>4, <3>2
  <2>. QED  BY <2>3, <2>4
<1>. QED  BY <1>1, <1>3, <1>4, <1>5, <1>6
\* A request on its way: the host has asked, and still waits for the clock.
LEMMA RequestClock ==
  ASSUME LinkInv, host.phase = "clk", dtm' = dtm, CdcClock, ledger' = Noted,
         host' = IF host.phase \in {"clk", "settle"} /\ host.wait > 0
                   THEN [host EXCEPT !.wait = @ - 1] ELSE host
  PROVE  (Travels \/ Crosses \/ (Performed /\ Announced))'
<1>1. LinkTypes /\ Honest /\ (Travels \/ Crosses \/ (Performed /\ Announced))
  BY DEF LinkInv, Phases
<1>2. /\ cdc.meta \in BOOLEAN /\ cdc.sync \in BOOLEAN /\ cdc.seen \in BOOLEAN
      /\ cdc.toggle \in BOOLEAN /\ dtm.toggle \in BOOLEAN /\ host.wait \in Nat
      /\ cdc.state \in {"idle", "issue", "respond"}
      /\ dtm.meta \in BOOLEAN /\ dtm.sync \in BOOLEAN /\ dtm.seen \in BOOLEAN
      /\ (cdc.valid <=> cdc.state = "respond")
  BY <1>1 DEF LinkTypes, CdcType, DtmType, HostType
<1>3. host'.wait = IF host.wait > 0 THEN host.wait - 1 ELSE host.wait
  BY <1>1, HostWaits
<1>4. cdc'.meta = dtm.toggle /\ cdc'.sync = cdc.meta
  BY <1>1, CdcStep
<1>5. CASE Travels
  <2>1. ledger' = ledger
    BY <1>1, <1>5, NotedStep DEF Travels
  <2>2. CASE cdc.sync = dtm.toggle
    <3>1. /\ cdc'.state = "issue" /\ cdc'.seen = cdc.sync /\ cdc'.req = dtm.req
          /\ cdc'.toggle = cdc.toggle
      BY <1>1, <1>5, <2>2, CdcStep DEF Travels
    <3>2. Fresh(dtm.req) /\ dtm.meta = cdc.toggle /\ cdc.meta = dtm.toggle /\ host.wait >= 3
      BY <1>2, <1>5, <2>2 DEF Travels
    <3>3. Fresh(cdc.req)'
      BY <2>1, <3>1, <3>2 DEF Fresh
    <3>. QED  BY <1>2, <1>3, <1>4, <2>2, <3>1, <3>2, <3>3 DEF Crosses
  <2>3. CASE cdc.sync # dtm.toggle
    <3>1. cdc.sync = cdc.seen
      BY <1>2, <1>5, <2>3 DEF Travels
    <3>2. /\ cdc'.state = "idle" /\ cdc'.seen = cdc.seen /\ cdc'.toggle = cdc.toggle
      BY <1>1, <1>5, <3>1, CdcStep DEF Travels
    <3>3. /\ Fresh(dtm.req) /\ dtm.meta = cdc.toggle /\ cdc.seen # dtm.toggle
          /\ cdc.meta # dtm.toggle => host.wait >= 5
          /\ host.wait >= 4
      BY <1>2, <1>5, <2>3 DEF Travels
    <3>4. Fresh(dtm.req)'
      BY <2>1, <3>3 DEF Fresh
    <3>5. host'.wait >= 3 /\ (cdc.meta # dtm.toggle => host'.wait >= 4)
      BY <1>2, <1>3, <3>3
    <3>. QED  BY <1>2, <1>4, <3>2, <3>3, <3>4, <3>5 DEF Travels
  <2>. QED  BY <2>2, <2>3
<1>6. CASE Crosses
  <2>1. CASE cdc.state = "issue"
    <3>1. ledger' = ledger
      BY <1>1, <2>1, NotedStep
    <3>2. /\ cdc'.state = "respond" /\ cdc'.seen = cdc.seen /\ cdc'.req = cdc.req
          /\ cdc'.toggle = cdc.toggle
      BY <1>1, <2>1, CdcStep
    <3>3. Fresh(cdc.req)'
      BY <1>6, <3>1, <3>2 DEF Crosses, Fresh
    <3>. QED  BY <1>2, <1>3, <1>4, <1>6, <2>1, <3>2, <3>3 DEF Crosses
  <2>2. CASE cdc.state = "respond"
    <3>1. cdc.req.op # "nop"
      BY <1>6 DEF Crosses, Fresh
    <3>2. ledger'.times = 1 /\ ledger'.answer = Told
      BY <1>1, <2>2, <3>1, NotedStep
    <3>3. /\ cdc'.state = "idle" /\ cdc'.seen = cdc.seen /\ cdc'.toggle = ~cdc.toggle
          /\ cdc'.answer = Told
      BY <1>1, <2>2, CdcStep
    <3>4. Performed'
      BY <1>4, <1>6, <3>2, <3>3 DEF Crosses, Performed, Quiescent
    <3>5. dtm'.meta # cdc'.toggle
      BY <1>2, <1>6, <3>3 DEF Crosses
    <3>. QED  BY <3>4, <3>5 DEF Announced
  <2>. QED  BY <1>6, <2>1, <2>2 DEF Crosses
<1>7. CASE Performed /\ Announced
  <2>1. Quiescent' /\ cdc'.toggle = cdc.toggle /\ cdc'.answer = cdc.answer
    BY <1>1, <1>7, QuietClock DEF Performed
  <2>2. ledger' = ledger
    BY <1>1, <1>7, NotedStep DEF Performed, Quiescent
  <2>. QED  BY <1>7, <2>1, <2>2 DEF Performed, Announced
<1>. QED  BY <1>1, <1>5, <1>6, <1>7

LEMMA ClkEdgeInv ==
  ASSUME LinkInv, NEW drained, NEW b, ClkEdge(drained, b)
  PROVE  LinkInv'
<1>1. LinkTypes /\ Honest /\ Phases
  BY DEF LinkInv
<1>2. dtm' = dtm /\ bootMode' = bootMode /\ CdcClock /\ ledger' = Noted
  BY DEF ClkEdge
<1>3. host' = IF host.phase \in {"clk", "settle"} /\ host.wait > 0
                THEN [host EXCEPT !.wait = @ - 1] ELSE host
  BY DEF ClkEdge
<1>4. /\ (host \in HostType(host.told))'
      /\ host'.phase = host.phase /\ host'.told = host.told
      /\ host'.wait = IF host.phase \in {"clk", "settle"} /\ host.wait > 0
                        THEN host.wait - 1 ELSE host.wait
  BY <1>1, <1>3, HostWaits
<1>5. /\ (ledger \in LedgerType(ledger.asked, ledger.answer))'
      /\ ledger'.asked = ledger.asked /\ ~ledger'.alien
      /\ (cdc.state # "respond" \/ cdc.req.op = "nop") => ledger' = ledger
  BY <1>1, <1>2, NotedStep
<1>6. LinkTypes'
  <2>1. (cdc \in CdcType(cdc.req, cdc.answer) /\ (cdc.valid <=> cdc.state = "respond"))'
    BY <1>1, <1>2, CdcStep
  <2>. QED  BY <1>1, <1>2, <1>4, <1>5, <2>1 DEF LinkTypes
<1>7. Honest'
  <2>1. CASE cdc.state = "idle" /\ cdc.sync # cdc.seen
    <3>1. cdc'.req = dtm.req /\ ledger' = ledger
      BY <1>1, <1>2, <1>5, <2>1, CdcStep
    <3>2. ~Quiescent /\ ~Performed /\ ~Crosses
      BY <2>1 DEF Quiescent, Performed, Crosses
    <3>3. dtm.req.op # "nop" => Fresh(dtm.req)
      BY <1>1, <3>2 DEF Phases, Travels, LinkTypes, HostType
    <3>. QED  BY <1>5, <3>1, <3>3 DEF Honest, Fresh
  <2>2. CASE cdc.state = "idle" /\ cdc.sync = cdc.seen
    BY <1>1, <1>2, <1>5, <2>2, CdcStep DEF Honest
  <2>3. CASE cdc.state = "issue"
    BY <1>1, <1>2, <1>5, <2>3, CdcStep DEF Honest, Fresh
  <2>4. CASE cdc.state = "respond"
    BY <1>1, <1>2, <1>5, <2>4, CdcStep DEF Honest
  <2>. QED  BY <1>1, <2>1, <2>2, <2>3, <2>4 DEF LinkTypes, CdcType
<1>8. ASSUME Quiescent
      PROVE  /\ Quiescent' /\ ledger' = ledger
             /\ cdc'.toggle = cdc.toggle /\ cdc'.answer = cdc.answer
  BY <1>1, <1>2, <1>5, <1>8, QuietClock DEF Quiescent
<1>9. Phases'
  <2>1. (host.phase = "ready" => Quiescent)'
    BY <1>1, <1>4, <1>8 DEF Phases
  <2>2. (host.phase = "clk" => Travels \/ Crosses \/ (Performed /\ Announced))'
    BY <1>2, <1>3, <1>4, RequestClock
  <2>3. (host.phase = "tck" =>
           /\ Performed /\ Announced /\ dtm.meta = cdc.toggle
           /\ host.wait < TckWait => dtm.sync = cdc.toggle
           /\ host.wait + 1 < TckWait => dtm.seen = cdc.toggle)'
    <3>. SUFFICES ASSUME host.phase = "tck"
                  PROVE  (/\ Performed /\ Announced /\ dtm.meta = cdc.toggle
                          /\ host.wait < TckWait => dtm.sync = cdc.toggle
                          /\ host.wait + 1 < TckWait => dtm.seen = cdc.toggle)'
      BY <1>4
    <3>1. host'.wait = host.wait
      BY <1>4
    <3>2. Quiescent
      BY <1>1 DEF Phases, Performed
    <3>3. Quiescent' /\ ledger' = ledger /\ cdc'.toggle = cdc.toggle /\ cdc'.answer = cdc.answer
      BY <1>8, <3>2
    <3>. QED  BY <1>1, <1>2, <3>1, <3>3 DEF Phases, Performed, Announced
  <2>4. (host.phase = "told" => Quiescent /\ ledger.times = 1 /\ host.told = ledger.answer)'
    BY <1>1, <1>4, <1>8 DEF Phases
  <2>5. (host.phase = "settle" =>
           dtm.toggle = FALSE /\ dtm.req.op = "nop" /\ Unrest <= host.wait)'
    <3>. SUFFICES ASSUME host.phase = "settle"
                  PROVE  (dtm.toggle = FALSE /\ dtm.req.op = "nop" /\ Unrest <= host.wait)'
      BY <1>4
    <3>1. dtm.toggle = FALSE /\ dtm.req.op = "nop" /\ Unrest <= host.wait
      BY <1>1 DEF Phases
    <3>2. Unrest' \in Nat /\ (Unrest' = 0 \/ Unrest' = Unrest - 1)
      BY <1>1, <1>2, <3>1, UnrestClock
    <3>3. host.wait \in Nat /\ host'.wait = IF host.wait > 0 THEN host.wait - 1 ELSE host.wait
      BY <1>1, <1>4 DEF LinkTypes, HostType
    <3>4. Unrest \in Nat
      BY <1>1 DEF Unrest, LinkTypes, CdcType
    <3>5. Unrest' <= host'.wait
      BY <3>1, <3>2, <3>3, <3>4
    <3>. QED  BY <1>2, <3>1, <3>5
  <2>. QED  BY <2>1, <2>2, <2>3, <2>4, <2>5 DEF Phases
<1>. QED  BY <1>6, <1>7, <1>9 DEF LinkInv
-----------------------------------------------------------------------------
(* An edge of TCK.                                                         *)

LEMMA LooksStep ==
  ASSUME LinkTypes
  PROVE  /\ DtmLooks \in DtmType(dtm.req, DtmLooks.answer)
         /\ DtmLooks.toggle = dtm.toggle /\ DtmLooks.req = dtm.req
         /\ DtmLooks.meta = cdc.toggle /\ DtmLooks.sync = dtm.meta
         /\ DtmLooks.seen = dtm.sync
         /\ DtmLooks.answer = IF dtm.sync # dtm.seen THEN cdc.answer ELSE dtm.answer
<1>. DEFINE new == IF dtm.sync # dtm.seen THEN cdc.answer ELSE dtm.answer
<1>1. dtm \in DtmType(dtm.req, dtm.answer) /\ cdc.toggle \in BOOLEAN
  BY DEF LinkTypes, CdcType
<1>2. DtmLooks = [dtm EXCEPT !.meta = cdc.toggle, !.sync = dtm.meta, !.seen = dtm.sync,
                             !.answer = new]
  BY DEF DtmLooks
<1>. HIDE DEF new
<1>3. /\ DtmLooks \in DtmType(dtm.req, new)
      /\ DtmLooks.toggle = dtm.toggle /\ DtmLooks.req = dtm.req
      /\ DtmLooks.meta = cdc.toggle /\ DtmLooks.sync = dtm.meta
      /\ DtmLooks.seen = dtm.sync /\ DtmLooks.answer = new
  BY <1>1, <1>2 DEF DtmType
<1>. QED  BY <1>3 DEF new

\* An announced answer comes nearer and does not get lost.
LEMMA AnnouncedTck ==
  ASSUME LinkTypes, Announced, dtm' = DtmLooks, cdc' = cdc
  PROVE  Announced'
<1>1. /\ dtm.meta \in BOOLEAN /\ dtm.sync \in BOOLEAN /\ dtm.seen \in BOOLEAN
      /\ cdc.toggle \in BOOLEAN
  BY DEF LinkTypes, DtmType, CdcType
<1>2. /\ dtm'.meta = cdc.toggle /\ dtm'.sync = dtm.meta /\ dtm'.seen = dtm.sync
      /\ dtm'.answer = IF dtm.sync # dtm.seen THEN cdc.answer ELSE dtm.answer
  BY LooksStep
<1>. QED  BY <1>1, <1>2 DEF Announced

\* What an edge of TCK leaves alone: the host does not move.
LEMMA LookInv ==
  ASSUME LinkInv, dtm' = DtmLooks, host' = host, ledger' = ledger, cdc' = cdc,
         bootMode' = bootMode
  PROVE  LinkInv'
<1>1. LinkTypes /\ Honest /\ Phases
  BY DEF LinkInv
<1>2. /\ dtm' \in DtmType(dtm.req, dtm'.answer)
      /\ dtm'.toggle = dtm.toggle /\ dtm'.req = dtm.req
      /\ dtm'.meta = cdc.toggle /\ dtm'.sync = dtm.meta /\ dtm'.seen = dtm.sync
  BY <1>1, LooksStep
<1>3. LinkTypes'
  BY <1>1, <1>2 DEF LinkTypes
<1>4. Honest'
  BY <1>1 DEF Honest, Fresh
<1>5. Announced => Announced'
  BY <1>1, AnnouncedTck
<1>6. (Quiescent => Quiescent') /\ (Performed => Performed')
  BY <1>2 DEF Quiescent, Performed
<1>7. (Travels => Travels') /\ (Crosses => Crosses')
  BY <1>2 DEF Travels, Crosses, Fresh
<1>8. Unrest' = Unrest
  BY DEF Unrest
<1>9. host.wait \in Nat /\ TckWait \in Nat
  BY <1>1, JtagAssumption DEF LinkTypes, HostType
<1>10. host.phase = "tck" =>
         /\ Performed' /\ Announced' /\ dtm'.meta = cdc.toggle /\ dtm'.sync = cdc.toggle
         /\ host.wait + 1 < TckWait => dtm'.seen = cdc.toggle
  BY <1>1, <1>2, <1>5, <1>6, <1>9 DEF Phases
<1>11. Phases'
  BY <1>1, <1>2, <1>5, <1>6, <1>7, <1>8, <1>10 DEF Phases
<1>. QED  BY <1>3, <1>4, <1>11 DEF LinkInv

LEMMA Rested ==
  ASSUME LinkTypes, dtm.toggle = FALSE, Unrest <= 0
  PROVE  Quiescent
<1>1. /\ cdc.state \in {"idle", "issue", "respond"} /\ cdc.meta \in BOOLEAN
      /\ cdc.sync \in BOOLEAN /\ cdc.seen \in BOOLEAN
  BY DEF LinkTypes, CdcType
<1>2. cdc.state = "idle"
  BY <1>1 DEF Unrest
<1>3. cdc.sync = cdc.seen
  BY <1>1, <1>2 DEF Unrest
<1>4. Unrest = IF cdc.meta = cdc.sync THEN IF cdc.seen THEN 5 ELSE 0
               ELSE IF cdc.seen THEN 4 ELSE 7
  BY <1>2, <1>3 DEF Unrest
<1>5. cdc.meta = cdc.sync /\ cdc.seen = FALSE
  BY <1>1, <1>4
<1>. QED  BY <1>2, <1>3, <1>5 DEF Quiescent

\* A host in another phase, with another wait and another answer.
LEMMA PhaseType ==
  ASSUME LinkTypes, NEW p \in {"ready", "clk", "tck", "told", "settle"}, NEW w \in Nat
  PROVE  /\ Phase(p, w) \in HostType(host.told)
         /\ Phase(p, w).phase = p /\ Phase(p, w).wait = w /\ Phase(p, w).told = host.told
         /\ Phase(p, w).script = host.script /\ Phase(p, w).access = host.access
<1>1. host \in HostType(host.told)
  BY DEF LinkTypes
<1>2. Phase(p, w) = [host EXCEPT !.phase = p, !.wait = w]
  BY DEF Phase
<1>. QED  BY <1>1, <1>2 DEF HostType

LEMMA IdlesInv ==
  ASSUME LinkInv, TckWait >= 2, HostIdles, cdc' = cdc, bootMode' = bootMode
  PROVE  LinkInv'
<1>1. LinkTypes /\ Honest /\ Phases
  BY DEF LinkInv
<1>2. dtm' = DtmLooks /\ ledger' = ledger
  BY DEF HostIdles
<1>3. /\ dtm' \in DtmType(dtm.req, dtm'.answer)
      /\ dtm'.toggle = dtm.toggle /\ dtm'.req = dtm.req
      /\ dtm'.meta = cdc.toggle /\ dtm'.sync = dtm.meta /\ dtm'.seen = dtm.sync
  BY <1>1, <1>2, LooksStep
<1>4. (dtm \in DtmType(dtm.req, dtm.answer))' /\ Honest'
  BY <1>1, <1>2, <1>3 DEF Honest, Fresh
<1>5. (Quiescent => Quiescent') /\ (Performed => Performed') /\ (Announced => Announced')
  BY <1>1, <1>2, <1>3, AnnouncedTck DEF Quiescent, Performed
<1>6. host.wait \in Nat /\ TckWait \in Nat
  BY <1>1, JtagAssumption DEF LinkTypes, HostType
<1>7. CASE host.phase = "clk" /\ host.wait = 0 /\ host' = Phase("tck", TckWait)
  <2>1. (host \in HostType(host.told))' /\ host'.phase = "tck" /\ host'.wait = TckWait
    BY <1>1, <1>6, <1>7, PhaseType
  <2>2. Performed /\ Announced
    BY <1>1, <1>7 DEF Phases, Travels, Crosses
  <2>3. Phases'
    BY <1>2, <1>3, <1>5, <1>6, <2>1, <2>2 DEF Phases
  <2>. QED  BY <1>1, <1>2, <1>4, <2>1, <2>3 DEF LinkInv, LinkTypes
<1>8. CASE host.phase = "tck" /\ host.wait > 0 /\ host' = Phase("tck", host.wait - 1)
  <2>1. (host \in HostType(host.told))' /\ host'.phase = "tck" /\ host'.wait = host.wait - 1
    BY <1>1, <1>6, <1>8, PhaseType
  <2>2. /\ Performed /\ Announced /\ dtm.meta = cdc.toggle
        /\ host.wait < TckWait => dtm.sync = cdc.toggle
    BY <1>1, <1>8 DEF Phases
  <2>3. Phases'
    BY <1>3, <1>5, <1>6, <2>1, <2>2 DEF Phases
  <2>. QED  BY <1>1, <1>2, <1>4, <2>1, <2>3 DEF LinkInv, LinkTypes
<1>9. CASE /\ host.phase = "tck" /\ host.wait = 0
           /\ host' = [Phase("told", 0) EXCEPT !.told = dtm.answer]
  <2>1. /\ Phase("told", 0) \in HostType(host.told) /\ Phase("told", 0).phase = "told"
    BY <1>1, PhaseType
  <2>2. host' \in HostType(dtm.answer) /\ host'.phase = "told" /\ host'.told = dtm.answer
    BY <1>9, <2>1 DEF HostType
  <2>3. Performed /\ dtm.answer = cdc.answer
    BY <1>1, <1>6, <1>9 DEF Phases, Announced
  <2>4. Phases'
    BY <1>2, <1>5, <2>2, <2>3 DEF Phases, Performed
  <2>. QED  BY <1>1, <1>2, <1>4, <2>2, <2>4 DEF LinkInv, LinkTypes
<1>10. CASE host.phase = "settle" /\ host.wait = 0 /\ host' = Phase("ready", 0)
  <2>1. (host \in HostType(host.told))' /\ host'.phase = "ready"
    BY <1>1, <1>10, PhaseType
  <2>2. Quiescent
    BY <1>1, <1>10, Rested DEF Phases
  <2>3. Phases'
    BY <1>5, <2>1, <2>2 DEF Phases
  <2>. QED  BY <1>1, <1>2, <1>4, <2>1, <2>3 DEF LinkInv, LinkTypes
<1>. QED  BY <1>7, <1>8, <1>9, <1>10 DEF HostIdles

LEMMA UpdateInv ==
  ASSUME LinkInv, ClkWait >= 7, HostUpdate, cdc' = cdc, bootMode' = bootMode
  PROVE  LinkInv'
<1>. DEFINE r == Access.request
<1>1. LinkTypes /\ Honest /\ Phases /\ host.phase = "ready"
  BY DEF LinkInv, HostUpdate
<1>2. r.op # "nop"
  <2>1. host.script \in DOMAIN Scripts /\ host.access \in Nat \ {0}
    BY <1>1 DEF LinkTypes, HostType
  <2>2. Len(Scripts[host.script]) \in Nat
    BY <2>1, ScriptsAssumption
  <2>3. host.access \in 1 .. Len(Scripts[host.script])
    BY <2>1, <2>2 DEF HostUpdate, Ended
  <2>4. r.op \in {"read", "write"}
    BY <2>1, <2>3, ScriptsAssumption DEF Access
  <2>. QED  BY <2>4
<1>3. /\ dtm' = DtmUpdate(r) /\ host' = Phase("clk", ClkWait)
      /\ ledger' = [asked |-> r, times |-> 0, answer |-> NoAnswer, alien |-> ledger.alien]
  BY DEF HostUpdate
<1>. HIDE DEF r
<1>4. /\ DtmLooks \in DtmType(dtm.req, DtmLooks.answer)
      /\ DtmLooks.toggle = dtm.toggle /\ DtmLooks.meta = cdc.toggle
  BY <1>1, LooksStep
<1>5. dtm' = [DtmLooks EXCEPT !.req = r, !.toggle = ~DtmLooks.toggle]
  BY <1>2, <1>3 DEF DtmUpdate
<1>6. /\ dtm' \in DtmType(r, DtmLooks.answer) /\ dtm'.answer = DtmLooks.answer
      /\ dtm'.req = r /\ dtm'.toggle = ~dtm.toggle /\ dtm'.meta = cdc.toggle
  BY <1>4, <1>5 DEF DtmType
<1>7. /\ (host \in HostType(host.told))' /\ host'.phase = "clk" /\ host'.wait = ClkWait
      /\ ClkWait \in Nat
  BY <1>1, <1>3, PhaseType, JtagAssumption
<1>8. /\ ledger' \in LedgerType(r, NoAnswer) /\ ledger'.asked = r /\ ledger'.times = 0
      /\ ledger'.alien = ledger.alien /\ ledger'.answer = NoAnswer
  BY <1>1, <1>3 DEF LedgerType, LinkTypes
<1>9. LinkTypes'
  BY <1>1, <1>6, <1>7, <1>8 DEF LinkTypes
<1>10. Quiescent
  BY <1>1 DEF Phases
<1>11. Honest'
  BY <1>1, <1>8, <1>10 DEF Honest, Quiescent
<1>12. Fresh(dtm.req)'
  BY <1>2, <1>6, <1>8 DEF Fresh
<1>13. Travels'
  <2>1. dtm.toggle \in BOOLEAN
    BY <1>1 DEF LinkTypes, DtmType
  <2>. QED  BY <1>6, <1>7, <1>10, <1>12, <2>1 DEF Travels, Quiescent
<1>. QED  BY <1>7, <1>9, <1>11, <1>13 DEF LinkInv, Phases

LEMMA NopInv ==
  ASSUME LinkInv, HostNop, cdc' = cdc, bootMode' = bootMode
  PROVE  LinkInv'
<1>. DEFINE r == Nop(Access.request.reg)
            n == IF Satisfied THEN host.access + 1 ELSE host.access
<1>1. LinkTypes /\ Honest /\ Phases /\ host.phase = "told"
  BY DEF LinkInv, HostNop
<1>2. r.op = "nop"
  BY DEF Nop, Request
<1>3. dtm' = DtmUpdate(r) /\ ledger' = ledger
  BY DEF HostNop
<1>4. /\ Phase("ready", 0) \in HostType(host.told) /\ Phase("ready", 0).phase = "ready"
      /\ Phase("ready", 0).access = host.access
  BY <1>1, PhaseType
<1>5. host.access \in Nat \ {0} /\ n \in Nat \ {0}
  BY <1>1 DEF LinkTypes, HostType
<1>6. host' = [Phase("ready", 0) EXCEPT !.access = n]
  BY <1>4 DEF HostNop
<1>. HIDE DEF r, n
<1>7. host' \in HostType(host.told) /\ host'.phase = "ready" /\ host'.told = host.told
  BY <1>4, <1>5, <1>6 DEF HostType
<1>8. DtmLooks \in DtmType(dtm.req, DtmLooks.answer) /\ DtmLooks.toggle = dtm.toggle
  BY <1>1, LooksStep
<1>9. dtm' = [DtmLooks EXCEPT !.req = r, !.toggle = DtmLooks.toggle]
  BY <1>2, <1>3 DEF DtmUpdate
<1>10. /\ dtm' \in DtmType(r, DtmLooks.answer) /\ dtm'.req = r
       /\ dtm'.answer = DtmLooks.answer /\ dtm'.toggle = dtm.toggle
  BY <1>8, <1>9 DEF DtmType
<1>11. LinkTypes'
  BY <1>1, <1>3, <1>7, <1>10 DEF LinkTypes
<1>12. Honest'
  BY <1>1, <1>3 DEF Honest, Fresh
<1>13. Quiescent'
  BY <1>1, <1>10 DEF Phases, Quiescent
<1>. QED  BY <1>7, <1>11, <1>12, <1>13 DEF LinkInv, Phases
-----------------------------------------------------------------------------
(* Resets, the initial states, and the theorem.                            *)

LEMMA RestartedType ==
  ASSUME LinkTypes
  PROVE  \A n \in Nat \ {0} :
           LET h == [Restarted EXCEPT !.access = n]
           IN h \in HostType(NoAnswer) /\ h.phase = "settle" /\ h.wait = ClkWait
                /\ h.told = NoAnswer
<1>1. host \in HostType(host.told) /\ ClkWait \in Nat
  BY JtagAssumption DEF LinkTypes
<1>. DEFINE k == IF Ended THEN host.access ELSE 1
<1>2. k \in Nat \ {0}
  BY <1>1 DEF HostType
<1>3. Restarted = [host EXCEPT !.phase = "settle", !.wait = ClkWait, !.told = NoAnswer,
                               !.access = k]
  BY <1>1 DEF Restarted, HostType
<1>. HIDE DEF k
<1>4. Restarted \in HostType(NoAnswer)
  BY <1>1, <1>2, <1>3 DEF HostType
<1>5. Restarted.phase = "settle" /\ Restarted.wait = ClkWait /\ Restarted.told = NoAnswer
  BY <1>1, <1>3 DEF HostType
<1>. QED  BY <1>4, <1>5 DEF HostType

LEMMA RestartedStep ==
  ASSUME LinkTypes
  PROVE  /\ Restarted \in HostType(NoAnswer) /\ Restarted.told = NoAnswer
         /\ Restarted.phase = "settle" /\ Restarted.wait = ClkWait
<1>1. Restarted.access \in Nat \ {0} /\ DOMAIN Restarted = DOMAIN host
  BY DEF Restarted, LinkTypes, HostType
<1>2. Restarted = [Restarted EXCEPT !.access = Restarted.access]
  BY DEF Restarted, LinkTypes, HostType
<1>. QED  BY <1>1, <1>2, RestartedType

LEMMA DtmResetType ==
  /\ DtmReset \in DtmType(DtmReset.req, DtmReset.answer)
  /\ DtmReset.toggle = FALSE /\ DtmReset.req.op = "nop"
BY DEF DtmReset, DtmType, Nop, Request

LEMMA CdcResetType ==
  /\ CdcAtReset \in CdcType(CdcAtReset.req, CdcAtReset.answer)
  /\ CdcAtReset.state = "idle" /\ CdcAtReset.meta = FALSE /\ CdcAtReset.sync = FALSE
  /\ CdcAtReset.seen = FALSE /\ CdcAtReset.valid = FALSE
BY DEF CdcAtReset, CdcType

LEMMA TapResetInv ==
  ASSUME LinkInv, ClkWait >= 7, TapReset
  PROVE  LinkInv'
<1>1. LinkTypes /\ Honest
  BY DEF LinkInv
<1>2. /\ dtm' = DtmReset /\ host' = Restarted /\ cdc' = cdc /\ ledger' = ledger
      /\ bootMode' = bootMode
  BY DEF TapReset, bootVars
<1>3. host' \in HostType(NoAnswer) /\ host'.told = NoAnswer
      /\ host'.phase = "settle" /\ host'.wait = ClkWait
  BY <1>1, <1>2, RestartedStep
<1>4. LinkTypes'
  BY <1>1, <1>2, <1>3, DtmResetType DEF LinkTypes
<1>5. Honest'
  BY <1>1, <1>2 DEF Honest, Fresh
<1>6. Unrest <= 7 /\ Unrest \in Nat
  BY <1>1 DEF Unrest, LinkTypes, CdcType
<1>7. Unrest' = Unrest
  BY <1>2 DEF Unrest
<1>8. Phases'
  BY <1>2, <1>3, <1>6, <1>7, DtmResetType, JtagAssumption DEF Phases
<1>. QED  BY <1>4, <1>5, <1>8 DEF LinkInv

LEMMA BoardResetInv ==
  ASSUME LinkInv, ResetTogether, BoardReset
  PROVE  LinkInv'
<1>1. LinkTypes /\ Honest
  BY DEF LinkInv
<1>2. /\ dtm' = DtmReset /\ cdc' = CdcAtReset /\ bootMode' = bootMode
      /\ host' = [Restarted EXCEPT !.access = 1]
      /\ ledger' = [asked |-> Nop("none"), times |-> 0, answer |-> NoAnswer,
                    alien |-> ledger.alien]
  BY DEF BoardReset, BootReset
<1>3. host' \in HostType(NoAnswer) /\ host'.told = NoAnswer
      /\ host'.phase = "settle" /\ host'.wait = ClkWait
  BY <1>1, <1>2, RestartedType
<1>4. ledger' \in LedgerType(Nop("none"), NoAnswer) /\ ledger'.alien = ledger.alien
      /\ ledger'.asked = Nop("none") /\ ledger'.answer = NoAnswer
  BY <1>1, <1>2 DEF LedgerType, LinkTypes
<1>5. LinkTypes'
  BY <1>1, <1>2, <1>3, <1>4, DtmResetType, CdcResetType DEF LinkTypes
<1>6. Honest'
  BY <1>1, <1>2, <1>4, CdcResetType DEF Honest
<1>7. Unrest' = 0
  BY <1>2, CdcResetType DEF Unrest
<1>8. Phases'
  BY <1>2, <1>3, <1>7, DtmResetType, JtagAssumption DEF Phases
<1>. QED  BY <1>5, <1>6, <1>8 DEF LinkInv

LEMMA LinkInitially == JtagInit => LinkInv
<1>. SUFFICES ASSUME JtagInit PROVE LinkInv
  OBVIOUS
<1>1. bootMode \in BootModes /\ dtm = DtmReset /\ cdc = CdcAtReset
  BY DEF JtagInit, BootInit, DtmReset
<1>2. PICK s \in ScriptsOf(bootMode) :
        host = [script |-> s, access |-> 1, phase |-> "ready", wait |-> 0, told |-> NoAnswer]
  BY DEF JtagInit
<1>3. s \in DOMAIN Scripts
  BY <1>1, JtagAssumption
<1>4. host \in HostType(NoAnswer) /\ host.told = NoAnswer /\ host.phase = "ready"
  BY <1>2, <1>3 DEF HostType
<1>5. ledger = [asked |-> Nop("none"), times |-> 0, answer |-> NoAnswer, alien |-> FALSE]
  BY DEF JtagInit
<1>6. ledger \in LedgerType(Nop("none"), NoAnswer) /\ ledger.alien = FALSE
      /\ ledger.asked = Nop("none") /\ ledger.answer = NoAnswer
  BY <1>5 DEF LedgerType
<1>7. LinkTypes
  BY <1>1, <1>4, <1>6, DtmResetType, CdcResetType DEF LinkTypes
<1>8. Honest
  BY <1>1, <1>6, CdcResetType DEF Honest
<1>9. Quiescent
  BY <1>1, DtmResetType, CdcResetType DEF Quiescent
<1>. QED  BY <1>4, <1>7, <1>8, <1>9 DEF LinkInv, Phases

LEMMA LinkStep ==
  ASSUME ResetTogether, ClkWait >= 7, TckWait >= 2
  PROVE  LinkInv /\ [JtagNext]_jtagVars => LinkInv'
<1>. SUFFICES ASSUME LinkInv, [JtagNext]_jtagVars PROVE LinkInv'
  OBVIOUS
<1>1. ASSUME NEW drained \in BOOLEAN, NEW b \in Bytes, ClkEdge(drained, b)
      PROVE  LinkInv'
  BY <1>1, ClkEdgeInv
<1>2. CASE TckEdge
  <2>1. cdc' = cdc /\ bootMode' = bootMode
    BY <1>2 DEF TckEdge, bootVars
  <2>2. HostUpdate \/ HostIdles \/ HostNop \/ (dtm' = DtmLooks /\ host' = host /\ ledger' = ledger)
    BY <1>2 DEF TckEdge, HostStep
  <2>. QED  BY <2>1, <2>2, UpdateInv, IdlesInv, NopInv, LookInv
<1>3. CASE TapReset
  BY <1>3, TapResetInv
<1>4. CASE BoardReset
  BY <1>4, BoardResetInv
<1>5. CASE UNCHANGED jtagVars
  BY <1>5 DEF jtagVars, bootVars, linkVars, LinkInv, LinkTypes, Honest, Phases, Quiescent,
              Fresh, Travels, Crosses, Performed, Announced, Unrest
<1>. QED  BY <1>1, <1>2, <1>3, <1>4, <1>5 DEF JtagNext

\* What the host is told is the answer to its own last request, which was performed
\* once, whatever either side of the crossing is reset under (rtl/soc/debug/dmi_cdc.sv,
\* jtag_dtm.sv): of a host that waits for long enough and a board whose reset reaches
\* the TAP as well.
THEOREM HostHearsItsAnswer ==
  ASSUME ResetTogether, ClkWait >= 7, TckWait >= 2
  PROVE  JtagSpec => []AnswersMatch
<1>1. LinkInv => AnswersMatch
  BY DEF LinkInv, Honest, Phases, AnswersMatch
<1>. QED  BY LinkInitially, LinkStep, <1>1, PTL DEF JtagSpec

-----------------------------------------------------------------------------
(* The user-mode profile.                                                  *)

Places == {"user", "service", "return", "load", "store", "again", "gone"}

\* What the scripts ask of the kernel: sequences of calls, gives to users 1 to
\* 3, and one delay.
LEMMA ScriptCalls ==
  \A t \in Users :
    /\ Len(Script[t]) \in Nat
    /\ \A k \in 1 .. Len(Script[t]) :
         /\ Script[t][k].service = "give" => Script[t][k].arg \in 1 .. 3
         /\ Script[t][k].service = "delay" => Script[t][k].arg = DelayTicks
         /\ Script[t][k].service = "wait" => t \in 1 .. 3
<1>. SUFFICES ASSUME NEW t \in Users
              PROVE  /\ Len(Script[t]) \in Nat
                     /\ \A k \in 1 .. Len(Script[t]) :
                          /\ Script[t][k].service = "give" => Script[t][k].arg \in 1 .. 3
                          /\ Script[t][k].service = "delay" => Script[t][k].arg = DelayTicks
                          /\ Script[t][k].service = "wait" => t \in 1 .. 3
  OBVIOUS
<1>1. CASE t = 0
  BY <1>1 DEF Script, Call, Record, Users
<1>2. CASE t = 1
  BY <1>2 DEF Script, Call, Record, Users
<1>3. CASE t = 2
  BY <1>3 DEF Script, Call, Record, Users
<1>4. CASE t = 3
  BY <1>4 DEF Script, Call, Record, Users
<1>. QED  BY <1>1, <1>2, <1>3, <1>4 DEF Users

-----------------------------------------------------------------------------
(* The inductive invariant.                                                *)

\* Between trap entry and the end of the handler a call is being made.
InCall(t) == inside[t] \notin {"user", "gone"}

Types ==
  /\ current \in Users \cup {Idle} /\ pmp \in Users
  /\ next \in [Users -> Nat \ {0}] /\ inside \in [Users -> Places]
  /\ \A t \in Users : /\ next[t] <= Len(Script[t]) + 1
                      /\ InCall(t) => next[t] <= Len(Script[t])
  /\ frame \in [Users -> {"user", "kernel"} \X Users]
  /\ wait \in [Users -> {"ready", "tick", "notify", "deleted"}]
  /\ ticks \in [Users -> 0 .. DelayTicks] /\ notified \subseteq Users
  /\ given \cup woken \subseteq 1 .. 3 /\ copy \in [Users -> SUBSET (1 .. 3)]
  /\ complete \subseteq 0 .. 2 /\ result \in {"none", "pass", "failed"}

\* Where a call stands, and which call it is.
CallPlaces ==
  \A t \in Users : /\ inside[t] \in {"load", "store"} => Service(t) \in {"give", "wait"}
                   /\ inside[t] = "again" => Service(t) = "wait"

\* A task that is not running has been left with the frame of its place; one
\* whose call is about to be looked at is running, behind the frame that trap
\* entry has saved.
Frames ==
  \A t \in Users :
    /\ t # current => frame[t] = FrameFor(t, inside[t])
    /\ inside[t] = "service" => t = current /\ frame[t] = <<"user", t>>

IInv == Types /\ CallPlaces /\ PmpIsCurrents /\ Frames

LEMMA InitIInv == Init => IInv
<1>. SUFFICES ASSUME Init PROVE IInv
  OBVIOUS
<1>1. Types
  BY ScriptCalls, UmodeAssumption DEF Init, Types, Places, InCall, Users
<1>2. CallPlaces /\ PmpIsCurrents /\ Frames
  BY DEF Init, CallPlaces, PmpIsCurrents, Frames, FrameFor
<1>. QED  BY <1>1, <1>2 DEF IInv

\* The kernel selects a task that is ready, or Idle, and opens its region.
LEMMA SwitchSelects ==
  ASSUME pmp \in Users, NEW wait2, Switch(wait2)
  PROVE  /\ current' \in Users \cup {Idle} /\ pmp' \in Users
         /\ PmpIsCurrents'
         /\ current' \in Users => wait2[current'] = "ready"
BY DEF Switch, Ready, PmpLoad, PmpIsCurrents, Users, Idle

\* The call that a task in the handler makes.
LEMMA CallMade ==
  ASSUME Types, NEW t \in Users, InCall(t)
  PROVE  /\ Service(t) = "give" => Arg(t) \in 1 .. 3
         /\ Service(t) = "delay" => Arg(t) = DelayTicks
         /\ Service(t) = "wait" => t \in 1 .. 3
         /\ next[t] + 1 \in Nat \ {0} /\ next[t] + 1 <= Len(Script[t]) + 1
<1>1. /\ Len(Script[t]) \in Nat /\ next[t] \in Nat \ {0}
      /\ next[t] <= Len(Script[t])
  BY ScriptCalls DEF Types, InCall
<1>2. next[t] \in 1 .. Len(Script[t])
  BY <1>1
<1>3. /\ Script[t][next[t]].service = "give" => Script[t][next[t]].arg \in 1 .. 3
      /\ Script[t][next[t]].service = "delay" => Script[t][next[t]].arg = DelayTicks
      /\ Script[t][next[t]].service = "wait" => t \in 1 .. 3
  BY <1>2, ScriptCalls
<1>. QED  BY <1>1, <1>3 DEF Service, Arg

LEMMA StepTypes ==
  ASSUME IInv, NEW t \in Users, Step(t)
  PROVE  Types'
<1>. Types /\ current = t
  BY DEF IInv, Step, Ecall, SysRecord, SysYield, SysDelay, Return, SysGive, SysWait,
         LoadMask, StoreMask, SysExit, Handles, At
<1>1. CASE Ecall(t)
  BY <1>1 DEF Ecall, At, SaveAs, Types, InCall, Places, kernel, gate
<1>2. CASE SysRecord(t)
  BY <1>2, CallMade DEF SysRecord, Handles, At, Done, HandlerReturns, Types, InCall, Places, kernel
<1>3. CASE SysYield(t)
  BY <1>3, CallMade, SwitchSelects DEF SysYield, Handles, At, Done, HandlerReturns, Types, InCall, Places, kernel, gate
<1>4. CASE SysDelay(t)
  <2>1. Arg(t) \in 0 .. DelayTicks
    BY <1>4, CallMade, UmodeAssumption DEF SysDelay, Handles, At, InCall
  <2>2. current' \in Users \cup {Idle} /\ pmp' \in Users
    BY <1>4, SwitchSelects DEF SysDelay, Types
  <2>3. next[t] <= Len(Script[t])
    BY <1>4 DEF SysDelay, Handles, At, Types, InCall
  <2>. QED  BY <1>4, <2>1, <2>2, <2>3 DEF SysDelay, SaveAs, Types, InCall, Places, gate
<1>5. CASE Return(t)
  BY <1>5, CallMade DEF Return, At, Done, HandlerReturns, Types, InCall, Places, kernel, gate
<1>6. CASE SysGive(t)
  <2>1. Arg(t) \in Users
    BY <1>6, CallMade DEF SysGive, Handles, At, InCall, Users
  <2>2. next[t] <= Len(Script[t])
    BY <1>6 DEF SysGive, Handles, At, Types, InCall
  <2>3. wait' \in [Users -> {"ready", "tick", "notify", "deleted"}]
    BY <1>6 DEF SysGive, Types
  <2>. QED  BY <1>6, <2>1, <2>2, <2>3 DEF SysGive, Types, InCall, Places, gate
<1>7. CASE SysWait(t)
  <2>1. next[t] <= Len(Script[t])
    BY <1>7 DEF SysWait, Handles, At, Types, InCall
  <2>2. CASE t \in notified
    BY <1>7, <2>1, <2>2 DEF SysWait, Types, InCall, Places, gate
  <2>3. CASE t \notin notified
    <3>1. current' \in Users \cup {Idle} /\ pmp' \in Users
      BY <1>7, <2>3, SwitchSelects DEF SysWait, Types
    <3>2. /\ wait' = [wait EXCEPT ![t] = "notify"]
          /\ inside' = [inside EXCEPT ![t] = "again"]
          /\ frame' = [frame EXCEPT ![t] = <<"kernel", t>>]
          /\ UNCHANGED <<next, ticks, notified, gate>>
      BY <1>7, <2>3 DEF SysWait, SaveAs
    <3>. QED  BY <2>1, <3>1, <3>2 DEF Types, InCall, Places, gate
  <2>. QED  BY <2>2, <2>3
<1>8. CASE LoadMask(t)
  BY <1>8, CallMade DEF LoadMask, At, Types, InCall, Places, kernel
<1>9. CASE StoreMask(t)
  <2>1. InCall(t) /\ Service(t) \in {"give", "wait"}
    BY <1>9 DEF IInv, CallPlaces, StoreMask, At, InCall
  <2>2. given' \cup woken' \subseteq 1 .. 3
    <3>1. copy[t] \subseteq 1 .. 3 /\ given \subseteq 1 .. 3 /\ woken \subseteq 1 .. 3
      BY DEF Types
    <3>2. CASE Service(t) = "give"
      <4>1. Arg(t) \in 1 .. 3
        BY <2>1, <3>2, CallMade
      <4>. QED  BY <1>9, <3>1, <3>2, <4>1 DEF StoreMask
    <3>3. CASE Service(t) = "wait"
      <4>1. t \in 1 .. 3
        BY <2>1, <3>3, CallMade
      <4>. QED  BY <1>9, <3>1, <3>3, <4>1 DEF StoreMask
    <3>. QED  BY <2>1, <3>2, <3>3
  <2>3. next[t] + 1 \in Nat \ {0} /\ next[t] + 1 <= Len(Script[t]) + 1
    BY <2>1, CallMade
  <2>. QED
    BY <1>9, <2>2, <2>3 DEF StoreMask, Done, HandlerReturns, Types, InCall, Places, kernel
<1>10. CASE SysExit(t)
  <2>1. next[t] + 1 \in Nat \ {0} /\ next[t] + 1 <= Len(Script[t]) + 1
    BY <1>10, CallMade DEF SysExit, Handles, At, InCall
  <2>2. current' \in Users \cup {Idle} /\ pmp' \in Users
    BY <1>10, SwitchSelects DEF SysExit, Types
  <2>3. complete' \subseteq 0 .. 2 /\ result' \in {"none", "pass", "failed"}
    <3>1. complete \subseteq 0 .. 2 /\ result \in {"none", "pass", "failed"}
      BY DEF Types
    <3>2. CASE t < 3
      <4>1. t \in 0 .. 2
        BY <3>2 DEF Users
      <4>. QED  BY <1>10, <3>1, <3>2, <4>1 DEF SysExit
    <3>3. CASE ~(t < 3)
      BY <1>10, <3>1, <3>3 DEF SysExit
    <3>. QED  BY <3>2, <3>3
  <2>. QED  BY <1>10, <2>1, <2>2, <2>3 DEF SysExit, Done, SaveAs, Types, InCall, Places
<1>. QED
  BY <1>1, <1>2, <1>3, <1>4, <1>5, <1>6, <1>7, <1>8, <1>9, <1>10 DEF Step

LEMMA StepPmp ==
  ASSUME IInv, NEW t \in Users, Step(t)
  PROVE  PmpIsCurrents'
<1>. pmp \in Users /\ PmpIsCurrents
  BY DEF IInv, Types
<1>1. CASE UNCHANGED <<current, pmp>>
  BY <1>1 DEF PmpIsCurrents
<1>2. CASE \E wait2 : Switch(wait2)
  BY <1>2, SwitchSelects
<1>3. UNCHANGED <<current, pmp>> \/ \E wait2 : Switch(wait2)
  BY DEF Step, Ecall, SysRecord, SysYield, SysDelay, Return, SysGive, SysWait,
         LoadMask, StoreMask, SysExit
<1>. QED  BY <1>1, <1>2, <1>3

\* Only the task that makes the step moves in its script and in the handler.
LEMMA OthersStay ==
  ASSUME Types, NEW t \in Users, Step(t), NEW u \in Users \ {t}
  PROVE  /\ inside'[u] = inside[u] /\ next'[u] = next[u] /\ frame'[u] = frame[u]
         /\ Service(u)' = Service(u)
<1>1. inside'[u] = inside[u] /\ next'[u] = next[u]
  BY DEF Types, Step, Ecall, SysRecord, SysYield, SysDelay, Return, SysGive, SysWait,
         LoadMask, StoreMask, SysExit, Done, HandlerReturns
<1>2. frame'[u] = frame[u]
  BY DEF Types, Step, Ecall, SysRecord, SysYield, SysDelay, Return, SysGive, SysWait,
         LoadMask, StoreMask, SysExit, HandlerReturns, SaveAs
<1>. QED  BY <1>1, <1>2 DEF Service

LEMMA StepCallPlaces ==
  ASSUME IInv, NEW t \in Users, Step(t)
  PROVE  CallPlaces'
<1>. Types /\ CallPlaces
  BY DEF IInv
<1>1. ASSUME NEW u \in Users \ {t}
      PROVE  /\ inside'[u] \in {"load", "store"} => Service(u)' \in {"give", "wait"}
             /\ inside'[u] = "again" => Service(u)' = "wait"
  BY <1>1, OthersStay DEF CallPlaces
<1>2. inside'[t] \in {"load", "store", "again"} => next' = next
  BY DEF Types, Step, Ecall, SysRecord, SysYield, SysDelay, Return, SysGive, SysWait,
         LoadMask, StoreMask, SysExit, HandlerReturns
<1>3. inside'[t] \in {"load", "store"} => Service(t) \in {"give", "wait"}
  BY DEF Types, CallPlaces, Step, Ecall, SysRecord, SysYield, SysDelay, Return, SysGive,
         SysWait, LoadMask, StoreMask, SysExit, HandlerReturns, Handles, At
<1>4. inside'[t] = "again" => Service(t) = "wait"
  BY DEF Types, CallPlaces, Step, Ecall, SysRecord, SysYield, SysDelay, Return, SysGive,
         SysWait, LoadMask, StoreMask, SysExit, HandlerReturns, Handles, At
<1>. QED  BY <1>1, <1>2, <1>3, <1>4 DEF CallPlaces, Service

\* The task that makes a step leaves, if it leaves, with the frame of its place.
LEMMA LeavesItsFrame ==
  ASSUME IInv, NEW t \in Users, Step(t)
  PROVE  /\ current' # t => frame'[t] = FrameFor(t, inside'[t])
         /\ inside'[t] = "service" => current' = t /\ frame'[t] = <<"user", t>>
<1>. Types /\ Frames /\ current = t
  BY DEF IInv, Step, Ecall, SysRecord, SysYield, SysDelay, Return, SysGive, SysWait,
         LoadMask, StoreMask, SysExit, Handles, At
<1>1. CASE Ecall(t)
  BY <1>1 DEF Ecall, SaveAs, Types
<1>2. CASE SysRecord(t) \/ Return(t) \/ StoreMask(t)
  BY <1>2 DEF SysRecord, Return, StoreMask, HandlerReturns, Types
<1>3. CASE SysYield(t)
  BY <1>3 DEF SysYield, Handles, At, HandlerReturns, Types, Frames, FrameFor
<1>4. CASE SysDelay(t) \/ SysExit(t)
  BY <1>4 DEF SysDelay, SysExit, SaveAs, Types, FrameFor
<1>5. CASE SysGive(t) \/ LoadMask(t)
  BY <1>5 DEF SysGive, LoadMask, Types
<1>6. CASE SysWait(t)
  BY <1>6 DEF SysWait, SaveAs, Types, FrameFor
<1>. QED  BY <1>1, <1>2, <1>3, <1>4, <1>5, <1>6 DEF Step

LEMMA StepFrames ==
  ASSUME IInv, NEW t \in Users, Step(t)
  PROVE  Frames'
<1>. Types /\ Frames /\ current = t
  BY DEF IInv, Step, Ecall, SysRecord, SysYield, SysDelay, Return, SysGive, SysWait,
         LoadMask, StoreMask, SysExit, Handles, At
<1>1. ASSUME NEW u \in Users \ {t}
      PROVE  /\ frame'[u] = FrameFor(u, inside'[u])
             /\ inside'[u] # "service"
  BY <1>1, OthersStay DEF Frames, FrameFor
<1>. QED  BY <1>1, LeavesItsFrame DEF Frames, FrameFor

LEMMA TickIInv ==
  ASSUME IInv, Tick
  PROVE  IInv'
<1>. Types /\ CallPlaces /\ Frames
  BY DEF IInv
<1>1. current' \in Users \cup {Idle} /\ pmp' \in Users /\ PmpIsCurrents'
  BY SwitchSelects DEF Tick, Types
<1>2. /\ wait' \in [Users -> {"ready", "tick", "notify", "deleted"}]
      /\ ticks' \in [Users -> 0 .. DelayTicks]
  BY UmodeAssumption DEF Tick, Types
<1>3. /\ inside' = inside
      /\ IF current = Idle THEN frame' = frame
         ELSE frame' = [frame EXCEPT ![current] = FrameFor(current, inside[current])]
  BY DEF Tick
<1>4. frame' \in [Users -> {"user", "kernel"} \X Users]
  <2>1. \A u \in Users : FrameFor(u, inside[u]) \in {"user", "kernel"} \X Users
    BY DEF FrameFor
  <2>2. frame \in [Users -> {"user", "kernel"} \X Users] /\ current \in Users \cup {Idle}
    BY DEF Types
  <2>. QED  BY <1>3, <2>1, <2>2
<1>5. Types'
  BY <1>1, <1>2, <1>3, <1>4 DEF Tick, Types, InCall, gate
<1>6. CallPlaces'
  BY DEF Tick, CallPlaces, Service
<1>7. ASSUME NEW u \in Users
      PROVE  frame'[u] = FrameFor(u, inside'[u]) /\ inside'[u] # "service"
  <2>1. CASE u = current
    <3>1. inside[u] # "service"
      BY <2>1 DEF Tick, Preemptible
    <3>2. current # Idle
      BY <2>1 DEF Users, Idle
    <3>. QED  BY <1>3, <2>1, <3>1, <3>2 DEF Types
  <2>2. CASE u # current
    BY <1>3, <2>2 DEF Types, Frames
  <2>. QED  BY <2>1, <2>2
<1>8. Frames'
  BY <1>7 DEF Frames, FrameFor
<1>. QED  BY <1>1, <1>5, <1>6, <1>8 DEF IInv

LEMMA NextIInv == IInv /\ [Next]_vars => IInv'
<1>. SUFFICES ASSUME IInv, [Next]_vars PROVE IInv'
  OBVIOUS
<1>1. CASE UNCHANGED vars
  BY <1>1 DEF vars, kernel, gate, IInv, Types, CallPlaces, PmpIsCurrents, Frames, FrameFor,
              InCall, Service
<1>2. ASSUME NEW t \in Users, Step(t)
      PROVE  IInv'
  BY <1>2, StepTypes, StepCallPlaces, StepPmp, StepFrames DEF IInv
<1>3. CASE Tick
  BY <1>3, TickIInv
<1>. QED  BY <1>1, <1>2, <1>3 DEF Next

-----------------------------------------------------------------------------
(* What the profile guarantees.                                            *)

\* The tasks, the kernel objects, the masks and the result keep their ranges:
\* no call runs past the end of its script and no mask names a task that is
\* not there.
THEOREM TypeCorrect == Spec => []TypeOK
<1>1. IInv => TypeOK
  <2>. SUFFICES ASSUME IInv PROVE TypeOK
    OBVIOUS
  <2>1. \A t \in Users : next[t] \in 1 .. Len(Script[t]) + 1
    BY ScriptCalls DEF IInv, Types
  <2>. QED  BY <2>1 DEF IInv, Types, TypeOK
<1>. QED  BY <1>1, InitIInv, NextIInv, PTL DEF Spec

\* A task that runs has its own region open in the PMP, whoever was selected
\* by whichever call or tick before.
THEOREM OwnRegion == Spec => []PmpIsCurrents
<1>1. IInv => PmpIsCurrents
  BY DEF IInv
<1>. QED  BY <1>1, InitIInv, NextIInv, PTL DEF Spec

\* Every context that is restored is that of the task which goes on, at the
\* place where it was: user code, or kernel code inside its own call.
THEOREM OwnFrame == Spec => ResumesWhereItWas
<1>. DEFINE Resumes ==
       /\ current' \in Users
       /\ \/ current' # current
          \/ inside'[current] = "user" /\ inside[current] # "user"
       => frame'[current'] = FrameFor(current', inside'[current'])
<1>1. IInv /\ [Next]_vars => [Resumes]_vars
  <2>. SUFFICES ASSUME IInv, Next, current' \in Users,
                       \/ current' # current
                       \/ inside'[current] = "user" /\ inside[current] # "user"
                PROVE  frame'[current'] = FrameFor(current', inside'[current'])
    OBVIOUS
  <2>. Types /\ Frames
    BY DEF IInv
  <2>1. CASE Tick
    BY <2>1 DEF Tick, Types, Frames, FrameFor, Users, Idle
  <2>2. ASSUME NEW t \in Users, Step(t)
        PROVE  frame'[current'] = FrameFor(current', inside'[current'])
    <3>1. current = t
      BY <2>2 DEF Step, Ecall, SysRecord, SysYield, SysDelay, Return, SysGive, SysWait,
                  LoadMask, StoreMask, SysExit, Handles, At
    <3>2. CASE current' # t
      BY <2>2, <3>1, <3>2, OthersStay DEF Frames, FrameFor
    <3>3. CASE current' = t
      <4>1. inside'[t] = "user" /\ inside[t] # "user"
        BY <3>1, <3>3
      <4>2. HandlerReturns(t)
        BY <2>2, <4>1 DEF Step, Ecall, SysRecord, SysYield, SysDelay, Return, SysGive,
             SysWait, LoadMask, StoreMask, SysExit, Types
      <4>. QED  BY <3>3, <4>1, <4>2 DEF HandlerReturns, Types, FrameFor
    <3>. QED  BY <3>2, <3>3
  <2>. QED  BY <2>1, <2>2 DEF Next
<1>. QED  BY <1>1, InitIInv, NextIInv, PTL DEF Spec, ResumesWhereItWas

-----------------------------------------------------------------------------
(* Registers of two digits.                                                *)

LEMMA DigitsAre ==
  ASSUME NEW t \in Nat
  PROVE  /\ Hi(t) \in Nat /\ Lo(t) \in 0 .. Base - 1
         /\ t = Hi(t) * Base + Lo(t)
<1>1. Base \in Nat \ {0}
  BY BareMetalAssumption
<1>. QED  BY <1>1 DEF Hi, Lo

\* The high digit does not go back.
LEMMA HiMonotone ==
  ASSUME NEW s \in Nat, NEW t \in Nat, s <= t
  PROVE  Hi(s) <= Hi(t)
<1>1. Base \in Nat \ {0}
  BY BareMetalAssumption
<1>2. /\ Hi(s) \in Nat /\ Lo(s) \in 0 .. Base - 1 /\ s = Hi(s) * Base + Lo(s)
      /\ Hi(t) \in Nat /\ Lo(t) \in 0 .. Base - 1 /\ t = Hi(t) * Base + Lo(t)
  BY DigitsAre
<1>3. SUFFICES ASSUME Hi(s) >= Hi(t) + 1 PROVE FALSE
  BY <1>2
<1>. DEFINE h == Hi(s)
            k == Hi(t)
<1>4. h * Base >= (k + 1) * Base
  <2>. HIDE DEF h, k
  <2>1. \A x, y \in Nat : x >= y => x * Base >= y * Base
    BY <1>1
  <2>2. h \in Nat /\ k + 1 \in Nat /\ h >= k + 1
    BY <1>2, <1>3 DEF h, k
  <2>. QED  BY <2>1, <2>2
<1>5. (k + 1) * Base = k * Base + Base
  <2>. HIDE DEF k
  <2>. k \in Nat
    BY <1>2 DEF k
  <2>. QED  BY <1>1
<1>. QED  BY <1>1, <1>2, <1>4, <1>5

\* A high digit of all ones stands for never.
LEMMA NeverIsLater ==
  ASSUME NEW lo \in Nat, NEW t \in Nat, t <= MaxTime + Interval
  PROVE  t < (Base - 1) * Base + lo
<1>1. Base \in Nat \ {0} /\ MaxTime \in Nat /\ Interval \in Nat
  BY BareMetalAssumption
<1>2. (Base - 1) * Base = Base * (Base - 1)
  BY <1>1
<1>. QED  BY <1>1, <1>2, BareMetalAssumption

LEMMA HiBelow ==
  ASSUME NEW t \in Nat, t <= MaxTime + Interval
  PROVE  Hi(t) \in 0 .. Base - 1
<1>1. Base \in Nat \ {0} /\ MaxTime \in Nat /\ Interval \in Nat
  BY BareMetalAssumption
<1>2. Hi(t) \in Nat /\ Lo(t) \in 0 .. Base - 1 /\ t = Hi(t) * Base + Lo(t)
  BY DigitsAre
<1>3. SUFFICES ASSUME Hi(t) >= Base PROVE FALSE
  BY <1>1, <1>2
<1>4. Hi(t) * Base >= (Base - 1) * Base
  <2>1. \A x, y \in Nat : x >= y => x * Base >= y * Base
    BY <1>1
  <2>2. Base - 1 \in Nat /\ Hi(t) >= Base - 1
    BY <1>1, <1>2, <1>3
  <2>. QED  BY <1>2, <2>1, <2>2
<1>5. t < (Base - 1) * Base + 0
  BY NeverIsLater
<1>. QED  BY <1>1, <1>2, <1>4, <1>5

-----------------------------------------------------------------------------
(* The bare-metal images: the invariant.                                   *)

HelperPlaces == {"read_hi", "read_lo", "read_again", "set_ones", "set_lo", "set_hi"}
MainPlaces == HelperPlaces \cup {"enable", "note", "check", "show", "start", "wfi", "pass"}
HandlerPlaces == HelperPlaces \cup {"none", "external", "count"}

ClintShape ==
  /\ mtime \in 0 .. MaxTime /\ asked \in 0 .. mtime /\ deadline \in Nat
  /\ cmp \in [hi : 0 .. Base - 1, lo : 0 .. Base - 1]
  /\ read \in [hi : Nat, lo : Nat]
  /\ mie \in BOOLEAN
  /\ pc \in [Contexts -> MainPlaces \cup HandlerPlaces]

\* Main calls the helpers before it enables interrupts, the handler after.
OneCaller ==
  /\ mie => pc["main"] \notin HelperPlaces \cup {"enable"}
  /\ ~mie => pc["handler"] = "none"

\* What a caller of read_mtime has read so far.
HalfRead ==
  \A c \in Contexts :
    /\ pc[c] \in {"read_lo", "read_again"} => read.hi = Hi(asked)
    /\ pc[c] = "read_again" => \E t \in asked .. mtime : read.lo = Lo(t)
    /\ pc[c] = "set_ones" => ReadValue \in asked .. mtime

\* What a caller of set_mtimecmp has written so far.
HalfSet ==
  /\ \/ cmp.hi = Base - 1
     \/ cmp.hi * Base + cmp.lo = deadline
  /\ \A c \in Contexts :
       /\ pc[c] \in {"set_lo", "set_hi"} => /\ cmp.hi = Base - 1
                                            /\ deadline <= MaxTime + Interval
       /\ pc[c] = "set_hi" => cmp.lo = Lo(deadline)

ImageInv == ClintShape /\ OneCaller /\ HalfRead /\ HalfSet

LEMMA ImageInitially == ImageInit => ImageInv
<1>. SUFFICES ASSUME ImageInit PROVE ImageInv
  OBVIOUS
<1>1. Base \in Nat \ {0} /\ MaxTime \in Nat
  BY BareMetalAssumption
<1>2. Base * Base - 1 \in Nat
  <2>1. Base * Base >= 1
    BY <1>1
  <2>. QED  BY <1>1, <2>1
<1>3. /\ pc \in [Contexts -> {"enable", "read_hi", "none"}]
      /\ pc["handler"] = "none"
  BY DEF ImageInit, Contexts
<1>4. /\ cmp \in [hi : 0 .. Base - 1, lo : 0 .. Base - 1] /\ cmp.hi = Base - 1
      /\ read \in [hi : Nat, lo : Nat]
  BY <1>1 DEF ImageInit
<1>5. mtime \in 0 .. MaxTime /\ asked \in 0 .. mtime /\ deadline \in Nat /\ mie = FALSE
  <2>. DEFINE d == Base * Base - 1
  <2>1. mtime = 0 /\ asked = 0 /\ deadline = d /\ mie = FALSE
    BY DEF ImageInit
  <2>2. d \in Nat
    BY <1>2
  <2>. HIDE DEF d
  <2>. QED  BY <1>1, <2>1, <2>2
<1>6. ClintShape
  BY <1>3, <1>4, <1>5 DEF ClintShape, MainPlaces, HandlerPlaces, HelperPlaces
<1>7. OneCaller /\ HalfRead /\ HalfSet
  BY <1>3, <1>4, <1>5 DEF OneCaller, HalfRead, HalfSet
<1>. QED  BY <1>6, <1>7 DEF ImageInv

\* The invariant says what the program is promised.
LEMMA ImageInvAgrees == ImageInv => HalvesAgree
<1>. SUFFICES ASSUME ImageInv PROVE HalvesAgree
  OBVIOUS
<1>1. NeverEarly
  <2>1. mtime \in Nat /\ mtime <= MaxTime + Interval /\ cmp.lo \in Nat
    BY BareMetalAssumption DEF ImageInv, ClintShape
  <2>2. mtime < (Base - 1) * Base + cmp.lo
    BY <2>1, NeverIsLater
  <2>3. (Base - 1) * Base + cmp.lo \in Nat
    BY <2>1, BareMetalAssumption
  <2>4. CASE cmp.hi = Base - 1
    BY <2>1, <2>2, <2>3, <2>4 DEF NeverEarly, Mtip
  <2>5. CASE cmp.hi * Base + cmp.lo = deadline
    BY <2>5 DEF NeverEarly, Mtip
  <2>. QED  BY <2>4, <2>5 DEF ImageInv, HalfSet
<1>2. ReadIsNow
  BY DEF ImageInv, HalfRead, ReadIsNow
<1>. QED  BY <1>1, <1>2 DEF HalvesAgree

\* Steps that leave clock, registers and helpers alone.
LEMMA OtherStep ==
  ASSUME ImageInv, UNCHANGED time,
         pc' \in [Contexts -> MainPlaces \cup HandlerPlaces], mie' \in BOOLEAN,
         \A c \in Contexts : pc'[c] \in HelperPlaces \ {"read_hi"} => pc'[c] = pc[c],
         OneCaller'
  PROVE  ImageInv'
<1>1. ClintShape'
  BY DEF ImageInv, ClintShape, time, clint
<1>2. HalfRead'
  BY DEF ImageInv, HalfRead, ReadValue, time, clint, HelperPlaces
<1>3. HalfSet'
  BY DEF ImageInv, HalfSet, time, clint, HelperPlaces
<1>. QED  BY <1>1, <1>2, <1>3 DEF ImageInv

LEMMA ClockStep ==
  ASSUME ImageInv, MtimeCounts
  PROVE  ImageInv'
<1>1. mtime \in Nat /\ mtime < MaxTime /\ mtime' = mtime + 1 /\ MaxTime \in Nat
  BY BareMetalAssumption DEF ImageInv, ClintShape, MtimeCounts
<1>2. asked \in 0 .. mtime
  BY DEF ImageInv, ClintShape
<1>3. asked .. mtime \subseteq asked .. mtime'
  BY <1>1, <1>2
<1>4. UNCHANGED <<pc, mie, cmp, deadline, read, asked>>
  BY DEF MtimeCounts
<1>5. ClintShape' /\ OneCaller'
  BY <1>1, <1>2, <1>4 DEF ImageInv, ClintShape, OneCaller
<1>6. HalfRead'
  BY <1>3, <1>4 DEF ImageInv, HalfRead, ReadValue
<1>7. HalfSet'
  BY <1>4 DEF ImageInv, HalfSet
<1>. QED  BY <1>5, <1>6, <1>7 DEF ImageInv

\* Where a helper runs, the other context does not.
LEMMA Caller ==
  ASSUME ImageInv, NEW c \in Contexts, NEW p \in HelperPlaces, StepsAt(c, p)
  PROVE  /\ pc[c] = p
         /\ \A b \in Contexts \ {c} : pc[b] \notin HelperPlaces
         /\ c = "main" => ~mie
BY DEF ImageInv, OneCaller, ClintShape, StepsAt, Running, Contexts, HelperPlaces

LEMMA ReadStep ==
  ASSUME ImageInv, NEW c \in Contexts, ReadHi(c) \/ ReadLo(c) \/ ReadAgain(c)
  PROVE  ImageInv'
<1>1. ClintShape /\ OneCaller /\ HalfRead /\ HalfSet /\ mtime \in Nat /\ asked \in 0 .. mtime
  BY DEF ImageInv, ClintShape
<1>2. CASE ReadHi(c)
  <2>1. /\ pc[c] = "read_hi" /\ \A b \in Contexts \ {c} : pc[b] \notin HelperPlaces
        /\ pc' = [pc EXCEPT ![c] = "read_lo"]
        /\ read' = [read EXCEPT !.hi = Hi(mtime)] /\ asked' = mtime
        /\ UNCHANGED <<mie, mtime, cmp, deadline>>
    BY <1>2, Caller DEF ReadHi, Goto, HelperPlaces, clint
  <2>2. Hi(mtime) \in Nat
    BY <1>1, DigitsAre
  <2>3. ClintShape'
    <3>1. read' \in [hi : Nat, lo : Nat]
      BY <1>1, <2>1, <2>2 DEF ClintShape
    <3>2. asked' \in 0 .. mtime'
      BY <1>1, <2>1
    <3>3. pc' \in [Contexts -> MainPlaces \cup HandlerPlaces]
      BY <1>1, <2>1 DEF ClintShape, MainPlaces, HelperPlaces
    <3>. QED  BY <1>1, <2>1, <3>1, <3>2, <3>3 DEF ClintShape
  <2>4. OneCaller'
    BY <1>1, <2>1 DEF OneCaller, ClintShape, HelperPlaces, Contexts
  <2>5. HalfRead'
    BY <1>1, <2>1, <2>2 DEF HalfRead, ClintShape, HelperPlaces
  <2>6. HalfSet'
    BY <1>1, <2>1 DEF HalfSet, ClintShape, HelperPlaces
  <2>. QED  BY <2>3, <2>4, <2>5, <2>6 DEF ImageInv
<1>3. CASE ReadLo(c)
  <2>1. /\ pc[c] = "read_lo" /\ \A b \in Contexts \ {c} : pc[b] \notin HelperPlaces
        /\ pc' = [pc EXCEPT ![c] = "read_again"]
        /\ read' = [read EXCEPT !.lo = Lo(mtime)]
        /\ UNCHANGED <<mie, mtime, cmp, deadline, asked>>
    BY <1>3, Caller DEF ReadLo, Goto, HelperPlaces, clint
  <2>2. Lo(mtime) \in Nat /\ mtime \in asked .. mtime
    <3>1. Lo(mtime) \in 0 .. Base - 1 /\ Base \in Nat
      BY <1>1, DigitsAre, BareMetalAssumption
    <3>. QED  BY <1>1, <3>1
  <2>3. ClintShape'
    BY <1>1, <2>1, <2>2 DEF ClintShape, MainPlaces, HelperPlaces
  <2>4. OneCaller'
    BY <1>1, <2>1 DEF OneCaller, ClintShape, HelperPlaces, Contexts
  <2>5. HalfRead'
    <3>1. read'.hi = read.hi /\ read'.lo = Lo(mtime) /\ read.hi = Hi(asked)
      BY <1>1, <2>1 DEF ClintShape, HalfRead
    <3>2. /\ pc'[c] = "read_again"
          /\ \A b \in Contexts \ {c} : pc'[b] \notin HelperPlaces
      BY <1>1, <2>1 DEF ClintShape
    <3>. QED  BY <2>1, <2>2, <3>1, <3>2 DEF HalfRead, HelperPlaces
  <2>6. HalfSet'
    BY <1>1, <2>1 DEF HalfSet, ClintShape, HelperPlaces
  <2>. QED  BY <2>3, <2>4, <2>5, <2>6 DEF ImageInv
<1>4. CASE ReadAgain(c)
  <2>1. /\ pc[c] = "read_again" /\ \A b \in Contexts \ {c} : pc[b] \notin HelperPlaces
        /\ pc' = [pc EXCEPT ![c] = IF Hi(mtime) = read.hi THEN "set_ones" ELSE "read_hi"]
        /\ UNCHANGED <<mie, mtime, cmp, deadline, asked, read>>
    BY <1>4, Caller DEF ReadAgain, Goto, HelperPlaces, clint, time
  <2>2. /\ pc'[c] = IF Hi(mtime) = read.hi THEN "set_ones" ELSE "read_hi"
        /\ \A b \in Contexts \ {c} : pc'[b] \notin HelperPlaces
    BY <1>1, <2>1 DEF ClintShape
  <2>3. ASSUME Hi(mtime) = read.hi
        PROVE  ReadValue \in asked .. mtime
    <3>1. PICK t \in asked .. mtime : read.lo = Lo(t)
      BY <1>1, <2>1 DEF HalfRead
    <3>2. t \in Nat /\ asked \in Nat /\ asked <= t /\ t <= mtime
      BY <1>1, <3>1
    <3>3. Hi(asked) <= Hi(t) /\ Hi(t) <= Hi(mtime) /\ Hi(t) \in Nat
      BY <1>1, <3>2, HiMonotone, DigitsAre
    <3>4. Hi(t) = read.hi
      <4>1. read.hi = Hi(asked)
        BY <1>1, <2>1 DEF HalfRead
      <4>. QED  BY <1>1, <2>3, <3>2, <3>3, <4>1, DigitsAre
    <3>5. t = Hi(t) * Base + Lo(t)
      BY <3>2, DigitsAre
    <3>. QED  BY <3>1, <3>4, <3>5 DEF ReadValue
  <2>4. ClintShape'
    BY <1>1, <2>1 DEF ClintShape, MainPlaces, HelperPlaces
  <2>5. OneCaller'
    BY <1>1, <2>1 DEF OneCaller, ClintShape, HelperPlaces, Contexts
  <2>6. HalfRead'
    <3>1. ReadValue' = ReadValue
      BY <2>1 DEF ReadValue
    <3>2. pc'[c] = "set_ones" => ReadValue' \in asked' .. mtime'
      BY <2>1, <2>2, <2>3, <3>1
    <3>3. pc'[c] \notin {"read_lo", "read_again"}
      BY <2>2
    <3>. QED  BY <2>2, <3>2, <3>3 DEF HalfRead, HelperPlaces
  <2>7. HalfSet'
    <3>1. cmp' = cmp /\ deadline' = deadline
      BY <2>1
    <3>2. \A b \in Contexts : pc'[b] \notin {"set_lo", "set_hi"}
      BY <2>2 DEF HelperPlaces
    <3>. QED  BY <1>1, <3>1, <3>2 DEF HalfSet
  <2>. QED  BY <2>4, <2>5, <2>6, <2>7 DEF ImageInv
<1>. QED  BY <1>2, <1>3, <1>4

LEMMA SetStep ==
  ASSUME ImageInv, NEW c \in Contexts, SetOnes(c) \/ SetLo(c) \/ SetHi(c)
  PROVE  ImageInv'
<1>1. /\ ClintShape /\ OneCaller /\ HalfRead /\ HalfSet /\ mtime \in Nat
      /\ mtime <= MaxTime /\ asked \in 0 .. mtime
  BY BareMetalAssumption DEF ImageInv, ClintShape
<1>2. Base \in Nat \ {0} /\ MaxTime \in Nat /\ Interval \in Nat
  BY BareMetalAssumption
<1>3. CASE SetOnes(c)
  <2>1. /\ pc[c] = "set_ones" /\ \A b \in Contexts \ {c} : pc[b] \notin HelperPlaces
        /\ pc' = [pc EXCEPT ![c] = "set_lo"]
        /\ deadline' = ReadValue + Interval /\ cmp' = [cmp EXCEPT !.hi = Base - 1]
        /\ UNCHANGED <<mie, mtime, asked, read>>
    BY <1>3, Caller DEF SetOnes, Goto, HelperPlaces
  <2>2. ReadValue \in asked .. mtime
    BY <1>1, <2>1 DEF HalfRead
  <2>. DEFINE v == ReadValue
  <2>0. deadline' = v + Interval /\ v \in Nat /\ v <= mtime
    BY <1>1, <2>1, <2>2
  <2>. HIDE DEF v
  <2>3. deadline' \in Nat /\ deadline' <= MaxTime + Interval
    BY <1>1, <1>2, <2>0
  <2>4. ClintShape'
    <3>1. cmp' \in [hi : 0 .. Base - 1, lo : 0 .. Base - 1]
      BY <1>1, <1>2, <2>1 DEF ClintShape
    <3>2. pc' \in [Contexts -> MainPlaces \cup HandlerPlaces]
      BY <1>1, <2>1 DEF ClintShape, MainPlaces, HelperPlaces
    <3>. QED  BY <1>1, <2>1, <2>3, <3>1, <3>2 DEF ClintShape
  <2>5. OneCaller'
    BY <1>1, <2>1 DEF OneCaller, ClintShape, HelperPlaces, Contexts
  <2>6. HalfRead'
    BY <1>1, <2>1 DEF HalfRead, ClintShape, HelperPlaces
  <2>7. HalfSet'
    BY <1>1, <2>1, <2>3 DEF HalfSet, ClintShape, HelperPlaces
  <2>. QED  BY <2>4, <2>5, <2>6, <2>7 DEF ImageInv
<1>4. CASE SetLo(c)
  <2>1. /\ pc[c] = "set_lo" /\ \A b \in Contexts \ {c} : pc[b] \notin HelperPlaces
        /\ pc' = [pc EXCEPT ![c] = "set_hi"]
        /\ cmp' = [cmp EXCEPT !.lo = Lo(deadline)]
        /\ UNCHANGED <<mie, mtime, asked, read, deadline>>
    BY <1>4, Caller DEF SetLo, Goto, HelperPlaces
  <2>2. Lo(deadline) \in 0 .. Base - 1 /\ cmp.hi = Base - 1 /\ deadline <= MaxTime + Interval
    BY <1>1, <2>1, DigitsAre DEF ClintShape, HalfSet
  <2>3. ClintShape'
    BY <1>1, <2>1, <2>2 DEF ClintShape, MainPlaces, HelperPlaces
  <2>4. OneCaller'
    BY <1>1, <2>1 DEF OneCaller, ClintShape, HelperPlaces, Contexts
  <2>5. HalfRead'
    BY <1>1, <2>1 DEF HalfRead, ClintShape, HelperPlaces
  <2>6. HalfSet'
    BY <1>1, <2>1, <2>2 DEF HalfSet, ClintShape, HelperPlaces
  <2>. QED  BY <2>3, <2>4, <2>5, <2>6 DEF ImageInv
<1>5. CASE SetHi(c)
  <2>1. /\ pc[c] = "set_hi" /\ \A b \in Contexts \ {c} : pc[b] \notin HelperPlaces
        /\ pc' = [pc EXCEPT ![c] = IF c = "main" THEN "enable" ELSE "count"]
        /\ cmp' = [cmp EXCEPT !.hi = Hi(deadline)] /\ (c = "main" => ~mie)
        /\ UNCHANGED <<mie, mtime, asked, read, deadline>>
    BY <1>5, Caller DEF SetHi, Goto, HelperPlaces
  <2>2. cmp.lo = Lo(deadline) /\ deadline <= MaxTime + Interval /\ deadline \in Nat
    BY <1>1, <2>1 DEF ClintShape, HalfSet
  <2>3. Hi(deadline) \in 0 .. Base - 1 /\ deadline = Hi(deadline) * Base + Lo(deadline)
    BY <2>2, HiBelow, DigitsAre
  <2>. DEFINE h == Hi(deadline)
  <2>4. ClintShape'
    <3>1. cmp' \in [hi : 0 .. Base - 1, lo : 0 .. Base - 1]
      <4>1. cmp' = [cmp EXCEPT !.hi = h] /\ h \in 0 .. Base - 1
        BY <2>1, <2>3
      <4>. HIDE DEF h
      <4>. QED  BY <1>1, <4>1 DEF ClintShape
    <3>2. pc' \in [Contexts -> MainPlaces \cup HandlerPlaces]
      BY <1>1, <2>1 DEF ClintShape, MainPlaces, HandlerPlaces
    <3>. QED  BY <1>1, <2>1, <3>1, <3>2 DEF ClintShape
  <2>5. OneCaller'
    BY <1>1, <2>1 DEF OneCaller, ClintShape, HelperPlaces, Contexts
  <2>6. \A b \in Contexts : pc'[b] \notin HelperPlaces
    BY <1>1, <2>1 DEF ClintShape, HelperPlaces
  <2>7. HalfRead'
    BY <2>6 DEF HalfRead, HelperPlaces
  <2>8. cmp'.hi * Base + cmp'.lo = deadline'
    <3>1. cmp'.hi = h /\ cmp'.lo = Lo(deadline) /\ deadline' = deadline
      <4>1. cmp' = [cmp EXCEPT !.hi = h]
        BY <2>1
      <4>. HIDE DEF h
      <4>. QED  BY <1>1, <2>1, <2>2, <4>1 DEF ClintShape
    <3>. QED  BY <2>3, <3>1
  <2>9. HalfSet'
    BY <2>6, <2>8 DEF HalfSet, HelperPlaces
  <2>. QED  BY <2>4, <2>5, <2>7, <2>9 DEF ImageInv
<1>. QED  BY <1>3, <1>4, <1>5

LEMMA MainStep ==
  ASSUME ImageInv, Main
  PROVE  ImageInv'
<1>1. ClintShape /\ OneCaller
  BY DEF ImageInv
<1>2. PICK p \in MainPlaces \ HelperPlaces : pc' = [pc EXCEPT !["main"] = p] /\ p # "enable"
  BY DEF Main, EnableIrqs, Note, Check, Show, DmaStart, DmaCheck, WfiGoesTo, Goto, MainPlaces,
         HelperPlaces
<1>3. UNCHANGED time /\ pc["main"] \notin HelperPlaces /\ "main" \in Contexts
  BY DEF Main, EnableIrqs, Note, Check, Show, DmaStart, DmaCheck, WfiGoesTo, StepsAt, HelperPlaces,
         Contexts
<1>4. mie' = mie \/ mie' = TRUE
  <2>1. mie \in BOOLEAN
    BY <1>1 DEF ClintShape
  <2>. QED  BY <2>1 DEF Main, EnableIrqs, Note, Check, Show, DmaStart, DmaCheck, WfiGoesTo
<1>5. /\ pc' \in [Contexts -> MainPlaces \cup HandlerPlaces] /\ mie' \in BOOLEAN
      /\ pc'["main"] = p /\ \A c \in Contexts \ {"main"} : pc'[c] = pc[c]
  BY <1>1, <1>2, <1>3, <1>4 DEF ClintShape
<1>6. OneCaller'
  BY <1>1, <1>2, <1>4, <1>5 DEF OneCaller, Contexts
<1>. QED  BY <1>2, <1>3, <1>5, <1>6, OtherStep

LEMMA HandlerStep ==
  ASSUME ImageInv, TakeIrq \/ Counts \/ DmaHandler
  PROVE  ImageInv'
<1>1. ClintShape /\ OneCaller
  BY DEF ImageInv
<1>2. PICK p \in {"external", "read_hi", "none"} : pc' = [pc EXCEPT !["handler"] = p]
  BY DEF TakeIrq, Counts, DmaHandler, Goto
<1>3. UNCHANGED time /\ mie' = mie /\ "handler" \in Contexts
  BY DEF TakeIrq, Counts, DmaHandler, Contexts
<1>4. mie
  BY <1>1 DEF TakeIrq, Counts, DmaHandler, Interrupted, StepsAt, OneCaller, ClintShape
<1>5. /\ pc' \in [Contexts -> MainPlaces \cup HandlerPlaces] /\ mie' \in BOOLEAN
      /\ pc'["handler"] = p /\ \A c \in Contexts \ {"handler"} : pc'[c] = pc[c]
  BY <1>1, <1>2, <1>3 DEF ClintShape, HandlerPlaces, HelperPlaces
<1>6. OneCaller'
  BY <1>1, <1>3, <1>4, <1>5 DEF OneCaller, Contexts
<1>. QED  BY <1>2, <1>3, <1>5, <1>6, OtherStep DEF HelperPlaces

LEMMA QuietStep ==
  ASSUME ImageInv, DmaEnds \/ Wakes \/ UNCHANGED imageVars
  PROVE  ImageInv'
<1>1. UNCHANGED <<time, pc, mie>>
  BY DEF DmaEnds, Wakes, imageVars
<1>2. OneCaller'
  BY <1>1 DEF ImageInv, OneCaller
<1>. QED  BY <1>1, <1>2, OtherStep DEF ImageInv, ClintShape

(* Neither the comparator nor a program ever sees a value of a 64-bit      *)
(* register that nobody meant, although it is set and read in two halves   *)
(* while the clock runs: for any base of the digits, any interval, and any *)
(* number of carries; the reader may have to read again without end.       *)
THEOREM HalvesAlwaysAgree == ImageSpec => []HalvesAgree
<1>1. ImageInv /\ [ImageNext]_imageVars => ImageInv'
  BY ClockStep, ReadStep, SetStep, MainStep, HandlerStep, QuietStep
     DEF ImageNext, Software, Helpers
<1>. QED  BY ImageInitially, <1>1, ImageInvAgrees, PTL DEF ImageSpec
-----------------------------------------------------------------------------
(* Clocks, resets and the watchdog: the invariant.                         *)

CorePlaces == {"main", "store", "doze", "wfi", "done", "tick", "claim", "serve", "complete"}
Loads(c) == /\ c[1] \in {"set", "clear"}
            /\ \/ c[2] = "CLK_EN" /\ c[3] \subseteq Domains
               \/ c[2] = "WAKE_EN" /\ c[3] \subseteq Sources
LoadedFrom(reg) == IF reg = "CLK_EN" THEN Domains ELSE Sources

\* Where the core is, and what it has loaded for a store.
CoreInv ==
  /\ program \in Loaded /\ step \in Nat \ {0}
  /\ at \in {"boot"} \cup CorePlaces /\ back \in {"main", "store", "doze"}
  /\ at = "store" \/ back = "store" => Loads(call) /\ got \subseteq LoadedFrom(call[2])
  /\ gap \in 0 .. (IF at = "boot" THEN BootCycles ELSE Gap)

RegTypes ==
  /\ hold \in 0 .. Pulse /\ clk \subseteq Domains /\ wakeEn \subseteq Sources
  /\ wakeStatus \subseteq Sources /\ edges \subseteq {"uart", "gpio"}
  /\ pulse \in [Domains -> 0 .. Pulse] /\ release \in [Domains -> 0 .. 2]
  /\ synced \in [Domains -> 0 .. 2]
  /\ wdt.count \in Timeouts /\ wdt.timeout \in Timeouts /\ wdt.locked \in BOOLEAN
  /\ coreEn \in BOOLEAN /\ sleep = ~coreEn

\* While the core boots every domain has its clock, and by the end of it has
\* left its reset.
Booting ==
  at = "boot" => /\ clk = Domains /\ ~wdt.locked
                 /\ \A d \in Domains : pulse[d] = 0 /\ release[d] = 0
                 /\ hold > 0 => gap = 0
                 /\ hold = 0 => \A d \in Domains : synced[d] = 2 \/ synced[d] >= gap

\* From then on, a domain that is not being reset has left its reset, or keeps
\* its clock for the edges that are missing.
Booted ==
  at # "boot" => /\ hold = 0
                 /\ \A d \in Domains : pulse[d] > 0 \/ synced[d] + release[d] >= 2

Locked == wdt.locked => pulse["wdt"] = 0 /\ synced["wdt"] = 2

SysInv == CoreInv /\ RegTypes /\ Booting /\ Booted /\ Locked

-----------------------------------------------------------------------------
(* What the core asks for.                                                 *)

\* The data that go to a register fit it.
Fits(acc) ==
  /\ acc[1] = "CLK_EN" => acc[2] \subseteq Domains
  /\ acc[1] = "WAKE_EN" => acc[2] \subseteq Sources
  /\ acc[1] = "TIMEOUT" => acc[2] \in Timeouts

LEMMA HelpersFit ==
  ASSUME NEW c \in HelperCall
  PROVE  /\ c[1] \in {"set", "clear"} => Loads(c)
         /\ c[1] \in {"store", "doze"} => Fits(<<c[2], c[3]>>)
<1>1. CASE \E m \in SUBSET Domains : c = ClkEnable(m) \/ c = ClkDisable(m)
  BY <1>1 DEF ClkEnable, ClkDisable, Loads, Fits
<1>2. CASE \E m \in SUBSET Domains : c = PeripheralReset(m)
  BY <1>2 DEF PeripheralReset, Loads, Fits
<1>3. CASE \E m \in SUBSET Sources : c = WakeEnable(m) \/ c = WakeDisable(m)
  BY <1>3 DEF WakeEnable, WakeDisable, Loads, Fits
<1>4. CASE \E m \in SUBSET Sources : c = WakeStatusClear(m)
  BY <1>4 DEF WakeStatusClear, Loads, Fits
<1>5. CASE \E n \in Timeouts : c = WdtSetTimeout(n) \/ c = WdtSetPretimeout(n)
  BY <1>5 DEF WdtSetTimeout, WdtSetPretimeout, Loads, Fits
<1>6. CASE c \in {WfiSleepEnable(TRUE), WfiSleepEnable(FALSE), EnterSleep, SoftReset, Wfi,
                  SetTimer}
  BY <1>6 DEF WfiSleepEnable, EnterSleep, SoftReset, SetTimer, Wfi, Loads, Fits
<1>7. CASE c \in {WdtEnable, WdtDisable, WdtFeed, WdtLock, WdtClearPretimeout}
  BY <1>7 DEF WdtEnable, WdtDisable, WdtFeed, WdtLock, WdtClearPretimeout, Loads, Fits
<1>. QED  BY <1>1, <1>2, <1>3, <1>4, <1>5, <1>6, <1>7 DEF HelperCall

Text == [start : Seq(HelperCall), free : SUBSET HelperCall, pins : SUBSET {"uart", "gpio"},
         irqs : SUBSET {"mtip", "wdt"}, resets : BOOLEAN]

LEMMA ProgramText ==
  ASSUME program \in Loaded
  PROVE  Program \in Text
<1>1. WdtSmoke \in Text
  <2>1. {WdtSetTimeout(Timeout), WdtSetPretimeout(Pre), WdtEnable, WdtFeed} \subseteq HelperCall
    <3>1. Timeout \in Timeouts /\ Pre \in Timeouts
      BY SystemControlAssumption DEF Timeouts
    <3>. QED  BY <3>1 DEF HelperCall
  <2>. HIDE DEF HelperCall
  <2>. QED  BY <2>1 DEF WdtSmoke, Text
<1>2. LowPower \in Text
  <2>1. {WfiSleepEnable(TRUE), SetTimer, Wfi} \subseteq HelperCall
    BY DEF HelperCall
  <2>. DEFINE auto_on == WfiSleepEnable(TRUE)
  <2>2. LowPower = [start |-> <<auto_on, SetTimer>>, free |-> {Wfi}, pins |-> {},
                    irqs |-> {"mtip"}, resets |-> FALSE]
    BY DEF LowPower
  <2>3. auto_on \in HelperCall /\ SetTimer \in HelperCall /\ Wfi \in HelperCall
    BY <2>1
  <2>. HIDE DEF auto_on
  <2>. QED  BY <2>2, <2>3 DEF Text
<1>3. CASE program \in {"wdt_smoke", "low_power"}
  BY <1>1, <1>2, <1>3 DEF Program
<1>4. CASE program \notin {"wdt_smoke", "low_power"}
  <2>1. Program = Clients[program]
    BY <1>4 DEF Program
  <2>. QED  BY <1>4, <2>1, ClientsAssumption DEF Text
<1>. QED  BY <1>3, <1>4

LEMMA CallsFit ==
  ASSUME CoreInv, NEW c \in Calls
  PROVE  c \in HelperCall
<1>1. Program \in Text /\ step \in Nat \ {0}
  BY ProgramText DEF CoreInv
<1>2. Program.start \in Seq(HelperCall) /\ Program.free \subseteq HelperCall
  BY <1>1 DEF Text
<1>. HIDE DEF HelperCall, Program, Text
<1>3. CASE Started
  BY <1>2, <1>3 DEF Calls
<1>4. CASE ~Started
  BY <1>1, <1>2, <1>4 DEF Calls, Started
<1>. QED  BY <1>3, <1>4
\* What a cycle does to the core, and to the registers through it.
CoreMoves(acc) ==
  /\ Fits(acc)
  /\ \/ at # "boot" /\ at' # "boot"
     \/ /\ at = "boot" /\ acc = Nothing
        /\ \/ hold > 0 /\ at' = "boot" /\ gap' = gap
           \/ hold = 0 /\ gap < BootCycles /\ gap' = gap + 1 /\ at' = "boot"
           \/ hold = 0 /\ gap = BootCycles /\ at' = "main"

LEMMA NothingFits == Fits(Nothing)
BY DEF Fits, Nothing

\* The core goes on to another place.
LEMMA GoesOn ==
  ASSUME CoreInv, RegTypes, at # "boot", NEW where \in CorePlaces, Goes(where), UNCHANGED program,
         step' \in Nat \ {0}, back' \in {"main", "store", "doze"},
         where = "store" \/ back' = "store" => Loads(call') /\ got' \subseteq LoadedFrom(call'[2]),
         NEW acc, Fits(acc)
  PROVE  CoreInv' /\ CoreMoves(acc)
<1>1. at' = where /\ gap' = 0 /\ "boot" \notin CorePlaces /\ Gap \in Nat
  BY SystemControlAssumption DEF Goes, CorePlaces
<1>. QED  BY <1>1 DEF CoreInv, CoreMoves

LEMMA WaitsStep ==
  ASSUME CoreInv, RegTypes, Waits, Stays, UNCHANGED program
  PROVE  CoreInv' /\ CoreMoves(Nothing)
<1>1. /\ UNCHANGED <<step, back, call, got, program>> /\ Fits(Nothing)
      /\ "boot" \notin CorePlaces /\ "main" \in CorePlaces /\ Gap \in Nat /\ BootCycles = 4
      /\ hold \in Nat
  BY NothingFits, SystemControlAssumption DEF Stays, CorePlaces, BootCycles, RegTypes
<1>2. CASE at = "boot"
  <2>1. \/ hold > 0 /\ UNCHANGED <<at, gap>>
        \/ hold = 0 /\ gap < BootCycles /\ gap' = gap + 1 /\ UNCHANGED at
        \/ hold = 0 /\ gap >= BootCycles /\ at' = "main" /\ gap' = 0
    BY <1>1, <1>2 DEF Waits, CoreRuns, Steps, Goes, CoreInv
  <2>2. gap \in 0 .. BootCycles
    BY <1>2 DEF CoreInv
  <2>. QED  BY <1>1, <1>2, <2>1, <2>2 DEF CoreInv, CoreMoves
<1>3. CASE at # "boot"
  <2>1. at' = at /\ (gap' = gap \/ (gap < Gap /\ gap' = gap + 1))
    BY <1>3 DEF Waits
  <2>. QED  BY <1>1, <1>3, <2>1 DEF CoreInv, CoreMoves
<1>. QED  BY <1>2, <1>3

LEMMA CallStep ==
  ASSUME CoreInv, RegTypes, NEW c \in Calls, Steps("main"), UNCHANGED program
  PROVE  /\ Load(c) => CoreInv' /\ CoreMoves(Nothing)
         /\ c[1] = "store" /\ Made("main") => CoreInv' /\ CoreMoves(<<c[2], c[3]>>)
         /\ c[1] = "doze" /\ Made("doze") => CoreInv' /\ CoreMoves(<<c[2], c[3]>>)
<1>1. /\ at = "main" /\ at # "boot" /\ step \in Nat \ {0} /\ back \in {"main", "store", "doze"}
      /\ {"main", "store", "doze"} \subseteq CorePlaces
      /\ back = "store" => Loads(call) /\ got \subseteq LoadedFrom(call[2])
  BY DEF Steps, CoreInv, CorePlaces
<1>2. /\ c[1] \in {"set", "clear"} => Loads(c)
      /\ c[1] \in {"store", "doze"} => Fits(<<c[2], c[3]>>)
  BY CallsFit, HelpersFit
<1>3. ASSUME Load(c) PROVE CoreInv' /\ CoreMoves(Nothing)
  <2>1. /\ call' = c /\ got' = (IF c[2] = "CLK_EN" THEN clk ELSE wakeEn) /\ Goes("store")
        /\ UNCHANGED <<step, back>> /\ Loads(c)
    BY <1>2, <1>3 DEF Load
  <2>2. got' \subseteq LoadedFrom(call'[2])
    BY <2>1 DEF RegTypes, LoadedFrom
  <2>. QED  BY <1>1, <2>1, <2>2, GoesOn, NothingFits
<1>4. ASSUME NEW where \in {"main", "doze"}, c[1] \in {"store", "doze"}, Made(where)
      PROVE CoreInv' /\ CoreMoves(<<c[2], c[3]>>)
  <2>1. Goes(where) /\ UNCHANGED <<back, call, got>> /\ step' \in Nat \ {0}
    BY <1>1, <1>4 DEF Made
  <2>. QED  BY <1>1, <1>2, <1>4, <2>1, GoesOn
<1>. QED  BY <1>3, <1>4

\* A handler, or the second half of a helper.
LEMMA ElsewhereStep ==
  ASSUME CoreInv, RegTypes, at # "boot", NEW where \in CorePlaces, Goes(where), UNCHANGED program,
         \/ step' = step
         \/ step' = IF Started THEN step ELSE step + 1,
         \/ UNCHANGED back /\ (where = "store" => back = "store")
         \/ back' = at /\ at \in {"main", "store", "doze"} /\ where # "store",
         UNCHANGED <<call, got>>, NEW acc, Fits(acc)
  PROVE  CoreInv' /\ CoreMoves(acc)
<1>1. step' \in Nat \ {0} /\ back' \in {"main", "store", "doze"}
  BY DEF CoreInv
<1>2. where = "store" \/ back' = "store" => Loads(call') /\ got' \subseteq LoadedFrom(call'[2])
  BY DEF CoreInv
<1>. QED  BY <1>1, <1>2, GoesOn

LEMMA MergedFits ==
  ASSUME CoreInv, at = "store"
  PROVE  Fits(<<call[2], Merged>>)
<1>1. Loads(call) /\ got \subseteq LoadedFrom(call[2])
  BY DEF CoreInv
<1>. QED  BY <1>1 DEF Loads, LoadedFrom, Merged, Fits

LEMMA CycleStep ==
  ASSUME CoreInv, RegTypes, NEW e, Cycle(e)
  PROVE  CoreInv' /\ \E acc : ClockEdge(acc, e) /\ CoreMoves(acc)
<1>1. /\ UNCHANGED program
      /\ "boot" \notin CorePlaces /\ {"main", "store", "doze"} \subseteq CorePlaces
      /\ {"tick", "claim", "serve", "complete", "done", "wfi"} \subseteq CorePlaces
      /\ back \in {"main", "store", "doze"}
  BY DEF Cycle, ClockEdge, CorePlaces, CoreInv
<1>2. CASE Waits /\ Stays /\ ClockEdge(Nothing, e)
  BY <1>1, <1>2, WaitsStep
<1>3. CASE Steps("store") /\ Made("main") /\ ClockEdge(<<call[2], Merged>>, e)
  <2>1. at = "store" /\ Goes("main") /\ UNCHANGED <<back, call, got>>
        /\ step' = IF Started THEN step ELSE step + 1
    BY <1>3 DEF Steps, Made
  <2>. QED  BY <1>1, <1>3, <2>1, MergedFits, ElsewhereStep
<1>4. ASSUME NEW c \in Calls, Steps("main"),
             \/ Load(c) /\ ClockEdge(Nothing, e)
             \/ c[1] = "store" /\ Made("main") /\ ClockEdge(<<c[2], c[3]>>, e)
             \/ c[1] = "doze" /\ Made("doze") /\ ClockEdge(<<c[2], c[3]>>, e)
      PROVE CoreInv' /\ \E acc : ClockEdge(acc, e) /\ CoreMoves(acc)
  BY <1>1, <1>4, CallStep
<1>5. CASE \E place \in {"main", "doze"} : Steps(place) /\ Dozes /\ Stays /\ ClockEdge(Nothing, e)
  <2>1. PICK where \in {"main", "wfi"} : Goes(where)
    BY <1>5 DEF Dozes
  <2>2. at # "boot" /\ UNCHANGED <<step, back, call, got>> /\ ClockEdge(Nothing, e)
    BY <1>5 DEF Steps, Stays
  <2>. QED  BY <1>1, <2>1, <2>2, NothingFits, ElsewhereStep
<1>6. CASE at = "wfi" /\ Goes("main") /\ Stays /\ ClockEdge(Nothing, e)
  <2>1. UNCHANGED <<step, back, call, got>>
    BY <1>6 DEF Stays
  <2>. QED  BY <1>1, <1>6, <2>1, NothingFits, ElsewhereStep
<1>7. CASE /\ CoreRuns /\ Takes /\ back' = at /\ Goes(IF plic = "visible" THEN "claim" ELSE "tick")
           /\ UNCHANGED <<step, call, got>> /\ ClockEdge(Nothing, e)
  <2>1. PICK where \in {"claim", "tick"} : Goes(where)
    BY <1>7
  <2>2. at \in {"main", "store", "doze"}
    BY <1>7 DEF Takes
  <2>. QED  BY <1>1, <1>7, <2>1, <2>2, NothingFits, ElsewhereStep
<1>8. ASSUME NEW from \in {"tick", "claim", "serve", "complete"}, NEW where, NEW acc,
             Steps(from), Goes(where), Stays, ClockEdge(acc, e), Fits(acc),
             where \in {"serve", "complete", "done", back}
      PROVE CoreInv' /\ \E a : ClockEdge(a, e) /\ CoreMoves(a)
  <2>1. at # "boot" /\ UNCHANGED <<step, back, call, got>> /\ where \in CorePlaces
        /\ (where = "store" => back = "store")
    BY <1>1, <1>8 DEF Steps, Stays
  <2>. QED  BY <1>1, <1>8, <2>1, ElsewhereStep
<1>9. /\ Fits(<<"MTIMECMP", Never>>) /\ Fits(<<"CLAIM", {}>>) /\ Fits(<<"FEED", {}>>)
      /\ Fits(<<"COMPLETE", {}>>) /\ Returns \in {"done", back}
  BY DEF Fits, Returns
<1>10. CASE \/ Steps("tick") /\ Goes(Returns) /\ Stays /\ ClockEdge(<<"MTIMECMP", Never>>, e)
            \/ Steps("claim") /\ Goes("serve") /\ Stays /\ ClockEdge(<<"CLAIM", {}>>, e)
            \/ Steps("serve") /\ Goes("complete") /\ Stays /\ ClockEdge(<<"FEED", {}>>, e)
            \/ Steps("complete") /\ Goes(back) /\ Stays /\ ClockEdge(<<"COMPLETE", {}>>, e)
  BY <1>8, <1>9, <1>10
<1>. QED  BY <1>2, <1>3, <1>4, <1>5, <1>6, <1>7, <1>10 DEF Cycle
-----------------------------------------------------------------------------
(* What the clock edge does to the registers.                              *)

\* A domain that has its clock counts its way out of reset.
LEMMA DomainEdge ==
  ASSUME RegTypes, NEW acc, DomainResets(acc), Synchronizers, NEW d \in Domains
  PROVE  /\ pulse'[d] = (IF d \in ResetRequests(acc) THEN Pulse
                         ELSE IF pulse[d] > 0 THEN pulse[d] - 1 ELSE 0)
         /\ release'[d] = (IF d \in ResetRequests(acc) THEN 0
                           ELSE IF pulse[d] = 1 THEN 2
                           ELSE IF release[d] > 0 THEN release[d] - 1 ELSE 0)
         /\ synced'[d] = (IF hold > 0 \/ pulse[d] > 0 THEN 0
                          ELSE IF ClkOn(d) /\ synced[d] < 2 THEN synced[d] + 1
                          ELSE synced[d])
         /\ pulse[d] \in 0 .. Pulse /\ release[d] \in 0 .. 2 /\ synced[d] \in 0 .. 2
         /\ pulse'[d] \in 0 .. Pulse /\ release'[d] \in 0 .. 2 /\ synced'[d] \in 0 .. 2
         /\ d \in clk \/ release[d] > 0 => ClkOn(d)
<1>1. Pulse \in Nat /\ pulse[d] \in 0 .. Pulse /\ release[d] \in 0 .. 2 /\ synced[d] \in 0 .. 2
  BY SystemControlAssumption DEF RegTypes
<1>2. pulse'[d] = IF d \in ResetRequests(acc) THEN Pulse
                  ELSE IF pulse[d] > 0 THEN pulse[d] - 1 ELSE 0
  BY DEF DomainResets
<1>3. release'[d] = IF d \in ResetRequests(acc) THEN 0
                    ELSE IF pulse[d] = 1 THEN 2
                    ELSE IF release[d] > 0 THEN release[d] - 1 ELSE 0
  BY DEF DomainResets, ReleaseCycles
<1>4. synced'[d] = IF hold > 0 \/ pulse[d] > 0 THEN 0
                   ELSE IF ClkOn(d) /\ synced[d] < 2 THEN synced[d] + 1
                   ELSE synced[d]
  BY DEF Synchronizers, Asserted
<1>5. d \in clk \/ release[d] > 0 => ClkOn(d)
  BY DEF ClkOn
<1>6. pulse'[d] \in 0 .. Pulse /\ release'[d] \in 0 .. 2 /\ synced'[d] \in 0 .. 2
  BY <1>1, <1>2, <1>3, <1>4
<1>. QED  BY <1>1, <1>2, <1>3, <1>4, <1>5, <1>6

\* The watchdog's registers after an edge.
LEMMA WdtTypes ==
  ASSUME RegTypes, NEW acc, Fits(acc), wdt' = WdtNext(acc)
  PROVE  /\ wdt'.count \in Timeouts /\ wdt'.timeout \in Timeouts /\ wdt'.locked \in BOOLEAN
         /\ wdt'.locked => ~InReset("wdt")
         /\ wdt'.locked => wdt.locked \/ acc[1] = "LOCK"
<1>. DEFINE t == IF wdt.locked THEN wdt.timeout ELSE Stored(acc, "TIMEOUT", wdt.timeout)
<1>1. /\ wdt.count \in 0 .. Timeout /\ wdt.timeout \in 0 .. Timeout /\ wdt.locked \in BOOLEAN
      /\ Timeout \in Nat
  BY SystemControlAssumption DEF RegTypes, Timeouts
<1>2. t \in 0 .. Timeout /\ Counted \in 0 .. Timeout
  BY <1>1 DEF Stored, Fits, Timeouts, Counted
<1>3. /\ WdtEdge(acc).timeout = t
      /\ WdtEdge(acc).count \in {wdt.timeout, Counted}
      /\ WdtEdge(acc).locked = (wdt.locked \/ acc[1] = "LOCK")
  BY DEF WdtEdge
<1>4. WdtReset.count = Timeout /\ WdtReset.timeout = Timeout /\ WdtReset.locked = FALSE
  BY DEF WdtReset
<1>5. wdt' = IF InReset("wdt") THEN WdtReset ELSE IF ClkOn("wdt") THEN WdtEdge(acc) ELSE wdt
  BY DEF WdtNext
<1>. HIDE DEF t
<1>6. CASE InReset("wdt")
  <2>1. wdt' = WdtReset
    BY <1>5, <1>6
  <2>2. wdt'.count = Timeout /\ wdt'.timeout = Timeout /\ wdt'.locked = FALSE
    BY <1>4, <2>1
  <2>3. Timeout \in Timeouts
    BY <1>1 DEF Timeouts
  <2>. QED  BY <2>2, <2>3
<1>7. CASE ~InReset("wdt") /\ ClkOn("wdt")
  <2>1. wdt' = WdtEdge(acc)
    BY <1>5, <1>7
  <2>. QED  BY <1>1, <1>2, <1>3, <1>7, <2>1 DEF Timeouts
<1>8. CASE ~InReset("wdt") /\ ~ClkOn("wdt")
  BY <1>1, <1>5, <1>8 DEF Timeouts
<1>. QED  BY <1>6, <1>7, <1>8

LEMMA RegTypesStep ==
  ASSUME CoreInv, RegTypes, NEW acc, Fits(acc), NEW e \in SUBSET Program.pins, ClockEdge(acc, e)
  PROVE  RegTypes'
<1>1. Program.pins \subseteq {"uart", "gpio"}
  BY ProgramText DEF CoreInv, Text
<1>2. hold' \in 0 .. Pulse /\ clk' \subseteq Domains /\ wakeEn' \subseteq Sources
      /\ edges' \subseteq {"uart", "gpio"}
  BY <1>1, SystemControlAssumption DEF ClockEdge, RegTypes, Stored, Fits
<1>3. wakeStatus' \subseteq Sources
  BY DEF ClockEdge, WakeStatusNext, Hits, RegTypes
<1>4. /\ pulse' \in [Domains -> 0 .. Pulse] /\ release' \in [Domains -> 0 .. 2]
      /\ synced' \in [Domains -> 0 .. 2]
  <2>1. DomainResets(acc) /\ Synchronizers
    BY DEF ClockEdge
  <2>2. \A d \in Domains : /\ pulse'[d] \in 0 .. Pulse /\ release'[d] \in 0 .. 2
                           /\ synced'[d] \in 0 .. 2
    BY <2>1, DomainEdge
  <2>3. /\ pulse' = [d \in Domains |-> pulse'[d]] /\ release' = [d \in Domains |-> release'[d]]
        /\ synced' = [d \in Domains |-> synced'[d]]
    BY <2>1 DEF DomainResets, Synchronizers
  <2>. QED  BY <2>2, <2>3
<1>5. /\ wdt'.count \in Timeouts /\ wdt'.timeout \in Timeouts /\ wdt'.locked \in BOOLEAN
  BY WdtTypes DEF ClockEdge
<1>6. coreEn' \in BOOLEAN /\ sleep' = ~coreEn'
  <2>1. Awakes \in BOOLEAN
    BY DEF Awakes, IrqPin, Mtimer
  <2>. QED  BY <2>1 DEF ClockEdge, Handshake, RegTypes, Enters
<1>. QED  BY <1>2, <1>3, <1>4, <1>5, <1>6 DEF RegTypes

LEMMA SysClockStep ==
  ASSUME SysInv, NEW acc, CoreMoves(acc), NEW e \in SUBSET Program.pins, ClockEdge(acc, e)
  PROVE  RegTypes' /\ Booting' /\ Booted' /\ Locked'
<1>1. CoreInv /\ RegTypes /\ Booting /\ Booted /\ Locked /\ Fits(acc)
  BY DEF SysInv, CoreMoves
<1>2. RegTypes'
  BY <1>1, RegTypesStep
<1>3. /\ DomainResets(acc) /\ Synchronizers /\ wdt' = WdtNext(acc)
      /\ hold' = (IF hold > 0 THEN hold - 1 ELSE 0)
      /\ clk' = Stored(acc, "CLK_EN", clk)
  BY DEF ClockEdge
<1>4. hold \in Nat /\ BootCycles = 4 /\ Pulse \in Nat \ {0}
  BY <1>1, SystemControlAssumption DEF RegTypes, BootCycles
<1>5. /\ wdt'.locked \in BOOLEAN /\ wdt.locked \in BOOLEAN
      /\ wdt'.locked => ~InReset("wdt")
      /\ wdt'.locked => wdt.locked \/ acc[1] = "LOCK"
  BY <1>1, <1>3, WdtTypes DEF RegTypes
<1>6. CASE at = "boot"
  <2>1. /\ acc = Nothing
        /\ \/ hold > 0 /\ at' = "boot" /\ gap' = gap
           \/ hold = 0 /\ gap < BootCycles /\ gap' = gap + 1 /\ at' = "boot"
           \/ hold = 0 /\ gap = BootCycles /\ at' = "main"
        /\ gap \in 0 .. BootCycles
    BY <1>1, <1>6 DEF CoreMoves, CoreInv
  <2>2. /\ clk = Domains /\ ~wdt.locked
        /\ \A d \in Domains : pulse[d] = 0 /\ release[d] = 0
        /\ hold > 0 => gap = 0
        /\ hold = 0 => \A d \in Domains : synced[d] = 2 \/ synced[d] >= gap
    BY <1>1, <1>6 DEF Booting
  <2>3. clk' = Domains /\ ~wdt'.locked /\ ResetRequests(acc) = {}
    BY <1>3, <1>5, <2>1, <2>2 DEF Stored, Nothing, ResetRequests
  <2>4. \A d \in Domains :
          /\ pulse'[d] = 0 /\ release'[d] = 0
          /\ synced'[d] \in 0 .. 2 /\ synced[d] \in 0 .. 2
          /\ hold = 0 => synced'[d] = IF synced[d] < 2 THEN synced[d] + 1 ELSE synced[d]
    <3>. TAKE d \in Domains
    <3>1. d \in clk /\ d \notin ResetRequests(acc) /\ pulse[d] = 0 /\ release[d] = 0
      BY <2>2, <2>3
    <3>. QED  BY <1>1, <1>3, <1>4, <3>1, DomainEdge
  <2>5. hold = 0 => \A d \in Domains : synced'[d] = 2 \/ synced'[d] >= gap + 1
    BY <2>1, <2>2, <2>4
  <2>6. Booting' /\ Booted'
    <3>1. CASE hold > 0
      <4>1. at' = "boot" /\ gap' = 0 /\ hold' \in Nat
        BY <1>3, <1>4, <2>1, <2>2, <3>1
      <4>. QED  BY <2>3, <2>4, <4>1 DEF Booting, Booted
    <3>2. CASE hold = 0 /\ gap < BootCycles
      <4>1. at' = "boot" /\ gap' = gap + 1 /\ hold' = 0
        BY <1>3, <1>4, <2>1, <3>2
      <4>. QED  BY <2>3, <2>4, <2>5, <3>2, <4>1 DEF Booting, Booted
    <3>3. CASE hold = 0 /\ gap = BootCycles
      <4>1. at' = "main" /\ hold' = 0
        BY <1>3, <1>4, <2>1, <3>3
      <4>. QED  BY <1>4, <2>4, <2>5, <3>3, <4>1 DEF Booting, Booted
    <3>. QED  BY <1>4, <2>1, <3>1, <3>2, <3>3
  <2>. QED  BY <1>2, <2>3, <2>6 DEF Locked
<1>7. CASE at # "boot"
  <2>1. at' # "boot" /\ hold = 0 /\ hold' = 0
    BY <1>1, <1>3, <1>7 DEF CoreMoves, Booted
  <2>2. \A d \in Domains : pulse'[d] > 0 \/ synced'[d] + release'[d] >= 2
    <3>. TAKE d \in Domains
    <3>1. pulse[d] > 0 \/ synced[d] + release[d] >= 2
      BY <1>1, <1>7 DEF Booted
    <3>. HIDE DEF Domains
    <3>. QED  BY <1>1, <1>3, <1>4, <2>1, <3>1, DomainEdge
  <2>3. Booting' /\ Booted'
    BY <2>1, <2>2 DEF Booting, Booted
  <2>4. Locked'
    <3>. SUFFICES ASSUME wdt'.locked PROVE pulse'["wdt"] = 0 /\ synced'["wdt"] = 2
      BY DEF Locked
    <3>1. "wdt" \in Domains
      BY DEF Domains
    <3>2. pulse["wdt"] = 0 /\ synced["wdt"] = 2
      BY <1>1, <1>5, <3>1 DEF InReset, Asserted, RegTypes
    <3>3. "wdt" \notin ResetRequests(acc)
      BY <1>5 DEF ResetRequests
    <3>. QED  BY <1>1, <1>3, <2>1, <3>1, <3>2, <3>3, DomainEdge
  <2>. QED  BY <1>2, <2>3, <2>4
<1>. QED  BY <1>6, <1>7

-----------------------------------------------------------------------------
(* The invariant holds.                                                    *)

\* After power-on, and after every reset of the system.
FromReset ==
  /\ program \in Loaded /\ hold \in 0 .. Pulse /\ step = 1 /\ at = "boot" /\ back = "main"
  /\ gap = 0 /\ edges = {} /\ clk = Domains /\ wakeEn = {} /\ wakeStatus = {}
  /\ sleep = FALSE /\ coreEn = TRUE
  /\ pulse = [d \in Domains |-> 0] /\ release = [d \in Domains |-> 0]
  /\ synced = [d \in Domains |-> 0] /\ wdt = WdtReset

LEMMA FromResetIsSound == FromReset => SysInv
<1>. SUFFICES ASSUME FromReset PROVE SysInv
  OBVIOUS
<1>1. Timeout \in Nat /\ Pulse \in Nat /\ BootCycles = 4
  BY SystemControlAssumption DEF BootCycles
<1>2. CoreInv
  BY <1>1 DEF FromReset, CoreInv
<1>3. /\ wdt.count = Timeout /\ wdt.timeout = Timeout /\ wdt.locked = FALSE
  BY DEF FromReset, WdtReset
<1>4. /\ pulse \in [Domains -> 0 .. Pulse] /\ release \in [Domains -> 0 .. 2]
      /\ synced \in [Domains -> 0 .. 2]
  BY <1>1 DEF FromReset
<1>5. coreEn \in BOOLEAN /\ sleep = ~coreEn
  BY DEF FromReset
<1>6. Timeout \in Timeouts
  BY <1>1 DEF Timeouts
<1>7. RegTypes
  BY <1>1, <1>3, <1>4, <1>5, <1>6 DEF FromReset, RegTypes
<1>8. Booting /\ Booted /\ Locked
  BY <1>3 DEF FromReset, Booting, Booted, Locked
<1>. QED  BY <1>2, <1>7, <1>8 DEF SysInv

LEMMA SysInvInit == SysInit => SysInv
<1>1. 0 \in 0 .. Pulse
  BY SystemControlAssumption
<1>. QED  BY <1>1, FromResetIsSound DEF SysInit, FromReset

LEMMA SysInvNext ==
  ASSUME SysInv, [SysNext]_sysVars
  PROVE  SysInv'
<1>1. CoreInv /\ RegTypes
  BY DEF SysInv
<1>2. CASE Resets
  <2>1. PICK c : SysReset(c)
    BY <1>2 DEF Resets
  <2>2. program' \in Loaded /\ Pulse \in 0 .. Pulse
    BY <1>1, <2>1, SystemControlAssumption DEF SysReset, CoreInv
  <2>3. FromReset'
    BY <2>1, <2>2 DEF SysReset, FromReset, WdtReset, Domains
  <2>. QED  BY <2>3, FromResetIsSound, PTL
<1>3. CASE \E e \in SUBSET (Program.pins \ edges) : Cycle(e)
  <2>1. PICK e \in SUBSET (Program.pins \ edges) : Cycle(e)
    BY <1>3
  <2>2. CoreInv' /\ \E acc : ClockEdge(acc, e) /\ CoreMoves(acc)
    BY <1>1, <2>1, CycleStep
  <2>3. e \in SUBSET Program.pins
    BY <2>1
  <2>4. RegTypes' /\ Booting' /\ Booted' /\ Locked'
    BY <2>2, <2>3, SysClockStep
  <2>. QED  BY <2>2, <2>4 DEF SysInv
<1>4. CASE UNCHANGED sysVars
  BY <1>4 DEF sysVars, core, soc, SysInv, CoreInv, RegTypes, Booting, Booted, Locked, Loads,
              LoadedFrom, Program
<1>. QED  BY <1>2, <1>3, <1>4 DEF SysNext

LEMMA SysInvariance == SysSpec => []SysInv
BY SysInvInit, SysInvNext, PTL DEF SysSpec

(* Registers keep their ranges, and the core is asleep exactly when its    *)
(* clock is stopped.                                                       *)
THEOREM SysTypesCorrect == SysSpec => []SysTypeOK
<1>1. SysInv => SysTypeOK
  <2>. SUFFICES ASSUME SysInv PROVE SysTypeOK
    OBVIOUS
  <2>1. gap \in 0 .. Gap + BootCycles
    <3>1. Gap \in Nat /\ BootCycles = 4
      BY SystemControlAssumption DEF BootCycles
    <3>. QED  BY <3>1 DEF SysInv, CoreInv
  <2>. QED  BY <2>1 DEF SysInv, CoreInv, RegTypes, SysTypeOK, Sources, Timeouts
<1>. QED  BY <1>1, SysInvariance, PTL

(* No domain is left without clock while its reset synchronizer still      *)
(* holds it in reset, whatever software gates and resets in which order,   *)
(* for every length of the reset pulse.                                    *)
THEOREM ClockOutlivesReset == SysSpec => []ResetReleases
<1>1. SysInv => ResetReleases
  <2>. SUFFICES ASSUME SysInv, NEW d \in Domains, ~ClkOn(d) PROVE ~InReset(d)
    BY DEF ResetReleases, ClkStatus
  <2>1. /\ pulse[d] \in 0 .. Pulse /\ release[d] \in 0 .. 2 /\ synced[d] \in 0 .. 2
        /\ Pulse \in Nat /\ hold \in Nat
    BY SystemControlAssumption DEF SysInv, RegTypes
  <2>2. d \notin clk /\ pulse[d] = 0 /\ release[d] = 0
    BY <2>1 DEF ClkOn
  <2>3. at # "boot"
    BY <2>2 DEF SysInv, Booting
  <2>4. hold = 0 /\ synced[d] = 2
    BY <2>1, <2>2, <2>3 DEF SysInv, Booted
  <2>. QED  BY <2>2, <2>4 DEF InReset, Asserted
<1>. QED  BY <1>1, SysInvariance, PTL

(* A locked watchdog that runs keeps counting until it is fed or resets    *)
(* the system: no register, no gate and no domain reset stops it.          *)
THEOREM LockHolds == SysSpec => LockedRuns
<1>. DEFINE Runs == /\ wdt'.on /\ wdt'.locked
                    /\ wdt'.count \in {wdt.count - 1, wdt.timeout}
<1>1. ASSUME SysInv, [SysNext]_sysVars, wdt.locked, wdt.on, hold' = 0, at' # "boot"
      PROVE  Runs \/ UNCHANGED sysVars
  <2>1. CASE Resets
    BY <1>1, <2>1 DEF Resets, SysReset
  <2>2. CASE \E e : Cycle(e)
    <3>1. PICK acc : wdt' = WdtNext(acc) /\ ~WdtFires
      BY <1>1, <2>2, CycleStep DEF ClockEdge, SysInv
    <3>2. at # "boot" /\ hold = 0 /\ pulse["wdt"] = 0 /\ synced["wdt"] = 2
      BY <1>1 DEF SysInv, Booting, Booted, Locked
    <3>3. ~InReset("wdt") /\ ClkOn("wdt")
      BY <1>1, <3>2 DEF InReset, Asserted, ClkOn
    <3>4. wdt' = WdtEdge(acc)
      BY <3>1, <3>3 DEF WdtNext
    <3>5. wdt.count \in Nat /\ wdt.count # 0
      BY <1>1, <3>1 DEF SysInv, RegTypes, Timeouts, WdtFires
    <3>6. wdt'.on = wdt.on /\ wdt'.locked /\ wdt'.count \in {wdt.timeout, Counted}
      BY <1>1, <3>4 DEF WdtEdge
    <3>7. Counted = wdt.count - 1
      BY <1>1, <3>5 DEF Counted
    <3>. QED  BY <1>1, <3>6, <3>7
  <2>. QED  BY <1>1, <2>1, <2>2 DEF SysNext
<1>2. SysInv /\ [SysNext]_sysVars
        => [(wdt.locked /\ wdt.on /\ hold' = 0 /\ at' # "boot") => Runs]_sysVars
  BY <1>1
<1>. QED  BY <1>2, SysInvariance, PTL DEF SysSpec, LockedRuns

-----------------------------------------------------------------------------
(* Fed in time: the invariant.                                             *)

\* A program that starts the watchdog, locks it and serves its interrupt; what
\* it does afterwards is free.
Watched(p) ==
  /\ p \notin {"wdt_smoke", "low_power"}
  /\ Clients[p].start = <<WdtSetTimeout(Timeout), WdtSetPretimeout(Pre), WdtEnable, WdtLock>>
  /\ Clients[p].irqs = {"wdt"}

\* A program that leaves the watchdog alone.
Unwatched(p) ==
  \/ p = "low_power"
  \/ /\ p # "wdt_smoke" /\ WdtEnable \notin Clients[p].free
     /\ \A k \in DOMAIN Clients[p].start : Clients[p].start[k] # WdtEnable

\* The cycles that the handler still needs from here before it has fed.
Left ==
  CASE plic = "idle" -> 3 * Gap + 7
    [] plic = "pending" -> 3 * Gap + 6
    [] plic = "visible" ->
         IF at = "claim" THEN 2 * Gap + 2 - gap
         ELSE IF at = "wfi" THEN (IF coreEn THEN 3 * Gap + 4 ELSE 3 * Gap + 5)
         ELSE IF coreEn THEN 3 * Gap + 3 - gap ELSE 3 * Gap + 4
    [] OTHER -> IF at = "serve" THEN Gap + 1 - gap ELSE 1

\* The watchdog runs, and counts no less than the handler needs.
Guarding ==
  /\ wdt.on /\ wdt.irq /\ wdt.pre = Pre
  /\ plic \in {"idle", "pending", "visible", "claimed"}
  /\ at = "claim" => plic = "visible"
  /\ at \in {"serve", "complete"} <=> plic = "claimed"
  /\ ~coreEn => at \in {"wfi", "main"} /\ (at = "main" => gap = 0)
  /\ at = "complete" => wdt.count >= Pre + Gap + 1 - gap
  /\ IF wdt.pending THEN wdt.count >= Left ELSE wdt.count > Pre

\* Before the watchdog is locked the program does what its start says.
Setup ==
  /\ ~wdt.locked /\ clk = Domains /\ pulse["wdt"] = 0 /\ release["wdt"] = 0
  /\ back = "main" /\ at \notin {"store", "doze", "wfi"}

GuardInv ==
  /\ step \in 1 .. 5 /\ at \notin {"tick", "done"} /\ (at = "boot" => step = 1)
  /\ step <= 3 => at \in {"boot", "main"} /\ plic = "idle" /\ ~wdt.on /\ ~wdt.pending
  /\ IF step <= 4 THEN Setup ELSE wdt.locked
  /\ wdt.timeout = Timeout
  /\ step = 3 => wdt.pre = Pre
  /\ step >= 4 => Guarding

\* wdt_smoke feeds after every gap, until it has made its last call.
SmokeInv ==
  /\ at \in {"boot", "main"} /\ coreEn /\ plic = "idle" /\ (at = "boot" => step = 1)
  /\ clk = Domains /\ pulse["wdt"] = 0 /\ release["wdt"] = 0
  /\ wdt.timeout = Timeout
  /\ step <= 3 => ~wdt.on
  /\ step \in 4 .. 6 => ~wdt.on \/ wdt.count >= Gap + 1 - gap

FeedInv ==
  /\ program = "wdt_smoke" => SmokeInv
  /\ Watched(program) => GuardInv
  /\ Unwatched(program) => ~wdt.on

-----------------------------------------------------------------------------
(* What the programs ask for.                                              *)

\* No helper stores to the interrupt controller, and one starts the watchdog.
LEMMA HelpersStore ==
  ASSUME NEW c \in HelperCall
  PROVE  /\ c[1] \in {"store", "doze"} => c[2] \notin {"CLAIM", "COMPLETE"}
         /\ c[2] = "CTRL" /\ c[1] \in {"store", "doze"} /\ c # WdtEnable => ~c[3].on
<1>1. CASE \E m \in SUBSET Domains : c = ClkEnable(m) \/ c = ClkDisable(m)
  BY <1>1 DEF ClkEnable, ClkDisable
<1>2. CASE \E m \in SUBSET Domains : c = PeripheralReset(m)
  BY <1>2 DEF PeripheralReset
<1>3. CASE \E m \in SUBSET Sources : c = WakeEnable(m) \/ c = WakeDisable(m)
  BY <1>3 DEF WakeEnable, WakeDisable
<1>4. CASE \E m \in SUBSET Sources : c = WakeStatusClear(m)
  BY <1>4 DEF WakeStatusClear
<1>5. CASE \E n \in Timeouts : c = WdtSetTimeout(n) \/ c = WdtSetPretimeout(n)
  BY <1>5 DEF WdtSetTimeout, WdtSetPretimeout
<1>6. CASE c \in {WfiSleepEnable(TRUE), WfiSleepEnable(FALSE), EnterSleep, SoftReset, SetTimer}
  BY <1>6 DEF WfiSleepEnable, EnterSleep, SoftReset, SetTimer
<1>7. CASE c \in {WdtEnable, WdtDisable, WdtFeed, WdtLock, WdtClearPretimeout}
  BY <1>7 DEF WdtEnable, WdtDisable, WdtFeed, WdtLock, WdtClearPretimeout
<1>8. CASE c = Wfi
  BY <1>8 DEF Wfi
<1>. QED  BY <1>1, <1>2, <1>3, <1>4, <1>5, <1>6, <1>7, <1>8 DEF HelperCall

\* The core's accesses: its own, the second half of a helper, or a call.
OwnRegisters == {"none", "MTIMECMP", "CLAIM", "FEED", "COMPLETE", "CLK_EN", "WAKE_EN"}

LEMMA AccessOf ==
  ASSUME CoreInv, NEW e, Cycle(e)
  PROVE  \E acc : /\ ClockEdge(acc, e)
                  /\ \/ acc[1] \in OwnRegisters
                     \/ \E c \in Calls : c[1] \in {"store", "doze"} /\ acc = <<c[2], c[3]>>
<1>1. at = "store" => call[2] \in OwnRegisters
  BY DEF CoreInv, Loads, OwnRegisters
<1>2. Steps("store") => at = "store"
  BY DEF Steps
<1>3. /\ Nothing[1] \in OwnRegisters /\ <<"MTIMECMP", Never>>[1] \in OwnRegisters
      /\ <<"CLAIM", {}>>[1] \in OwnRegisters /\ <<"FEED", {}>>[1] \in OwnRegisters
      /\ <<"COMPLETE", {}>>[1] \in OwnRegisters
      /\ Steps("store") => <<call[2], Merged>>[1] \in OwnRegisters
  BY <1>1, <1>2 DEF Nothing, OwnRegisters
<1>4. \/ \E acc \in {Nothing, <<"MTIMECMP", Never>>, <<"CLAIM", {}>>, <<"FEED", {}>>,
                    <<"COMPLETE", {}>>} : ClockEdge(acc, e)
      \/ Steps("store") /\ ClockEdge(<<call[2], Merged>>, e)
      \/ \E c \in Calls : c[1] \in {"store", "doze"} /\ ClockEdge(<<c[2], c[3]>>, e)
  BY DEF Cycle
<1>. QED  BY <1>3, <1>4

LEMMA UnwatchedCalls ==
  ASSUME CoreInv, Unwatched(program), NEW c \in Calls
  PROVE  c \in HelperCall /\ c # WdtEnable
<1>1. c \in HelperCall /\ Program \in Text
  BY CallsFit, ProgramText DEF CoreInv
<1>2. CASE program = "low_power"
  <2>1. Program = LowPower
    BY <1>2 DEF Program
  <2>. DEFINE auto_on == WfiSleepEnable(TRUE)
  <2>2. Program.start = <<auto_on, SetTimer>> /\ Program.free = {Wfi} /\ step \in Nat \ {0}
    BY <2>1 DEF LowPower, CoreInv
  <2>. HIDE DEF auto_on
  <2>3. c \in {Wfi, auto_on, SetTimer}
    <3>1. CASE Started
      BY <2>2, <3>1 DEF Calls
    <3>2. CASE ~Started
      <4>1. step \in {1, 2}
        BY <2>2, <3>2 DEF Started
      <4>2. c = Program.start[step]
        BY <3>2 DEF Calls
      <4>. QED  BY <2>2, <4>1, <4>2
    <3>. QED  BY <3>1, <3>2
  <2>. USE DEF auto_on
  <2>. QED  BY <1>1, <2>3 DEF Wfi, WfiSleepEnable, SetTimer, WdtEnable
<1>3. CASE program # "low_power"
  <2>1. /\ Program = Clients[program] /\ WdtEnable \notin Clients[program].free
        /\ \A k \in DOMAIN Clients[program].start : Clients[program].start[k] # WdtEnable
    BY <1>3 DEF Program, Unwatched
  <2>2. Program.start \in Seq(HelperCall) /\ step \in Nat \ {0}
    BY <1>1 DEF Text, CoreInv
  <2>3. CASE Started
    BY <1>1, <2>1, <2>3 DEF Calls
  <2>4. CASE ~Started
    <3>. HIDE DEF HelperCall, WdtEnable
    <3>1. step \in DOMAIN Program.start
      BY <2>2, <2>4 DEF Started
    <3>. QED  BY <1>1, <2>1, <2>4, <3>1 DEF Calls
  <2>. QED  BY <2>3, <2>4
<1>. QED  BY <1>2, <1>3

LEMMA UnwatchedStep ==
  ASSUME CoreInv, Unwatched(program), ~wdt.on, NEW e, Cycle(e)
  PROVE  ~wdt'.on
<1>1. PICK acc : /\ ClockEdge(acc, e)
                 /\ \/ acc[1] \in OwnRegisters
                    \/ \E c \in Calls : c[1] \in {"store", "doze"} /\ acc = <<c[2], c[3]>>
  BY AccessOf
<1>2. acc[1] = "CTRL" => ~acc[2].on
  BY <1>1, UnwatchedCalls, HelpersStore DEF OwnRegisters
<1>3. wdt' \in {WdtReset, WdtEdge(acc), wdt}
  BY <1>1 DEF ClockEdge, WdtNext
<1>4. ~WdtReset.on
  BY DEF WdtReset
<1>5. ~WdtEdge(acc).on
  BY <1>2 DEF WdtEdge
<1>. QED  BY <1>3, <1>4, <1>5

-----------------------------------------------------------------------------
(* The edge of a watchdog that has its clock and is out of reset.          *)

\* Nothing has gated or reset the watchdog's domain.
DomainFree == clk = Domains /\ pulse["wdt"] = 0 /\ release["wdt"] = 0

LEMMA WdtClocked ==
  ASSUME SysInv, at # "boot", DomainFree \/ (wdt.locked /\ wdt.on), NEW acc, NEW e,
         ClockEdge(acc, e)
  PROVE  wdt' = WdtEdge(acc)
<1>1. "wdt" \in Domains /\ hold = 0 /\ (pulse["wdt"] > 0 \/ synced["wdt"] + release["wdt"] >= 2)
  BY DEF SysInv, Booted, Domains
<1>2. synced["wdt"] \in 0 .. 2 /\ (wdt.locked => pulse["wdt"] = 0 /\ synced["wdt"] = 2)
  BY <1>1 DEF SysInv, RegTypes, Locked
<1>3. ~InReset("wdt") /\ ClkOn("wdt")
  BY <1>1, <1>2 DEF DomainFree, InReset, Asserted, ClkOn
<1>. QED  BY <1>3 DEF ClockEdge, WdtNext

LEMMA DomainStaysFree ==
  ASSUME DomainFree, NEW acc, NEW e, ClockEdge(acc, e), acc[1] \notin {"PERI_RST", "CLK_EN"}
  PROVE  DomainFree'
<1>1. "wdt" \in Domains /\ ResetRequests(acc) = {}
  BY DEF Domains, ResetRequests
<1>. QED  BY <1>1 DEF DomainFree, ClockEdge, DomainResets, Stored

\* In reset or without an access, a watchdog that is off stays as it is.
LEMMA WdtQuiet ==
  ASSUME ~wdt.on, ~wdt.pending, ~wdt.locked, wdt.timeout = Timeout, NEW e,
         ClockEdge(Nothing, e)
  PROVE  /\ ~wdt'.on /\ ~wdt'.pending /\ ~wdt'.locked /\ wdt'.timeout = Timeout
<1>1. wdt' \in {WdtReset, WdtEdge(Nothing), wdt}
  BY DEF ClockEdge, WdtNext
<1>2. ~WdtReset.on /\ ~WdtReset.pending /\ ~WdtReset.locked /\ WdtReset.timeout = Timeout
  BY DEF WdtReset
<1>3. /\ ~WdtEdge(Nothing).on /\ ~WdtEdge(Nothing).pending /\ ~WdtEdge(Nothing).locked
      /\ WdtEdge(Nothing).timeout = Timeout
  BY DEF WdtEdge, Nothing, Stored, PreHit
<1>. QED  BY <1>1, <1>2, <1>3

\* The PLIC's source of the watchdog, and the clock of the core.
LEMMA PlicIdle ==
  ASSUME plic = "idle", "wdt" \notin Program.irqs \/ ~wdt.pending, NEW acc, NEW e,
         ClockEdge(acc, e), acc[1] \notin {"CLAIM", "COMPLETE"}
  PROVE  plic' = "idle"
BY DEF ClockEdge, WdtIrq

LEMMA ClockKept ==
  ASSUME SysInv, coreEn, at # "wfi", NEW acc, NEW e, ClockEdge(acc, e)
  PROVE  coreEn'
<1>1. ~sleep
  BY DEF SysInv, RegTypes
<1>. QED  BY <1>1 DEF ClockEdge, Handshake, Enters

-----------------------------------------------------------------------------
(* wdt_smoke.                                                              *)

SmokeCall(k) ==
  CASE k = 1 -> <<"TIMEOUT", Timeout>>
    [] k = 2 -> <<"PRETIMEOUT", Pre>>
    [] k = 3 -> <<"CTRL", WdtEnable[3]>>
    [] OTHER -> <<"FEED", {}>>

LEMMA SmokeCalls ==
  ASSUME program = "wdt_smoke", step \in Nat \ {0}
  PROVE  /\ Program.irqs = {} /\ (Started <=> step > 6) /\ (Started => Calls = {})
         /\ \A c \in Calls : step \in 1 .. 6 /\ c[1] = "store" /\ <<c[2], c[3]>> = SmokeCall(step)
<1>1. Program = WdtSmoke
  BY DEF Program
<1>2. /\ Program.irqs = {} /\ Program.free = {} /\ Len(Program.start) = 6
      /\ Program.start[1] = WdtSetTimeout(Timeout) /\ Program.start[2] = WdtSetPretimeout(Pre)
      /\ Program.start[3] = WdtEnable /\ \A k \in 4 .. 6 : Program.start[k] = WdtFeed
  <2>. DEFINE a == WdtSetTimeout(Timeout)
              b == WdtSetPretimeout(Pre)
  <2>1. Program = [start |-> <<a, b, WdtEnable, WdtFeed, WdtFeed, WdtFeed>>,
                   free |-> {}, pins |-> {}, irqs |-> {}, resets |-> FALSE]
    BY <1>1 DEF WdtSmoke
  <2>. HIDE DEF a, b
  <2>2. /\ Program.irqs = {} /\ Program.free = {}
        /\ Program.start = <<a, b, WdtEnable, WdtFeed, WdtFeed, WdtFeed>>
    BY <2>1
  <2>3. Len(Program.start) = 6 /\ Program.start[1] = a /\ Program.start[2] = b
    BY <2>2
  <2>4. Program.start[3] = WdtEnable
    BY <2>2
  <2>5. \A k \in 4 .. 6 : Program.start[k] = WdtFeed
    BY <2>2
  <2>. QED  BY <2>2, <2>3, <2>4, <2>5 DEF a, b
<1>3. Started <=> step > 6
  BY <1>2 DEF Started
<1>4. CASE step > 6
  BY <1>2, <1>3, <1>4 DEF Calls
<1>5. CASE step <= 6
  <2>1. step \in {1, 2, 3, 4, 5, 6} /\ Calls = {Program.start[step]}
    BY <1>3, <1>5 DEF Calls
  <2>2. /\ WdtSetTimeout(Timeout) = <<"store", "TIMEOUT", Timeout>>
        /\ WdtSetPretimeout(Pre) = <<"store", "PRETIMEOUT", Pre>>
        /\ WdtEnable[1] = "store" /\ WdtEnable[2] = "CTRL"
        /\ WdtFeed = <<"store", "FEED", {}>>
    BY DEF WdtSetTimeout, WdtSetPretimeout, WdtEnable, WdtFeed
  <2>3. ASSUME NEW c \in Calls
        PROVE  c[1] = "store" /\ <<c[2], c[3]>> = SmokeCall(step)
    <3>1. CASE step = 1
      <4>1. c = WdtSetTimeout(Timeout)
        BY <1>2, <2>1, <3>1
      <4>2. SmokeCall(step) = <<WdtSetTimeout(Timeout)[2], WdtSetTimeout(Timeout)[3]>>
        BY <2>2, <3>1 DEF SmokeCall
      <4>. QED  BY <2>2, <4>1, <4>2
    <3>2. CASE step = 2
      <4>1. c = WdtSetPretimeout(Pre)
        BY <1>2, <2>1, <3>2
      <4>2. SmokeCall(step) = <<WdtSetPretimeout(Pre)[2], WdtSetPretimeout(Pre)[3]>>
        BY <2>2, <3>2 DEF SmokeCall
      <4>. QED  BY <2>2, <4>1, <4>2
    <3>3. CASE step = 3
      <4>1. c = WdtEnable
        BY <1>2, <2>1, <3>3
      <4>2. SmokeCall(step) = <<WdtEnable[2], WdtEnable[3]>>
        BY <2>2, <3>3 DEF SmokeCall
      <4>. QED  BY <2>2, <4>1, <4>2
    <3>4. CASE step \in 4 .. 6
      <4>1. c = WdtFeed
        BY <1>2, <2>1, <3>4
      <4>2. SmokeCall(step) = <<"FEED", {}>>
        BY <3>4 DEF SmokeCall
      <4>. QED  BY <2>2, <4>1, <4>2
    <3>. QED  BY <2>1, <3>1, <3>2, <3>3, <3>4
  <2>. QED  BY <1>2, <1>3, <1>5, <2>3
<1>. QED  BY <1>4, <1>5

\* It waits, or makes its next call.
SmokeMoves(acc) ==
  \/ /\ acc = Nothing /\ step' = step
     /\ \/ at = "boot" /\ at' \in {"boot", "main"}
        \/ at = "main" /\ at' = "main" /\ gap < Gap /\ gap' = gap + 1
        \/ at = "main" /\ at' = "main" /\ step > 6
  \/ /\ step \in 1 .. 6 /\ acc = SmokeCall(step)
     /\ at = "main" /\ at' = "main" /\ gap' = 0 /\ step' = step + 1

LEMMA SmokeMovesOn ==
  ASSUME SysInv, SmokeInv, program = "wdt_smoke", NEW e, Cycle(e)
  PROVE  \E acc : ClockEdge(acc, e) /\ SmokeMoves(acc)
<1>1. /\ step \in Nat \ {0} /\ at \in {"boot", "main"} /\ coreEn /\ plic = "idle"
      /\ at # "boot" => hold = 0
  BY DEF SysInv, CoreInv, SmokeInv, Booted
<1>2. /\ Program.irqs = {} /\ (Started <=> step > 6) /\ (Started => Calls = {})
      /\ \A c \in Calls : step \in 1 .. 6 /\ c[1] = "store" /\ <<c[2], c[3]>> = SmokeCall(step)
  BY <1>1, SmokeCalls
<1>3. ~Takes
  BY <1>1, <1>2 DEF Takes
<1>4. \/ Waits /\ Stays /\ ClockEdge(Nothing, e)
      \/ \E c \in Calls : c[1] = "store" /\ Steps("main") /\ Made("main")
                          /\ ClockEdge(<<c[2], c[3]>>, e)
  BY <1>1, <1>2, <1>3 DEF Cycle, Steps, Load
<1>5. CASE Waits /\ Stays /\ ClockEdge(Nothing, e)
  <2>1. SmokeMoves(Nothing)
    BY <1>1, <1>2, <1>3, <1>5 DEF Waits, Stays, Steps, CoreRuns, Goes, SmokeMoves
  <2>. QED  BY <1>5, <2>1
<1>6. ASSUME NEW c \in Calls, Steps("main"), Made("main"), ClockEdge(<<c[2], c[3]>>, e)
      PROVE  \E acc : ClockEdge(acc, e) /\ SmokeMoves(acc)
  <2>1. ~Started /\ at = "main" /\ at' = "main" /\ gap' = 0 /\ step' = step + 1
    BY <1>2, <1>6 DEF Steps, Made, Goes
  <2>2. SmokeMoves(SmokeCall(step)) /\ ClockEdge(SmokeCall(step), e)
    BY <1>2, <1>6, <2>1 DEF SmokeMoves
  <2>. QED  BY <2>2
<1>. QED  BY <1>4, <1>5, <1>6

LEMMA SmokeStep ==
  ASSUME SysInv, SmokeInv, program = "wdt_smoke", Timeout >= Pre + Gap + 1, NEW e, Cycle(e)
  PROVE  SmokeInv'
<1>1. PICK acc : ClockEdge(acc, e) /\ SmokeMoves(acc)
  BY SmokeMovesOn
<1>2. /\ step \in Nat \ {0} /\ at \in {"boot", "main"} /\ coreEn /\ plic = "idle"
      /\ Gap \in Nat /\ Pre \in Nat /\ Timeout \in Nat /\ wdt.count \in Nat
      /\ at # "boot" => gap \in 0 .. Gap
      /\ at = "boot" => step = 1 /\ ~wdt.locked
      /\ wdt.timeout = Timeout /\ DomainFree
      /\ step <= 3 => ~wdt.on
      /\ step \in 4 .. 6 => ~wdt.on \/ wdt.count >= Gap + 1 - gap
  BY SystemControlAssumption DEF SysInv, CoreInv, RegTypes, Booting, SmokeInv, Timeouts, DomainFree
<1>3. /\ acc[1] \in {"none", "TIMEOUT", "PRETIMEOUT", "CTRL", "FEED"}
      /\ acc[1] = "TIMEOUT" => acc[2] = Timeout
      /\ acc[1] = "CTRL" => step = 3
      /\ at # "boot" /\ step \in 4 .. 6 /\ step' = step + 1 => acc[1] = "FEED"
      /\ at # "boot" /\ step = 3 /\ step' = step + 1 => acc[1] = "CTRL"
  BY <1>1, <1>2 DEF SmokeMoves, SmokeCall, Nothing
<1>4. "wdt" \notin Program.irqs
  BY <1>2, SmokeCalls
<1>5. coreEn' /\ plic' = "idle" /\ DomainFree'
  BY <1>1, <1>2, <1>3, <1>4, ClockKept, PlicIdle, DomainStaysFree
<1>6. at' \in {"boot", "main"} /\ (at' = "boot" => step' = 1)
  BY <1>1, <1>2 DEF SmokeMoves
<1>7. wdt'.timeout = Timeout
  <2>1. WdtReset.timeout = Timeout /\ WdtEdge(acc).timeout = Timeout
    BY <1>2, <1>3 DEF WdtReset, WdtEdge, Stored
  <2>2. wdt' \in {WdtReset, WdtEdge(acc), wdt}
    BY <1>1 DEF ClockEdge, WdtNext
  <2>. QED  BY <1>2, <2>1, <2>2
<1>8. /\ step' <= 3 => ~wdt'.on
      /\ step' \in 4 .. 6 => ~wdt'.on \/ wdt'.count >= Gap + 1 - gap'
  <2>1. CASE at = "boot"
    <3>1. step' = 1 /\ acc[1] = "none" /\ ~wdt.on
      BY <1>1, <1>2, <2>1 DEF SmokeMoves, Nothing
    <3>2. wdt' \in {WdtReset, WdtEdge(acc), wdt}
      BY <1>1 DEF ClockEdge, WdtNext
    <3>3. ~WdtReset.on /\ ~WdtEdge(acc).on
      BY <3>1 DEF WdtReset, WdtEdge
    <3>. QED  BY <3>1, <3>2, <3>3
  <2>2. CASE at = "main"
    <3>1. wdt' = WdtEdge(acc)
      BY <1>1, <1>2, <2>2, WdtClocked
    <3>2. /\ acc[1] # "CTRL" => wdt'.on = wdt.on
          /\ wdt'.count = wdt.timeout \/ (wdt'.count = Counted /\ ~(wdt.on /\ acc[1] = "FEED"))
          /\ acc[1] = "CTRL" /\ ~wdt.on =>
               ~wdt'.on \/ wdt'.count = wdt.timeout
      BY <3>1 DEF WdtEdge, Fed
    <3>3. CASE step' = step
      <4>1. acc[1] = "none" /\ (step <= 6 => gap' = gap + 1 /\ gap < Gap)
        BY <1>1, <1>2, <2>2, <3>3 DEF SmokeMoves, Nothing
      <4>2. wdt.on => wdt.count # 0
        BY <1>1 DEF ClockEdge, WdtFires
      <4>3. wdt.on => Counted = wdt.count - 1
        BY <1>2, <4>2 DEF Counted
      <4>. QED  BY <1>2, <2>2, <3>2, <3>3, <4>1, <4>3
    <3>4. CASE step' = step + 1
      <4>1. gap' = 0
        BY <1>1, <1>2, <3>4 DEF SmokeMoves
      <4>2. CASE step <= 2
        <5>1. acc[1] # "CTRL"
          BY <1>3, <4>2
        <5>. QED  BY <1>2, <3>2, <3>4, <4>2, <5>1
      <4>3. CASE step = 3
        <5>1. acc[1] = "CTRL" /\ ~wdt.on
          BY <1>2, <1>3, <2>2, <3>4, <4>3
        <5>. QED  BY <1>2, <3>2, <3>4, <4>1, <4>3, <5>1
      <4>4. CASE step \in 4 .. 6
        <5>1. acc[1] = "FEED"
          BY <1>3, <2>2, <3>4, <4>4
        <5>. QED  BY <1>2, <3>2, <3>4, <4>1, <4>4, <5>1
      <4>5. CASE step > 6
        BY <1>2, <3>4, <4>5
      <4>. QED  BY <1>2, <4>2, <4>3, <4>4, <4>5
    <3>. QED  BY <1>1, <3>3, <3>4 DEF SmokeMoves
  <2>. QED  BY <1>2, <2>1, <2>2
<1>. QED  BY <1>5, <1>6, <1>7, <1>8 DEF SmokeInv, DomainFree

-----------------------------------------------------------------------------
(* A watched program sets the watchdog up.                                 *)

GuardCall(k) ==
  CASE k = 1 -> <<"TIMEOUT", Timeout>>
    [] k = 2 -> <<"PRETIMEOUT", Pre>>
    [] k = 3 -> <<"CTRL", WdtEnable[3]>>
    [] OTHER -> <<"LOCK", {}>>

LEMMA GuardCalls ==
  ASSUME CoreInv, Watched(program)
  PROVE  /\ Program.irqs = {"wdt"} /\ (Started <=> step > 4)
         /\ \A c \in Calls : step <= 4 => c[1] = "store" /\ <<c[2], c[3]>> = GuardCall(step)
<1>. DEFINE a == WdtSetTimeout(Timeout)
            b == WdtSetPretimeout(Pre)
<1>1. /\ Program.irqs = {"wdt"} /\ step \in Nat \ {0}
      /\ Program.start = <<a, b, WdtEnable, WdtLock>>
  BY DEF Watched, Program, CoreInv
<1>2. /\ a[1] = "store" /\ <<a[2], a[3]>> = <<"TIMEOUT", Timeout>>
      /\ b[1] = "store" /\ <<b[2], b[3]>> = <<"PRETIMEOUT", Pre>>
      /\ WdtEnable[1] = "store" /\ WdtEnable[2] = "CTRL"
      /\ WdtLock[1] = "store" /\ <<WdtLock[2], WdtLock[3]>> = <<"LOCK", {}>>
  BY DEF WdtSetTimeout, WdtSetPretimeout, WdtEnable, WdtLock
<1>. HIDE DEF a, b
<1>3. Started <=> step > 4
  BY <1>1 DEF Started
<1>4. ASSUME NEW c \in Calls, step <= 4
      PROVE  c[1] = "store" /\ <<c[2], c[3]>> = GuardCall(step)
  <2>1. step \in {1, 2, 3, 4} /\ c = Program.start[step]
    BY <1>1, <1>3, <1>4 DEF Calls
  <2>2. CASE step = 1
    <3>1. c = a /\ GuardCall(step) = <<"TIMEOUT", Timeout>>
      BY <1>1, <2>1, <2>2 DEF GuardCall
    <3>. QED  BY <1>2, <3>1
  <2>3. CASE step = 2
    <3>1. c = b /\ GuardCall(step) = <<"PRETIMEOUT", Pre>>
      BY <1>1, <2>1, <2>3 DEF GuardCall
    <3>. QED  BY <1>2, <3>1
  <2>4. CASE step = 3
    <3>1. c = WdtEnable /\ GuardCall(step) = <<"CTRL", WdtEnable[3]>>
      BY <1>1, <2>1, <2>4 DEF GuardCall
    <3>. QED  BY <1>2, <3>1
  <2>5. CASE step = 4
    <3>1. c = WdtLock /\ GuardCall(step) = <<"LOCK", {}>>
      BY <1>1, <2>1, <2>5 DEF GuardCall
    <3>. QED  BY <1>2, <3>1
  <2>. QED  BY <2>1, <2>2, <2>3, <2>4, <2>5
<1>. QED  BY <1>1, <1>3, <1>4

\* It waits, or makes its next call.
SetupMoves(acc) ==
  \/ /\ acc = Nothing /\ step' = step /\ back' = back
     /\ \/ at = "boot" /\ at' \in {"boot", "main"}
        \/ at = "main" /\ at' = "main"
  \/ /\ acc = GuardCall(step) /\ step' = step + 1 /\ back' = back
     /\ at = "main" /\ at' = "main" /\ gap' = 0

LEMMA SetupMovesOn ==
  ASSUME SysInv, GuardInv, Watched(program), step <= 3, NEW e, Cycle(e)
  PROVE  \E acc : ClockEdge(acc, e) /\ SetupMoves(acc)
<1>1. /\ step \in Nat \ {0} /\ at \in {"boot", "main"} /\ plic = "idle"
      /\ at # "boot" => hold = 0
  BY DEF SysInv, CoreInv, GuardInv, Booted
<1>2. /\ Program.irqs = {"wdt"} /\ ~Started
      /\ \A c \in Calls : c[1] = "store" /\ <<c[2], c[3]>> = GuardCall(step)
  BY <1>1, GuardCalls DEF SysInv
<1>3. ~Takes
  BY <1>1, <1>2 DEF Takes
<1>4. \/ Waits /\ Stays /\ ClockEdge(Nothing, e)
      \/ \E c \in Calls : c[1] = "store" /\ Steps("main") /\ Made("main")
                          /\ ClockEdge(<<c[2], c[3]>>, e)
  BY <1>1, <1>2, <1>3 DEF Cycle, Steps, Load
<1>5. CASE Waits /\ Stays /\ ClockEdge(Nothing, e)
  <2>1. SetupMoves(Nothing)
    BY <1>1, <1>2, <1>3, <1>5 DEF Waits, Stays, Steps, CoreRuns, Goes, SetupMoves
  <2>. QED  BY <1>5, <2>1
<1>6. ASSUME NEW c \in Calls, Steps("main"), Made("main"), ClockEdge(<<c[2], c[3]>>, e)
      PROVE  \E acc : ClockEdge(acc, e) /\ SetupMoves(acc)
  <2>1. at = "main" /\ at' = "main" /\ gap' = 0 /\ step' = step + 1 /\ back' = back
    BY <1>2, <1>6 DEF Steps, Made, Goes
  <2>2. SetupMoves(GuardCall(step)) /\ ClockEdge(GuardCall(step), e)
    BY <1>2, <1>6, <2>1 DEF SetupMoves
  <2>. QED  BY <2>2
<1>. QED  BY <1>4, <1>5, <1>6

LEMMA SetupStep ==
  ASSUME SysInv, GuardInv, Watched(program), step <= 3, NEW e, Cycle(e)
  PROVE  GuardInv'
<1>1. PICK acc : ClockEdge(acc, e) /\ SetupMoves(acc)
  BY SetupMovesOn
<1>2. /\ step \in {1, 2, 3} /\ at \in {"boot", "main"} /\ plic = "idle"
      /\ at = "boot" => step = 1
      /\ ~wdt.on /\ ~wdt.pending /\ ~wdt.locked /\ wdt.timeout = Timeout
      /\ DomainFree /\ back = "main"
      /\ step = 3 => wdt.pre = Pre
      /\ Pre \in Nat /\ Timeout \in Nat /\ Pre < Timeout
  BY SystemControlAssumption DEF GuardInv, Setup, DomainFree
<1>3. /\ acc = Nothing \/ (at = "main" /\ acc = GuardCall(step) /\ step' = step + 1 /\ gap' = 0)
      /\ acc = Nothing => step' = step
      /\ at' \in {"boot", "main"} /\ (at' = "boot" => step' = 1) /\ back' = "main"
  BY <1>1, <1>2 DEF SetupMoves, GuardCall, Nothing
<1>4. /\ acc[1] \in {"none", "TIMEOUT", "PRETIMEOUT", "CTRL"}
  BY <1>2, <1>3 DEF GuardCall, Nothing
<1>5. plic' = "idle" /\ DomainFree'
  BY <1>1, <1>2, <1>4, PlicIdle, DomainStaysFree
<1>6. CASE acc = Nothing
  <2>1. ~wdt'.on /\ ~wdt'.pending /\ ~wdt'.locked /\ wdt'.timeout = Timeout
    BY <1>1, <1>2, <1>6, WdtQuiet
  <2>2. step' = 3 => wdt'.pre = Pre
    <3>1. step = 3 => at # "boot" /\ wdt' = WdtEdge(acc)
      BY <1>1, <1>2, WdtClocked
    <3>2. acc[1] = "none"
      BY <1>6 DEF Nothing
    <3>3. WdtEdge(acc).pre = wdt.pre
      BY <3>2 DEF WdtEdge, Stored
    <3>. QED  BY <1>2, <1>3, <1>6, <3>1, <3>3
  <2>. QED  BY <1>2, <1>3, <1>5, <1>6, <2>1, <2>2 DEF GuardInv, Setup, DomainFree
<1>7. CASE acc # Nothing
  <2>1. at = "main" /\ acc = GuardCall(step) /\ step' = step + 1 /\ gap' = 0 /\ at' = "main"
    BY <1>1, <1>2, <1>3, <1>7 DEF SetupMoves
  <2>2. wdt' = WdtEdge(acc)
    BY <1>1, <1>2, <2>1, WdtClocked
  <2>3. /\ wdt'.timeout = (IF acc[1] = "TIMEOUT" THEN acc[2] ELSE Timeout)
        /\ wdt'.pre = (IF acc[1] = "PRETIMEOUT" THEN acc[2] ELSE wdt.pre)
        /\ ~wdt'.locked /\ ~wdt'.pending
    BY <1>2, <1>4, <2>2 DEF WdtEdge, Stored, PreHit
  <2>4. acc[1] # "CTRL" => ~wdt'.on
    BY <1>2, <2>2 DEF WdtEdge
  <2>5. CASE step = 1
    <3>1. acc = <<"TIMEOUT", Timeout>>
      BY <2>1, <2>5 DEF GuardCall
    <3>2. acc[1] = "TIMEOUT" /\ acc[2] = Timeout
      BY <3>1
    <3>3. step' = 2
      BY <2>1, <2>5
    <3>. QED  BY <1>2, <1>3, <1>5, <2>1, <2>3, <2>4, <3>2, <3>3 DEF GuardInv, Setup, DomainFree
  <2>6. CASE step = 2
    <3>1. acc = <<"PRETIMEOUT", Pre>>
      BY <2>1, <2>6 DEF GuardCall
    <3>2. acc[1] = "PRETIMEOUT" /\ acc[2] = Pre
      BY <3>1
    <3>3. step' = 3
      BY <2>1, <2>6
    <3>. QED  BY <1>2, <1>3, <1>5, <2>1, <2>3, <2>4, <3>2, <3>3 DEF GuardInv, Setup, DomainFree
  <2>7. CASE step = 3
    <3>1. acc = <<"CTRL", WdtEnable[3]>>
      BY <2>1, <2>7 DEF GuardCall
    <3>2. acc[1] = "CTRL" /\ acc[2] = WdtEnable[3]
      BY <3>1
    <3>3. acc[2].on /\ acc[2].irq
      BY <3>2 DEF WdtEnable
    <3>4. wdt'.on /\ wdt'.irq /\ wdt'.count = Timeout /\ wdt'.pre = Pre /\ wdt'.timeout = Timeout
      BY <1>2, <2>2, <2>3, <2>7, <3>2, <3>3 DEF WdtEdge
    <3>5. step' = 4
      BY <2>1, <2>7
    <3>6. Guarding'
      BY <1>2, <1>5, <2>1, <2>3, <3>4 DEF Guarding
    <3>. QED  BY <1>2, <1>3, <1>5, <2>1, <2>3, <3>4, <3>5, <3>6 DEF GuardInv, Setup, DomainFree
  <2>. QED  BY <1>2, <2>5, <2>6, <2>7
<1>. QED  BY <1>6, <1>7

-----------------------------------------------------------------------------
(* The watchdog runs, and its handler comes in time.                       *)

Free == {"main", "store", "doze"}

\* It stays where it is, without a clock or waiting; computes; goes on with the
\* program; wakes; takes the interrupt; serves it.
GuardMoves(acc) ==
  \/ /\ acc = Nothing /\ UNCHANGED <<at, gap>>
     /\ ~coreEn \/ (at \in {"main", "wfi"} /\ plic # "visible")
  \/ /\ acc = Nothing /\ coreEn /\ at # "wfi" /\ at' = at /\ gap < Gap /\ gap' = gap + 1
  \/ /\ acc[1] \notin {"CLAIM", "COMPLETE"} /\ coreEn /\ plic # "visible" /\ gap' = 0
     /\ at \in Free /\ at' \in Free \cup {"wfi"}
  \/ acc = Nothing /\ coreEn /\ at = "wfi" /\ at' = "main" /\ gap' = 0
  \/ /\ acc = Nothing /\ coreEn /\ plic = "visible" /\ gap' = 0
     /\ at \in Free /\ at' = "claim"
  \/ acc = <<"CLAIM", {}>> /\ coreEn /\ at = "claim" /\ at' = "serve" /\ gap' = 0
  \/ acc = <<"FEED", {}>> /\ coreEn /\ at = "serve" /\ at' = "complete" /\ gap' = 0
  \/ acc = <<"COMPLETE", {}>> /\ coreEn /\ at = "complete" /\ at' \in Free /\ gap' = 0

\* The program's last call of its start locks the watchdog.
LocksMoves(acc) ==
  \/ step = 5 /\ step' = 5
  \/ /\ step = 4 /\ step' = 4 /\ acc[1] \in {"none", "CLAIM", "FEED", "COMPLETE"}
     /\ at' \notin {"store", "doze", "wfi"} /\ back' = "main"
  \/ step = 4 /\ step' = 5 /\ acc[1] = "LOCK"

LEMMA GuardMovesOn ==
  ASSUME SysInv, GuardInv, Watched(program), step >= 4, NEW e, Cycle(e)
  PROVE  \E acc : ClockEdge(acc, e) /\ GuardMoves(acc) /\ LocksMoves(acc)
<1>1. /\ step \in {4, 5} /\ hold = 0
      /\ at \in Free \cup {"wfi", "claim", "serve", "complete"}
      /\ step = 4 => back = "main" /\ at \notin {"store", "doze", "wfi"}
      /\ back \in Free
      /\ at \in {"store"} => call[2] \in {"CLK_EN", "WAKE_EN"}
  BY DEF SysInv, CoreInv, CorePlaces, GuardInv, Setup, Booted, Free, Loads
<1>2. /\ Program.irqs = {"wdt"} /\ (Started <=> step = 5)
      /\ \A c \in Calls : step = 4 => c[1] = "store" /\ <<c[2], c[3]>> = <<"LOCK", {}>>
  <2>1. CoreInv
    BY DEF SysInv
  <2>2. step = 4 => GuardCall(step) = <<"LOCK", {}>>
    BY DEF GuardCall
  <2>. QED  BY <1>1, <2>1, <2>2, GuardCalls
<1>3. /\ Takes <=> at \in Free /\ plic = "visible"
      /\ \A where : Steps(where) <=> coreEn /\ at = where /\ ~Takes
      /\ CoreRuns <=> coreEn
  BY <1>1, <1>2 DEF Takes, Steps, CoreRuns, Free
<1>4. Nothing[1] = "none" /\ Nothing = <<"none", {}>>
  BY DEF Nothing
<1>5. CASE Waits /\ Stays /\ ClockEdge(Nothing, e)
  <2>1. step' = step /\ back' = back
    BY <1>5 DEF Stays
  <2>2. at' = at /\ \/ gap' = gap /\ (~coreEn \/ (at \in {"main", "wfi"} /\ plic # "visible"))
                    \/ coreEn /\ at # "wfi" /\ gap < Gap /\ gap' = gap + 1
    BY <1>1, <1>3, <1>5 DEF Waits, IrqPin, Free
  <2>3. GuardMoves(Nothing) /\ LocksMoves(Nothing)
    BY <1>1, <1>4, <2>1, <2>2 DEF GuardMoves, LocksMoves
  <2>. QED  BY <1>5, <2>3
<1>6. CASE Steps("store") /\ Made("main") /\ ClockEdge(<<call[2], Merged>>, e)
  <2>1. at = "store" /\ coreEn /\ plic # "visible" /\ at' = "main" /\ gap' = 0 /\ step = 5
    BY <1>1, <1>3, <1>6 DEF Made, Goes, Free
  <2>2. step' = 5
    BY <1>2, <1>6, <2>1 DEF Made
  <2>3. GuardMoves(<<call[2], Merged>>) /\ LocksMoves(<<call[2], Merged>>)
    BY <1>1, <2>1, <2>2 DEF GuardMoves, LocksMoves, Free
  <2>. QED  BY <1>6, <2>3
<1>7. ASSUME NEW c \in Calls, Steps("main"),
             \/ Load(c) /\ ClockEdge(Nothing, e)
             \/ c[1] = "store" /\ Made("main") /\ ClockEdge(<<c[2], c[3]>>, e)
             \/ c[1] = "doze" /\ Made("doze") /\ ClockEdge(<<c[2], c[3]>>, e)
             \/ c[1] = "wfi" /\ Dozes /\ Stays /\ ClockEdge(Nothing, e)
      PROVE  \E acc : ClockEdge(acc, e) /\ GuardMoves(acc) /\ LocksMoves(acc)
  <2>1. at = "main" /\ coreEn /\ plic # "visible"
    BY <1>3, <1>7 DEF Free
  <2>2. c[1] \in {"store", "doze"} => c[2] \notin {"CLAIM", "COMPLETE"}
    BY CallsFit, HelpersStore DEF SysInv
  <2>3. PICK acc : /\ ClockEdge(acc, e) /\ at' \in Free \cup {"wfi"} /\ gap' = 0
                   /\ acc = Nothing \/ (acc = <<c[2], c[3]>> /\ c[1] \in {"store", "doze"})
                   /\ step' = step \/ step' = IF Started THEN step ELSE step + 1
                   /\ c[1] = "store" => /\ acc = <<c[2], c[3]>> /\ at' = "main"
                                        /\ step' = IF Started THEN step ELSE step + 1
    BY <1>7 DEF Load, Made, Dozes, Stays, Goes, Free
  <2>4. acc[1] \notin {"CLAIM", "COMPLETE"}
    BY <1>4, <2>2, <2>3
  <2>5. LocksMoves(acc)
    <3>1. CASE step = 5
      BY <1>2, <2>3, <3>1 DEF LocksMoves
    <3>2. CASE step = 4
      <4>1. acc = <<"LOCK", {}>> /\ step' = 5
        BY <1>2, <2>3, <3>2
      <4>. QED  BY <3>2, <4>1 DEF LocksMoves
    <3>. QED  BY <1>1, <3>1, <3>2
  <2>6. GuardMoves(acc)
    BY <2>1, <2>3, <2>4 DEF GuardMoves, Free
  <2>. QED  BY <2>3, <2>5, <2>6
<1>8. CASE Steps("doze") /\ Dozes /\ Stays /\ ClockEdge(Nothing, e)
  <2>1. /\ at = "doze" /\ coreEn /\ plic # "visible" /\ at' \in {"main", "wfi"} /\ gap' = 0
        /\ step = 5 /\ step' = 5
    BY <1>1, <1>3, <1>8 DEF Dozes, Stays, Goes, Free
  <2>2. GuardMoves(Nothing) /\ LocksMoves(Nothing)
    BY <1>4, <2>1 DEF GuardMoves, LocksMoves, Free
  <2>. QED  BY <1>8, <2>2
<1>9. CASE CoreRuns /\ at = "wfi" /\ Goes("main") /\ Stays /\ ClockEdge(Nothing, e)
  <2>1. coreEn /\ at = "wfi" /\ at' = "main" /\ gap' = 0 /\ step = 5 /\ step' = 5
    BY <1>1, <1>3, <1>9 DEF Stays, Goes
  <2>2. GuardMoves(Nothing) /\ LocksMoves(Nothing)
    BY <2>1 DEF GuardMoves, LocksMoves
  <2>. QED  BY <1>9, <2>2
<1>10. CASE /\ CoreRuns /\ Takes /\ back' = at
            /\ Goes(IF plic = "visible" THEN "claim" ELSE "tick")
            /\ UNCHANGED <<step, call, got>> /\ ClockEdge(Nothing, e)
  <2>1. /\ coreEn /\ at \in Free /\ plic = "visible" /\ at' = "claim" /\ gap' = 0
        /\ step' = step /\ (step = 4 => back' = "main")
    BY <1>1, <1>3, <1>10 DEF Goes, Free
  <2>2. GuardMoves(Nothing) /\ LocksMoves(Nothing)
    BY <1>1, <1>4, <2>1 DEF GuardMoves, LocksMoves
  <2>. QED  BY <1>10, <2>2
<1>11. CASE Steps("claim") /\ Goes("serve") /\ Stays /\ ClockEdge(<<"CLAIM", {}>>, e)
  <2>1. /\ coreEn /\ at = "claim" /\ at' = "serve" /\ gap' = 0 /\ step' = step /\ back' = back
    BY <1>3, <1>11 DEF Goes, Stays
  <2>2. GuardMoves(<<"CLAIM", {}>>) /\ LocksMoves(<<"CLAIM", {}>>)
    BY <1>1, <2>1 DEF GuardMoves, LocksMoves
  <2>. QED  BY <1>11, <2>2
<1>12. CASE Steps("serve") /\ Goes("complete") /\ Stays /\ ClockEdge(<<"FEED", {}>>, e)
  <2>1. /\ coreEn /\ at = "serve" /\ at' = "complete" /\ gap' = 0 /\ step' = step /\ back' = back
    BY <1>3, <1>12 DEF Goes, Stays
  <2>2. GuardMoves(<<"FEED", {}>>) /\ LocksMoves(<<"FEED", {}>>)
    BY <1>1, <2>1 DEF GuardMoves, LocksMoves
  <2>. QED  BY <1>12, <2>2
<1>13. CASE Steps("complete") /\ Goes(back) /\ Stays /\ ClockEdge(<<"COMPLETE", {}>>, e)
  <2>1. /\ coreEn /\ at = "complete" /\ at' = back /\ gap' = 0 /\ step' = step /\ back' = back
    BY <1>3, <1>13 DEF Goes, Stays
  <2>2. GuardMoves(<<"COMPLETE", {}>>) /\ LocksMoves(<<"COMPLETE", {}>>)
    BY <1>1, <2>1 DEF GuardMoves, LocksMoves
  <2>. QED  BY <1>13, <2>2
<1>14. ~Steps("tick")
  BY <1>1 DEF Steps, Free
<1>. QED  BY <1>5, <1>6, <1>7, <1>8, <1>9, <1>10, <1>11, <1>12, <1>13, <1>14 DEF Cycle

\* What the edge does to a running watchdog whose registers are locked or left
\* alone, to its interrupt and to the clock of the core.
LEMMA GuardEdge ==
  ASSUME SysInv, GuardInv, step >= 4, NEW acc, NEW e, ClockEdge(acc, e), LocksMoves(acc)
  PROVE  /\ wdt'.on /\ wdt'.irq /\ wdt'.pre = Pre /\ wdt'.timeout = Timeout
         /\ wdt.count \in Nat \ {0}
         /\ wdt'.count = IF acc[1] = "FEED" THEN Timeout ELSE wdt.count - 1
         /\ wdt'.pending <=> (wdt.pending \/ wdt.count - 1 = Pre) /\ acc[1] # "FEED"
         /\ wdt'.locked <=> wdt.locked \/ acc[1] = "LOCK"
<1>1. /\ at # "boot" /\ wdt.on /\ wdt.irq /\ wdt.pre = Pre /\ wdt.timeout = Timeout
      /\ (wdt.locked /\ step = 5) \/ (step = 4 /\ DomainFree)
      /\ wdt.count \in Nat /\ Pre \in Nat \ {0} /\ Timeout \in Nat /\ Pre < Timeout
      /\ Pre \in 1 .. Timeout - 1
  BY SystemControlAssumption
     DEF SysInv, RegTypes, Timeouts, GuardInv, Guarding, Setup, DomainFree
<1>2. wdt' = WdtEdge(acc)
  BY <1>1, WdtClocked
<1>3. wdt.count # 0
  BY <1>1 DEF ClockEdge, WdtFires
<1>4. /\ PreHit <=> wdt.count - 1 = Pre
      /\ Counted = wdt.count - 1
  BY <1>1, <1>3 DEF PreHit, Counted
<1>5. wdt.locked \/ acc[1] \in {"none", "CLAIM", "FEED", "COMPLETE", "LOCK"}
  BY <1>1 DEF LocksMoves
<1>6. /\ WdtEdge(acc).on /\ WdtEdge(acc).irq /\ WdtEdge(acc).pre = Pre
      /\ WdtEdge(acc).timeout = Timeout
      /\ WdtEdge(acc).locked <=> wdt.locked \/ acc[1] = "LOCK"
  BY <1>1, <1>5 DEF WdtEdge, Stored
<1>7. WdtEdge(acc).count = IF acc[1] = "FEED" THEN Timeout ELSE wdt.count - 1
  BY <1>1, <1>4, <1>5 DEF WdtEdge, Fed
<1>8. WdtEdge(acc).pending <=> (wdt.pending \/ wdt.count - 1 = Pre) /\ acc[1] # "FEED"
  BY <1>1, <1>4, <1>5 DEF WdtEdge, Fed
<1>. QED  BY <1>1, <1>2, <1>3, <1>6, <1>7, <1>8

LEMMA PlicEdge ==
  ASSUME "wdt" \in Program.irqs, wdt.irq, NEW acc, NEW e, ClockEdge(acc, e),
         acc[1] = "CLAIM" => plic = "visible", acc[1] = "COMPLETE" => plic = "claimed"
  PROVE  /\ acc[1] = "CLAIM" => plic' = "claimed"
         /\ acc[1] = "COMPLETE" => plic' = "idle"
         /\ acc[1] \notin {"CLAIM", "COMPLETE"} =>
              plic' = CASE plic = "idle" /\ wdt.pending -> "pending"
                        [] plic = "pending" -> "visible"
                        [] OTHER -> plic
<1>1. WdtIrq <=> wdt.pending
  BY DEF WdtIrq
<1>2. CASE acc[1] = "CLAIM"
  BY <1>2 DEF ClockEdge
<1>3. CASE acc[1] = "COMPLETE"
  BY <1>3 DEF ClockEdge
<1>4. CASE acc[1] \notin {"CLAIM", "COMPLETE"}
  BY <1>1, <1>4 DEF ClockEdge
<1>. QED  BY <1>2, <1>3, <1>4

\* The core's clock stops only in WFI, and not in front of its interrupt.
LEMMA ClockStops ==
  ASSUME SysInv, NEW acc, NEW e, ClockEdge(acc, e), ~coreEn'
  PROVE  plic # "visible" /\ (~coreEn \/ at = "wfi")
<1>1. sleep = ~coreEn
  BY DEF SysInv, RegTypes
<1>2. CASE plic = "visible"
  <2>1. Awakes
    BY <1>2 DEF Awakes, IrqPin
  <2>. QED  BY <1>1, <2>1 DEF ClockEdge, Handshake
<1>3. CASE plic # "visible"
  BY <1>1, <1>3 DEF ClockEdge, Handshake, Enters
<1>. QED  BY <1>2, <1>3

\* The places of a program and its interrupt, apart from the watchdog.
InPlace ==
  /\ plic \in {"idle", "pending", "visible", "claimed"}
  /\ at \in Free \cup {"wfi", "claim", "serve", "complete"} /\ gap \in 0 .. Gap
  /\ at = "claim" => plic = "visible"
  /\ at \in {"serve", "complete"} <=> plic = "claimed"
  /\ ~coreEn => at \in {"wfi", "main"} /\ (at = "main" => gap = 0)

LEMMA InPlaceStep ==
  ASSUME SysInv, InPlace, "wdt" \in Program.irqs, wdt.irq, NEW acc, NEW e, ClockEdge(acc, e),
         GuardMoves(acc)
  PROVE  InPlace'
<1>1. Gap \in Nat
  BY SystemControlAssumption
<1>2. /\ acc[1] = "CLAIM" => plic' = "claimed"
      /\ acc[1] = "COMPLETE" => plic' = "idle"
      /\ acc[1] \notin {"CLAIM", "COMPLETE"} =>
           plic' = CASE plic = "idle" /\ wdt.pending -> "pending"
                     [] plic = "pending" -> "visible"
                     [] OTHER -> plic
  BY PlicEdge DEF GuardMoves, InPlace, Nothing
<1>3. ~coreEn' => plic # "visible" /\ (~coreEn \/ at = "wfi")
  BY ClockStops
<1>4. ~coreEn' => at' \in {"wfi", "main"} /\ (at' = "main" => gap' = 0)
  BY <1>3 DEF GuardMoves, InPlace, Free
<1>5. at' \in Free \cup {"wfi", "claim", "serve", "complete"} /\ gap' \in 0 .. Gap
  BY <1>1 DEF GuardMoves, InPlace, Free
<1>6. /\ plic' \in {"idle", "pending", "visible", "claimed"}
      /\ at' = "claim" => plic' = "visible"
      /\ at' \in {"serve", "complete"} <=> plic' = "claimed"
  BY <1>2 DEF GuardMoves, InPlace, Free, Nothing
<1>. QED  BY <1>4, <1>5, <1>6 DEF InPlace

LeftBounded == Left \in 1 .. 3 * Gap + 7

LEMMA LeftBounds == InPlace => LeftBounded
<1>. SUFFICES ASSUME InPlace PROVE Left \in 1 .. 3 * Gap + 7
  BY DEF LeftBounded
<1>1. Gap \in Nat /\ gap \in 0 .. Gap
  BY SystemControlAssumption DEF InPlace
<1>. QED  BY <1>1 DEF Left

\* Every step but the end of the handler uses up one of the cycles that are left.
LEMMA LeftShrinks ==
  ASSUME SysInv, InPlace, "wdt" \in Program.irqs, wdt.irq, wdt.pending, NEW acc, NEW e,
         ClockEdge(acc, e), GuardMoves(acc), acc[1] \notin {"FEED", "COMPLETE"}
  PROVE  Left' <= Left - 1 \/ (at = "complete" /\ at' = "complete" /\ Left' = 1)
<1>1. Gap \in Nat /\ gap \in 0 .. Gap /\ InPlace'
  BY SystemControlAssumption, InPlaceStep DEF InPlace
<1>2. /\ acc[1] = "CLAIM" => plic' = "claimed"
      /\ acc[1] # "CLAIM" =>
           plic' = CASE plic = "idle" -> "pending"
                     [] plic = "pending" -> "visible"
                     [] OTHER -> plic
  BY PlicEdge DEF GuardMoves, InPlace, Nothing
<1>3. plic = "visible" => coreEn'
  BY ClockStops
<1>4. CASE plic = "idle"
  <2>1. acc[1] # "CLAIM"
    BY <1>4 DEF InPlace, GuardMoves, Nothing
  <2>2. plic' = "pending"
    BY <1>2, <1>4, <2>1
  <2>. QED  BY <1>1, <1>4, <2>2 DEF Left
<1>5. CASE plic = "pending"
  <2>1. acc[1] # "CLAIM" /\ at' # "claim"
    BY <1>5 DEF InPlace, GuardMoves, Nothing, Free
  <2>2. plic' = "visible" /\ gap' \in 0 .. Gap
    BY <1>1, <1>2, <1>5, <2>1 DEF InPlace
  <2>3. Left = 3 * Gap + 6 /\ Left' <= 3 * Gap + 5
    BY <1>1, <1>5, <2>1, <2>2 DEF Left
  <2>. QED  BY <1>1, <2>3
<1>6. CASE plic = "visible"
  <2>1. CASE acc = <<"CLAIM", {}>>
    <3>1. at = "claim" /\ at' = "serve" /\ gap' = 0 /\ plic' = "claimed"
      BY <1>2, <2>1 DEF GuardMoves, Nothing
    <3>. QED  BY <1>1, <1>6, <3>1 DEF Left
  <2>2. CASE acc # <<"CLAIM", {}>>
    <3>1. \/ ~coreEn /\ UNCHANGED <<at, gap>>
          \/ coreEn /\ at # "wfi" /\ at' = at /\ gap < Gap /\ gap' = gap + 1
          \/ coreEn /\ at = "wfi" /\ at' = "main" /\ gap' = 0
          \/ coreEn /\ at \in Free /\ at' = "claim" /\ gap' = 0
      BY <1>6, <2>2 DEF GuardMoves
    <3>2. plic' = "visible" /\ coreEn'
      BY <1>2, <1>3, <1>6, <2>2 DEF GuardMoves, Nothing
    <3>3. at \in Free \cup {"wfi", "claim"} /\ (~coreEn => at \in {"wfi", "main"} /\ (at = "main" => gap = 0))
      BY <1>6 DEF InPlace
    <3>. QED  BY <1>1, <1>6, <3>1, <3>2, <3>3 DEF Left, Free
  <2>. QED  BY <2>1, <2>2
<1>7. CASE plic = "claimed"
  <2>1. at \in {"serve", "complete"} /\ coreEn
    BY <1>7 DEF InPlace
  <2>2. acc = Nothing /\ at' = at /\ gap < Gap /\ gap' = gap + 1
    BY <1>7, <2>1 DEF GuardMoves, Free
  <2>3. plic' = "claimed"
    BY <1>2, <1>7, <2>2 DEF Nothing
  <2>. QED  BY <1>1, <1>7, <2>1, <2>2, <2>3 DEF Left
<1>. QED  BY <1>4, <1>5, <1>6, <1>7 DEF InPlace

LEMMA GuardStep ==
  ASSUME SysInv, GuardInv, Watched(program), step >= 4, Pre >= 3 * Gap + 7,
         Timeout >= Pre + Gap + 1, NEW e, Cycle(e)
  PROVE  GuardInv'
<1>1. PICK acc : ClockEdge(acc, e) /\ GuardMoves(acc) /\ LocksMoves(acc)
  BY GuardMovesOn
<1>2. /\ "wdt" \in Program.irqs /\ Guarding /\ step \in {4, 5} /\ at # "boot" /\ wdt.irq
  BY GuardCalls DEF SysInv, GuardInv, Guarding
<1>3. InPlace /\ Gap \in Nat /\ Pre \in Nat /\ Timeout \in Nat
  BY <1>2, SystemControlAssumption
     DEF SysInv, CoreInv, CorePlaces, GuardInv, Guarding, InPlace, Free
<1>4. InPlace'
  BY <1>1, <1>2, <1>3, InPlaceStep
<1>5. /\ wdt'.on /\ wdt'.irq /\ wdt'.pre = Pre /\ wdt'.timeout = Timeout
      /\ wdt.count \in Nat \ {0}
      /\ wdt'.count = IF acc[1] = "FEED" THEN Timeout ELSE wdt.count - 1
      /\ wdt'.pending <=> (wdt.pending \/ wdt.count - 1 = Pre) /\ acc[1] # "FEED"
      /\ wdt'.locked <=> wdt.locked \/ acc[1] = "LOCK"
  BY <1>1, <1>2, GuardEdge
<1>6. /\ at = "complete" => wdt.count >= Pre + Gap + 1 - gap
      /\ IF wdt.pending THEN wdt.count >= Left ELSE wdt.count > Pre
      /\ gap \in 0 .. Gap /\ gap' \in 0 .. Gap
      /\ Left' \in 1 .. 3 * Gap + 7
  <2>1. InPlace' => LeftBounded'
    BY LeftBounds, PTL
  <2>. QED  BY <1>2, <1>3, <1>4, <2>1 DEF Guarding, InPlace, LeftBounded
<1>7. at' = "complete" => wdt'.count >= Pre + Gap + 1 - gap'
  <2>1. CASE at' = "complete" /\ at = "serve"
    <3>1. acc[1] = "FEED" /\ gap' = 0
      BY <1>1, <2>1 DEF GuardMoves, Free
    <3>. QED  BY <1>3, <1>5, <3>1
  <2>2. CASE at' = "complete" /\ at # "serve"
    <3>1. at = "complete" /\ acc[1] = "none" /\ gap' = gap + 1
      BY <1>1, <1>3, <2>2 DEF GuardMoves, Free, InPlace, Nothing
    <3>. QED  BY <1>3, <1>5, <1>6, <3>1
  <2>. QED  BY <2>1, <2>2
<1>8. IF wdt'.pending THEN wdt'.count >= Left' ELSE wdt'.count > Pre
  <2>1. CASE acc[1] = "FEED"
    BY <1>3, <1>5, <2>1
  <2>2. CASE acc[1] = "COMPLETE"
    <3>1. wdt.count >= Pre + Gap + 1 - gap
      BY <1>1, <1>6, <2>2 DEF GuardMoves, Nothing
    <3>2. wdt'.count = wdt.count - 1 /\ (wdt'.pending <=> wdt.pending \/ wdt.count - 1 = Pre)
      BY <1>5, <2>2
    <3>. QED  BY <1>3, <1>5, <1>6, <3>1, <3>2
  <2>3. CASE acc[1] \notin {"FEED", "COMPLETE"}
    <3>1. wdt'.count = wdt.count - 1 /\ (wdt'.pending <=> wdt.pending \/ wdt.count - 1 = Pre)
      BY <1>5, <2>3
    <3>2. CASE wdt.pending
      <4>1. Left' <= Left - 1 \/ (at' = "complete" /\ Left' = 1)
        BY <1>1, <1>2, <1>3, <2>3, <3>2, LeftShrinks
      <4>2. Left \in 1 .. 3 * Gap + 7
        BY <1>3, LeftBounds DEF LeftBounded
      <4>. QED  BY <1>3, <1>5, <1>6, <1>7, <3>1, <3>2, <4>1, <4>2
    <3>3. CASE ~wdt.pending
      BY <1>3, <1>5, <1>6, <3>1, <3>3
    <3>. QED  BY <3>2, <3>3
  <2>. QED  BY <2>1, <2>2, <2>3
<1>9. Guarding'
  BY <1>4, <1>5, <1>7, <1>8 DEF Guarding, InPlace
<1>10. step' \in {4, 5} /\ IF step' <= 4 THEN Setup' ELSE wdt'.locked
  <2>1. CASE step' = 4
    <3>1. /\ step = 4 /\ acc[1] \in {"none", "CLAIM", "FEED", "COMPLETE"}
          /\ at' \notin {"store", "doze", "wfi"} /\ back' = "main"
      BY <1>1, <2>1 DEF LocksMoves
    <3>2. DomainFree /\ ~wdt.locked
      BY <3>1 DEF GuardInv, Setup, DomainFree
    <3>3. DomainFree' /\ ~wdt'.locked
      BY <1>1, <1>5, <3>1, <3>2, DomainStaysFree
    <3>. QED  BY <2>1, <3>1, <3>3 DEF Setup, DomainFree
  <2>2. CASE step' # 4
    <3>1. step' = 5 /\ (step = 5 \/ acc[1] = "LOCK")
      BY <1>1, <2>2 DEF LocksMoves
    <3>2. wdt'.locked
      BY <1>5, <3>1 DEF GuardInv
    <3>. QED  BY <3>1, <3>2
  <2>. QED  BY <2>1, <2>2
<1>11. at' \notin {"boot", "tick", "done"}
  BY <1>4 DEF InPlace, Free
<1>. QED  BY <1>5, <1>9, <1>10, <1>11 DEF GuardInv

-----------------------------------------------------------------------------
(* Fed in time.                                                            *)

\* After power-on, and after every reset of the system.
SystemRestarts == FromReset /\ plic = "idle"

LEMMA RestartIsFed == SystemRestarts => FeedInv
<1>. SUFFICES ASSUME SystemRestarts PROVE FeedInv
  OBVIOUS
<1>1. /\ ~wdt.on /\ ~wdt.pending /\ ~wdt.locked /\ wdt.timeout = Timeout
      /\ step = 1 /\ at = "boot" /\ plic = "idle" /\ back = "main" /\ coreEn
  BY DEF SystemRestarts, FromReset, WdtReset
<1>2. DomainFree
  BY DEF SystemRestarts, FromReset, DomainFree, Domains
<1>. QED  BY <1>1, <1>2 DEF FeedInv, SmokeInv, GuardInv, Setup, DomainFree

LEMMA FeedInvInit == SysInit => FeedInv
<1>1. 0 \in 0 .. Pulse
  BY SystemControlAssumption
<1>. QED  BY <1>1, RestartIsFed DEF SysInit, SystemRestarts, FromReset

LEMMA FeedInvNext ==
  ASSUME SysInv, FeedInv, [SysNext]_sysVars, Pre >= 3 * Gap + 7, Timeout >= Pre + Gap + 1
  PROVE  FeedInv'
<1>1. CASE Resets
  <2>1. PICK c : SysReset(c)
    BY <1>1 DEF Resets
  <2>2. program' \in Loaded /\ Pulse \in 0 .. Pulse
    BY <2>1, SystemControlAssumption DEF SysReset, SysInv, CoreInv
  <2>3. SystemRestarts'
    BY <2>1, <2>2 DEF SysReset, SystemRestarts, FromReset, WdtReset, Domains
  <2>. QED  BY <2>3, RestartIsFed, PTL
<1>2. ASSUME NEW e, Cycle(e) PROVE FeedInv'
  <2>1. program' = program
    BY <1>2, CycleStep DEF SysInv, ClockEdge
  <2>2. program = "wdt_smoke" => SmokeInv'
    BY <1>2, SmokeStep DEF FeedInv
  <2>3. Watched(program) => GuardInv'
    <3>1. step \in Nat
      BY DEF SysInv, CoreInv
    <3>2. step <= 3 \/ step >= 4
      BY <3>1
    <3>. QED  BY <1>2, <3>2, SetupStep, GuardStep DEF FeedInv
  <2>4. Unwatched(program) => ~wdt'.on
    BY <1>2, UnwatchedStep DEF FeedInv, SysInv
  <2>. QED  BY <2>1, <2>2, <2>3, <2>4 DEF FeedInv, Watched, Unwatched
<1>3. CASE UNCHANGED sysVars
  BY <1>3 DEF sysVars, core, soc, FeedInv, SmokeInv, GuardInv, Setup, Guarding, Left, Watched,
              Unwatched
<1>. QED  BY <1>1, <1>2, <1>3 DEF SysNext

(* Software that feeds the watchdog in the handler of its early warning is *)
(* not reset by it, asleep or awake, and wdt_smoke not before its last     *)
(* feed: the warning must leave the time of the path from the interrupt to *)
(* the feed, three stretches of computing and seven steps, and the feed    *)
(* must bring the count past the next warning until the handler has        *)
(* completed.  Once the watchdog is locked the program may call anything.  *)
THEOREM WarningIsServed ==
  ASSUME Pre >= 3 * Gap + 7, Timeout >= Pre + Gap + 1,
         \A p \in Loaded \ {"wdt_smoke", "low_power"} : Watched(p) \/ Unwatched(p)
  PROVE  SysSpec => []FedInTime
<1>1. SysInv /\ FeedInv => FedInTime
  <2>. SUFFICES ASSUME SysInv, FeedInv, WdtFires, ~(program = "wdt_smoke" /\ Started)
                PROVE  FALSE
    BY DEF FedInTime
  <2>1. /\ wdt.on /\ wdt.count = 0 /\ program \in Loaded /\ step \in Nat \ {0}
        /\ Gap \in Nat /\ Pre \in Nat
    BY SystemControlAssumption DEF WdtFires, SysInv, CoreInv
  <2>2. CASE program = "wdt_smoke"
    <3>1. step <= 6
      BY <2>1, <2>2, SmokeCalls
    <3>2. at # "boot" /\ step \in 4 .. 6
      BY <2>1, <2>2, <3>1 DEF FeedInv, SmokeInv
    <3>3. gap \in 0 .. Gap
      BY <3>2 DEF SysInv, CoreInv
    <3>. QED  BY <2>1, <2>2, <3>2, <3>3 DEF FeedInv, SmokeInv
  <2>3. CASE Watched(program)
    <3>1. step \in {4, 5} /\ Guarding /\ at # "boot"
      BY <2>1, <2>3 DEF FeedInv, GuardInv
    <3>2. InPlace
      BY <3>1, <2>3 DEF SysInv, CoreInv, CorePlaces, FeedInv, GuardInv, Guarding, InPlace, Free
    <3>3. Left \in 1 .. 3 * Gap + 7
      BY <3>2, LeftBounds DEF LeftBounded
    <3>. QED  BY <2>1, <3>1, <3>3 DEF Guarding
  <2>4. CASE Unwatched(program)
    BY <2>1, <2>4 DEF FeedInv
  <2>. QED  BY <2>1, <2>2, <2>3, <2>4 DEF Unwatched
<1>2. SysInit => SysInv /\ FeedInv
  BY SysInvInit, FeedInvInit
<1>3. SysInv /\ FeedInv /\ [SysNext]_sysVars => (SysInv /\ FeedInv)'
  BY SysInvNext, FeedInvNext
<1>. QED  BY <1>1, <1>2, <1>3, PTL DEF SysSpec


-----------------------------------------------------------------------------
(* The boot: what the file says, entry by entry.                           *)

(* Induction over the natural numbers, as a fact about sets, and a function *)
(* defined by recursion.                                                    *)

Less == {ss \in Nat \X Nat : ss[1] < ss[2]}

LEMMA LessWF == IsWellFoundedOn(Less, Nat)
<1>1. OpToRel(<, Nat) = Less
  BY Zenon DEF OpToRel, Less
<1>. QED  BY <1>1, NatLessThanWellFounded, Zenon

LEMMA LessIs == \A u, v \in Nat : u < v => <<u, v>> \in Less
<1>. TAKE u, v \in Nat
<1>. HAVE u < v
<1>. DEFINE p == <<u, v>>
<1>1. p \in Nat \X Nat /\ p[1] = u /\ p[2] = v
  OBVIOUS
<1>. QED  BY <1>1 DEF Less

LEMMA Induct ==
  ASSUME NEW S, 0 \in S, \A n \in Nat : n \in S => n + 1 \in S
  PROVE  Nat \subseteq S
<1>. DEFINE T == Nat \ S
<1>. SUFFICES ASSUME T # {} PROVE FALSE
  OBVIOUS
<1>1. T \subseteq Nat
  OBVIOUS
<1>. HIDE DEF T
<1>2. PICK x \in T : \A y \in T : ~(<<y, x>> \in Less)
  BY <1>1, LessWF, WFMin, Zenon
<1>3. x # 0 /\ x - 1 \in Nat /\ x - 1 < x
  BY <1>1 DEF T
<1>4. x - 1 \in S
  BY <1>1, <1>2, <1>3, LessIs DEF T
<1>. QED  BY <1>3, <1>4 DEF T

LEMMA IsSeqOf ==
  ASSUME NEW V, NEW n \in Nat, NEW q \in [1 .. n -> V]
  PROVE  q \in Seq(V) /\ Len(q) = n /\ DOMAIN q = 1 .. n
<1>1. q \in Seq(V)
  BY IsASeq
<1>. QED  BY <1>1, LenProperties

Recurs(g, m, V, first, onward) ==
  /\ g \in [0 .. m -> V] /\ g[0] = first
  /\ \A k \in 1 .. m : g[k] = onward[k][g[k - 1]]

LEMMA Recursion ==
  ASSUME NEW n \in Nat, NEW V, NEW first \in V, NEW onward \in [1 .. n -> [V -> V]]
  PROVE  \E g : Recurs(g, n, V, first, onward)
<1>. DEFINE R(g, m) == Recurs(g, m, V, first, onward)
            S == {m \in Nat : m <= n => \E g : R(g, m)}
<1>1. 0 \in S
  <2>. DEFINE f == [k \in 0 .. 0 |-> first]
  <2>1. R(f, 0)
    BY DEF Recurs
  <2>. QED  BY <2>1
<1>2. ASSUME NEW m \in Nat, m \in S, m + 1 <= n
      PROVE  \E g : R(g, m + 1)
  <2>0. PICK g : R(g, m)
    BY <1>2
  <2>1. /\ g \in [0 .. m -> V] /\ g[0] = first
        /\ \A k \in 1 .. m : g[k] = onward[k][g[k - 1]]
    BY <2>0 DEF Recurs
  <2>2. m + 1 \in 1 .. n /\ g[m] \in V
    BY <1>2, <2>1
  <2>. DEFINE v == onward[m + 1][g[m]]
  <2>3. v \in V
    BY <2>2
  <2>. HIDE DEF v
  <2>. DEFINE h == [k \in 0 .. m + 1 |-> IF k = m + 1 THEN v ELSE g[k]]
  <2>4. h \in [0 .. m + 1 -> V] /\ h[0] = first /\ h[m + 1] = v /\ h[m] = g[m]
    BY <2>1, <2>3
  <2>5. ASSUME NEW k \in 1 .. m + 1
        PROVE  h[k] = onward[k][h[k - 1]]
    <3>1. CASE k = m + 1
      BY <2>4, <3>1 DEF v
    <3>2. CASE k # m + 1
      <4>1. k \in 1 .. m /\ k - 1 \in 0 .. m /\ h[k] = g[k] /\ h[k - 1] = g[k - 1]
        BY <3>2
      <4>. QED  BY <2>1, <4>1
    <3>. QED  BY <3>1, <3>2
  <2>. HIDE DEF h
  <2>. QED  BY <2>4, <2>5 DEF Recurs
<1>. HIDE DEF R
<1>3. \A m \in Nat : m \in S => m + 1 \in S
  BY <1>2
<1>. HIDE DEF S
<1>4. n \in S
  BY <1>1, <1>3, Induct
<1>. QED  BY <1>4 DEF S, R

-----------------------------------------------------------------------------
(* The file, what it says, and the bytes that the loader sends of it.      *)

N == Len(File)
Word == [1 .. 4 -> 0 .. 255]
Addresses == 0 .. Depth - 1

LEMMA FileIs ==
  /\ N \in Nat /\ Depth \in Nat /\ Depth > 0 /\ 0 \in Addresses
  /\ \A k \in 1 .. N : /\ File[k].kind \in {"@", "word"} /\ File[k].word \in Word
                       /\ AddrOf(File[k].word) \in Addresses
  /\ \A a \in Addresses : Advance(a) \in Addresses
  /\ Zero \in Word /\ AddrOf(Zero) = 0
<1>. DEFINE R == [kind : {"@", "word"}, word : Word]
<1>1. File \in Seq(R) /\ Depth \in 1 .. 256
  BY BootAssumption DEF Word
<1>. HIDE DEF R
<1>2. N \in Nat /\ \A k \in 1 .. N : File[k] \in R
  BY <1>1, ElementOfSeq, LenProperties DEF N
<1>3. \A k \in 1 .. N : File[k].kind \in {"@", "word"} /\ File[k].word \in Word
  BY <1>2 DEF R
<1>4. \A x \in Nat : x % Depth \in Addresses
  BY <1>1 DEF Addresses
<1>5. \A w \in Word : w[1] \in Nat
  BY DEF Word
<1>6. Zero \in Word /\ Zero[1] = 0
  BY DEF Zero, Word
<1>7. 0 % Depth = 0
  BY <1>1
<1>8. \A a \in Addresses : a + 1 \in Nat
  BY <1>1 DEF Addresses
<1>9. /\ \A k \in 1 .. N : AddrOf(File[k].word) \in Addresses
      /\ \A a \in Addresses : Advance(a) \in Addresses
  BY <1>3, <1>4, <1>5, <1>8 DEF AddrOf, Advance
<1>10. AddrOf(Zero) = 0 /\ 0 \in Addresses
  BY <1>1, <1>6, <1>7 DEF AddrOf, Addresses
<1>11. Depth \in Nat /\ Depth > 0
  BY <1>1
<1>. QED  BY <1>2, <1>3, <1>6, <1>9, <1>10, <1>11, Zenon

\* What is known of the image when an entry of the file has been read.
NextRead(r, k) ==
  IF File[k].kind = "@" THEN [r EXCEPT !.next = AddrOf(File[k].word)]
  ELSE [next |-> Advance(r.next),
        words |-> [a \in DOMAIN r.words \cup {r.next} |->
                     IF a = r.next THEN File[k].word ELSE r.words[a]]]
FirstRead == [next |-> 0, words |-> [a \in {} |-> Zero]]
ReadType == [next : Addresses, words : UNION {[A -> Word] : A \in SUBSET Addresses}]

LEMMA NextReadType ==
  ASSUME NEW r \in ReadType, NEW k \in 1 .. N
  PROVE  NextRead(r, k) \in ReadType
<1>. DEFINE W == UNION {[A -> Word] : A \in SUBSET Addresses}
            f == [a \in DOMAIN r.words \cup {r.next} |->
                     IF a = r.next THEN File[k].word ELSE r.words[a]]
            x == AddrOf(File[k].word)
            y == Advance(r.next)
<1>1. r.next \in Addresses /\ r.words \in W
  BY DEF ReadType
<1>2. x \in Addresses /\ y \in Addresses /\ File[k].word \in Word
  BY <1>1, FileIs
<1>3. PICK A \in SUBSET Addresses : r.words \in [A -> Word]
  BY <1>1
<1>4. f \in [A \cup {r.next} -> Word] /\ A \cup {r.next} \in SUBSET Addresses
  BY <1>1, <1>2, <1>3
<1>5. f \in W
  BY <1>4
<1>6. NextRead(r, k) = IF File[k].kind = "@" THEN [r EXCEPT !.next = x]
                       ELSE [next |-> y, words |-> f]
  BY Zenon DEF NextRead
<1>7. r \in [next : Addresses, words : W]
  BY DEF ReadType
<1>. HIDE DEF W, f, x, y
<1>8. [r EXCEPT !.next = x] \in [next : Addresses, words : W]
  BY <1>2, <1>7
<1>9. [next |-> y, words |-> f] \in [next : Addresses, words : W]
  BY <1>2, <1>5
<1>. QED  BY <1>6, <1>8, <1>9 DEF W, ReadType

LEMMA ReadingIs ==
  /\ Reading \in [0 .. N -> ReadType] /\ Reading[0] = FirstRead
  /\ \A k \in 1 .. N : Reading[k] = NextRead(Reading[k - 1], k)
<1>. DEFINE onward == [k \in 1 .. N |-> [r \in ReadType |-> NextRead(r, k)]]
<1>1. N \in Nat /\ onward \in [1 .. N -> [ReadType -> ReadType]]
  BY FileIs, NextReadType
<1>2. FirstRead \in ReadType
  <2>. DEFINE e == [a \in {} |-> Zero]
              W == UNION {[A -> Word] : A \in SUBSET Addresses}
  <2>1. e \in [{} -> Word] /\ {} \in SUBSET Addresses
    OBVIOUS
  <2>2. e \in W /\ 0 \in Addresses
    BY <2>1, FileIs
  <2>. HIDE DEF e, W
  <2>3. [next |-> 0, words |-> e] \in [next : Addresses, words : W]
    BY <2>2
  <2>. QED  BY <2>3 DEF e, W, FirstRead, ReadType
<1>3. \E g : Recurs(g, N, ReadType, FirstRead, onward)
  <2>. HIDE DEF onward
  <2>. QED  BY <1>1, <1>2, Recursion
<1>4. PICK g \in [0 .. N -> ReadType] :
        g[0] = FirstRead /\ \A k \in 1 .. N : g[k] = onward[k][g[k - 1]]
  <2>. HIDE DEF onward
  <2>. QED  BY <1>3 DEF Recurs
<1>5. \A k \in 1 .. N : g[k] = NextRead(g[k - 1], k)
  <2>. TAKE k \in 1 .. N
  <2>1. k - 1 \in 0 .. N
    BY <1>1
  <2>2. g[k - 1] \in ReadType
    BY <2>1
  <2>. QED  BY <1>4, <2>2
<1>. DEFINE Rec(f) == [k \in 0 .. N |-> IF k = 0 THEN FirstRead ELSE NextRead(f[k - 1], k)]
<1>6. g = Rec(g)
  <2>1. \A k \in 0 .. N : g[k] = IF k = 0 THEN FirstRead ELSE NextRead(g[k - 1], k)
    <3>. TAKE k \in 0 .. N
    <3>1. k # 0 => k \in 1 .. N
      BY <1>1
    <3>. QED  BY <1>4, <1>5, <3>1
  <2>. HIDE DEF onward
  <2>. QED  BY <2>1
<1>7. Reading = Rec(Reading)
  <2>1. Reading = CHOOSE f : f = Rec(f)
    BY Zenon DEF Reading, NextRead, FirstRead, N
  <2>. HIDE DEF Rec
  <2>. QED  BY <1>6, <2>1
<1>. HIDE DEF onward
<1>8. ASSUME NEW f, f = Rec(f)
      PROVE  \A k \in 0 .. N : f[k] = g[k]
  <2>. DEFINE S == {k \in Nat : k <= N => f[k] = g[k]}
  <2>1. \A k \in 0 .. N : f[k] = IF k = 0 THEN FirstRead ELSE NextRead(f[k - 1], k)
    BY <1>8
  <2>2. 0 \in S
    BY <1>1, <1>4, <2>1
  <2>3. \A k \in Nat : k \in S => k + 1 \in S
    <3>. SUFFICES ASSUME NEW k \in Nat, k \in S, k + 1 <= N PROVE f[k + 1] = g[k + 1]
      OBVIOUS
    <3>1. k + 1 \in 0 .. N /\ k + 1 \in 1 .. N /\ k + 1 - 1 = k /\ f[k] = g[k] /\ k + 1 # 0
      BY <1>1
    <3>2. f[k + 1] = NextRead(f[k], k + 1)
      BY <2>1, <3>1
    <3>. QED  BY <1>5, <3>1, <3>2
  <2>. HIDE DEF S
  <2>4. Nat \subseteq S
    BY <2>2, <2>3, Induct
  <2>. QED  BY <1>1, <2>4 DEF S
<1>9. Reading = g
  <2>1. DOMAIN Reading = 0 .. N /\ Reading = [k \in 0 .. N |-> Reading[k]]
    BY <1>7
  <2>2. \A k \in 0 .. N : Reading[k] = g[k]
    BY <1>7, <1>8
  <2>. QED  BY <2>1, <2>2
<1>. QED  BY <1>4, <1>5, <1>9

-----------------------------------------------------------------------------
(* The bytes that the loader sends.                                        *)

Byte == 0 .. 255

LEMMA LineIs ==
  ASSUME NEW k \in 1 .. N
  PROVE  LET l == LineOf(File[k])
         IN /\ l \in Seq(Byte) /\ Len(l) = 5
            /\ l[1] = IF File[k].kind = "@" THEN 1 ELSE 2
            /\ \A j \in 1 .. 4 : l[j + 1] = File[k].word[j]
<1>. DEFINE o == IF File[k].kind = "@" THEN 1 ELSE 2
            w == File[k].word
<1>1. w \in Word /\ o \in Byte
  BY FileIs DEF Byte
<1>2. LineOf(File[k]) = <<o>> \o w
  BY DEF LineOf
<1>. HIDE DEF o, w
<1>3. w \in Seq(Byte) /\ Len(w) = 4
  <2>1. w \in [1 .. 4 -> Byte]
    BY <1>1 DEF Word, Byte
  <2>. QED  BY <2>1, IsSeqOf
<1>4. <<o>> \in Seq(Byte) /\ Len(<<o>>) = 1 /\ <<o>>[1] = o
  BY <1>1
<1>. DEFINE s == <<o>>
<1>5. s \in Seq(Byte) /\ Len(s) = 1 /\ s[1] = o
  BY <1>4
<1>. HIDE DEF s
<1>. DEFINE l == s \o w
<1>6. /\ l \in Seq(Byte) /\ Len(l) = Len(s) + Len(w)
      /\ \A i \in 1 .. Len(s) + Len(w) : l[i] = IF i <= Len(s) THEN s[i] ELSE w[i - Len(s)]
  BY <1>3, <1>5, ConcatProperties, Zenon
<1>7. LineOf(File[k]) = l
  BY <1>2 DEF s
<1>8. l \in Seq(Byte) /\ Len(l) = 5 /\ \A i \in 1 .. 5 : l[i] = IF i <= 1 THEN s[i] ELSE w[i - 1]
  <2>. HIDE DEF l
  <2>. QED  BY <1>3, <1>5, <1>6
<1>. HIDE DEF l
<1>9. l[1] = o
  BY <1>5, <1>8
<1>10. \A j \in 1 .. 4 : l[j + 1] = w[j]
  <2>. TAKE j \in 1 .. 4
  <2>. j + 1 \in 1 .. 5 /\ ~(j + 1 <= 1) /\ j + 1 - 1 = j
    OBVIOUS
  <2>. QED  BY <1>8
<1>. QED  BY <1>7, <1>8, <1>9, <1>10 DEF o, w

FirstSent == <<3, 6, 5, 1>>
NextSent(s, k) == s \o LineOf(File[k])

LEMMA SentUnfolds ==
  /\ Sent \in [0 .. N -> Seq(Byte)] /\ Sent[0] = FirstSent
  /\ \A k \in 1 .. N : Sent[k] = NextSent(Sent[k - 1], k)
<1>. DEFINE V == Seq(Byte)
            onward == [k \in 1 .. N |-> [s \in V |-> NextSent(s, k)]]
            Rec(f) == [k \in 0 .. N |-> IF k = 0 THEN FirstSent ELSE NextSent(f[k - 1], k)]
<1>1. N \in Nat /\ FirstSent \in V
  BY FileIs DEF FirstSent, Byte
<1>2. \A k \in 1 .. N : \A s \in V : NextSent(s, k) \in V
  BY LineIs, ConcatProperties DEF NextSent
<1>. HIDE DEF V
<1>3. onward \in [1 .. N -> [V -> V]]
  BY <1>2
<1>4. \E g : Recurs(g, N, V, FirstSent, onward)
  <2>. HIDE DEF onward
  <2>. QED  BY <1>1, <1>3, Recursion
<1>5. PICK g \in [0 .. N -> V] :
        g[0] = FirstSent /\ \A k \in 1 .. N : g[k] = onward[k][g[k - 1]]
  <2>. HIDE DEF onward
  <2>. QED  BY <1>4 DEF Recurs
<1>6. \A k \in 1 .. N : g[k] = NextSent(g[k - 1], k)
  <2>. TAKE k \in 1 .. N
  <2>1. k - 1 \in 0 .. N
    BY <1>1
  <2>2. g[k - 1] \in V
    BY <2>1
  <2>. QED  BY <1>5, <2>2
<1>. HIDE DEF onward
<1>7. g = Rec(g)
  <2>1. \A k \in 0 .. N : g[k] = IF k = 0 THEN FirstSent ELSE NextSent(g[k - 1], k)
    <3>. TAKE k \in 0 .. N
    <3>1. k # 0 => k \in 1 .. N
      BY <1>1
    <3>. QED  BY <1>5, <1>6, <3>1
  <2>. QED  BY <2>1
<1>8. Sent = Rec(Sent)
  <2>1. Sent = CHOOSE f : f = Rec(f)
    BY Zenon DEF Sent, FirstSent, NextSent, N
  <2>. HIDE DEF Rec
  <2>. QED  BY <1>7, <2>1
<1>9. ASSUME NEW f, f = Rec(f)
      PROVE  \A k \in 0 .. N : f[k] = g[k]
  <2>. DEFINE S == {k \in Nat : k <= N => f[k] = g[k]}
  <2>1. \A k \in 0 .. N : f[k] = IF k = 0 THEN FirstSent ELSE NextSent(f[k - 1], k)
    BY <1>9
  <2>2. 0 \in S
    BY <1>1, <1>5, <2>1
  <2>3. \A k \in Nat : k \in S => k + 1 \in S
    <3>. SUFFICES ASSUME NEW k \in Nat, k \in S, k + 1 <= N PROVE f[k + 1] = g[k + 1]
      OBVIOUS
    <3>1. k + 1 \in 0 .. N /\ k + 1 \in 1 .. N /\ k + 1 - 1 = k /\ f[k] = g[k] /\ k + 1 # 0
      BY <1>1
    <3>2. f[k + 1] = NextSent(f[k], k + 1)
      BY <2>1, <3>1
    <3>3. g[k + 1] = NextSent(g[k], k + 1)
      BY <1>6, <3>1
    <3>. QED  BY <3>1, <3>2, <3>3
  <2>. HIDE DEF S
  <2>4. Nat \subseteq S
    BY <2>2, <2>3, Induct
  <2>. QED  BY <1>1, <2>4 DEF S
<1>10. Sent = g
  <2>1. DOMAIN Sent = 0 .. N /\ Sent = [k \in 0 .. N |-> Sent[k]]
    BY <1>8
  <2>2. \A k \in 0 .. N : Sent[k] = g[k]
    BY <1>8, <1>9
  <2>. QED  BY <2>1, <2>2
<1>. QED  BY <1>5, <1>6, <1>10 DEF V

\* The bytes of the first k entries.
SentText(s, k) ==
  /\ s \in Seq(Byte) /\ Len(s) = 4 + 5 * k
  /\ s[1] = 3 /\ s[2] = 6 /\ s[3] = 5 /\ s[4] = 1
  /\ \A h \in 0 .. k - 1 :
       /\ s[5 + 5 * h] = IF File[h + 1].kind = "@" THEN 1 ELSE 2
       /\ \A j \in 1 .. 4 : s[5 + 5 * h + j] = File[h + 1].word[j]

LEMMA LineAdded ==
  ASSUME NEW k \in Nat, k + 1 <= N, NEW s, SentText(s, k)
  PROVE  SentText(NextSent(s, k + 1), k + 1)
<1>. DEFINE l == LineOf(File[k + 1])
            r == s \o l
<1>1. k + 1 \in 1 .. N
  BY FileIs
<1>2. /\ l \in Seq(Byte) /\ Len(l) = 5 /\ l[1] = IF File[k + 1].kind = "@" THEN 1 ELSE 2
      /\ \A j \in 1 .. 4 : l[j + 1] = File[k + 1].word[j]
  BY <1>1, LineIs
<1>3. s \in Seq(Byte) /\ Len(s) = 4 + 5 * k
  BY DEF SentText
<1>. HIDE DEF l
<1>4. /\ r \in Seq(Byte) /\ Len(r) = Len(s) + Len(l)
      /\ \A i \in 1 .. Len(s) + Len(l) : r[i] = IF i <= Len(s) THEN s[i] ELSE l[i - Len(s)]
  BY <1>2, <1>3, ConcatProperties
<1>. HIDE DEF r
<1>5. Len(r) = 4 + 5 * (k + 1)
  BY <1>2, <1>3, <1>4
<1>6. \A i \in 1 .. 4 + 5 * k : r[i] = s[i]
  BY <1>2, <1>3, <1>4
<1>7. \A j \in 1 .. 5 : r[4 + 5 * k + j] = l[j]
  BY <1>2, <1>3, <1>4
<1>8. r[1] = 3 /\ r[2] = 6 /\ r[3] = 5 /\ r[4] = 1
  BY <1>6 DEF SentText
<1>9. ASSUME NEW h \in 0 .. k
      PROVE  /\ r[5 + 5 * h] = IF File[h + 1].kind = "@" THEN 1 ELSE 2
             /\ \A j \in 1 .. 4 : r[5 + 5 * h + j] = File[h + 1].word[j]
  <2>1. CASE h = k
    <3>1. r[5 + 5 * k] = l[1]
      <4>. 5 + 5 * k = 4 + 5 * k + 1
        OBVIOUS
      <4>. QED  BY <1>7
    <3>2. ASSUME NEW j \in 1 .. 4
          PROVE  r[5 + 5 * k + j] = l[j + 1]
      <4>. 5 + 5 * k + j = 4 + 5 * k + (j + 1) /\ j + 1 \in 1 .. 5
        OBVIOUS
      <4>. QED  BY <1>7
    <3>. QED  BY <1>2, <2>1, <3>1, <3>2
  <2>2. CASE h # k
    <3>1. h \in 0 .. k - 1 /\ 5 + 5 * h \in 1 .. 4 + 5 * k
      BY <2>2
    <3>2. \A j \in 1 .. 4 : 5 + 5 * h + j \in 1 .. 4 + 5 * k
      BY <3>1
    <3>. QED  BY <1>6, <3>1, <3>2 DEF SentText
  <2>. QED  BY <2>1, <2>2
<1>10. \A h \in 0 .. (k + 1) - 1 : h \in 0 .. k
  OBVIOUS
<1>11. SentText(r, k + 1)
  BY <1>4, <1>5, <1>8, <1>9, <1>10 DEF SentText
<1>. QED  BY <1>11 DEF r, l, NextSent

LEMMA SentIs == SentText(Sent[N], N)
<1>. DEFINE S == {k \in Nat : k <= N => SentText(Sent[k], k)}
<1>1. 0 \in S
  <2>1. Sent[0] = FirstSent
    BY SentUnfolds
  <2>2. /\ FirstSent \in Seq(Byte) /\ Len(FirstSent) = 4
        /\ FirstSent[1] = 3 /\ FirstSent[2] = 6 /\ FirstSent[3] = 5 /\ FirstSent[4] = 1
    BY DEF FirstSent, Byte
  <2>. QED  BY <2>1, <2>2 DEF SentText
<1>2. ASSUME NEW k \in Nat, k \in S, k + 1 <= N
      PROVE  SentText(Sent[k + 1], k + 1)
  <2>1. k + 1 \in 1 .. N /\ k + 1 - 1 = k /\ SentText(Sent[k], k)
    BY <1>2, FileIs
  <2>2. Sent[k + 1] = NextSent(Sent[k], k + 1)
    BY <2>1, SentUnfolds
  <2>. QED  BY <1>2, <2>1, <2>2, LineAdded
<1>3. \A k \in Nat : k \in S => k + 1 \in S
  BY <1>2
<1>. HIDE DEF S
<1>4. N \in S
  BY <1>1, <1>3, FileIs, Induct
<1>. QED  BY <1>4, FileIs DEF S

\* All that the loader sends, and the release.
Whole == Append(Sent[N], 4)

LEMMA WholeIs ==
  /\ Whole \in Seq(Byte) /\ Len(Whole) = 5 + 5 * N /\ Whole[5 + 5 * N] = 4
  /\ Whole[1] = 3 /\ Whole[2] = 6 /\ Whole[3] = 5 /\ Whole[4] = 1
  /\ \A h \in 0 .. N - 1 :
       /\ Whole[5 + 5 * h] = IF File[h + 1].kind = "@" THEN 1 ELSE 2
       /\ \A j \in 1 .. 4 : Whole[5 + 5 * h + j] = File[h + 1].word[j]
<1>. DEFINE s == Sent[N]
<1>1. N \in Nat /\ s \in Seq(Byte) /\ Len(s) = 4 + 5 * N /\ SentText(s, N) /\ 4 \in Byte
  BY SentIs, FileIs DEF SentText, Byte
<1>. HIDE DEF s
<1>. DEFINE w == Append(s, 4)
<1>2. /\ w \in Seq(Byte) /\ Len(w) = Len(s) + 1
      /\ \A i \in 1 .. Len(s) : w[i] = s[i]
      /\ w[Len(s) + 1] = 4
  BY <1>1, AppendProperties
<1>. HIDE DEF w
<1>3. Len(w) = 5 + 5 * N /\ w[5 + 5 * N] = 4 /\ \A i \in 1 .. 4 + 5 * N : w[i] = s[i]
  BY <1>1, <1>2
<1>4. w[1] = 3 /\ w[2] = 6 /\ w[3] = 5 /\ w[4] = 1
  BY <1>1, <1>3 DEF SentText
<1>5. ASSUME NEW h \in 0 .. N - 1
      PROVE  /\ w[5 + 5 * h] = IF File[h + 1].kind = "@" THEN 1 ELSE 2
             /\ \A j \in 1 .. 4 : w[5 + 5 * h + j] = File[h + 1].word[j]
  <2>1. 5 + 5 * h \in 1 .. 4 + 5 * N /\ \A j \in 1 .. 4 : 5 + 5 * h + j \in 1 .. 4 + 5 * N
    BY <1>1
  <2>. QED  BY <1>1, <1>3, <2>1 DEF SentText
<1>. QED  BY <1>2, <1>3, <1>4, <1>5 DEF w, s, Whole

-----------------------------------------------------------------------------
(* The controller of the boot, and the commands of an entry.               *)

\* The first k entries of the file are in the memory m.
Contains(m, k) ==
  \A a \in DOMAIN Reading[k].words : m[a] = Reading[k].words[a]

\* The memory when the port has written; the registers and that memory after a
\* command.
Flushed(m, p) == IF p.we THEN [m EXCEPT ![p.addr] = p.word] ELSE m
Steered(b, c) ==
  [addr |-> IF "write" \in c.does /\ b.auto THEN Advance(b.addr)
            ELSE IF "set_addr" \in c.does THEN c.addr ELSE b.addr,
   auto |-> "auto" \in c.does \/ (b.auto /\ "still" \notin c.does),
   released |-> "release" \in c.does \/ (b.released /\ "hold" \notin c.does)]
Put(b, m, c) == IF "write" \in c.does THEN [m EXCEPT ![b.addr] = c.word] ELSE m

\* The next entry is due.
ReadTo(k, b, m) ==
  /\ k \in 0 .. N /\ b.auto /\ ~b.released
  /\ b.addr = Reading[k].next /\ Contains(m, k)

RegsType == [addr : Addresses, auto : BOOLEAN, released : BOOLEAN]
IsMemory(m) == m = [a \in Addresses |-> m[a]]
BootTypes ==
  /\ boot \in RegsType
  /\ port \in [we : BOOLEAN, addr : Addresses, word : {port.word}]
  /\ IsMemory(imem)

\* A command that sets the address sets it within the memory.
Sound(c) == "set_addr" \in c.does => c.addr \in Addresses

LEMMA SteeredIs ==
  ASSUME NEW b \in RegsType, NEW c, Sound(c)
  PROVE  LET s == Steered(b, c)
         IN /\ s \in RegsType
            /\ s.addr = IF "write" \in c.does /\ b.auto THEN Advance(b.addr)
                        ELSE IF "set_addr" \in c.does THEN c.addr ELSE b.addr
            /\ s.auto = ("auto" \in c.does \/ (b.auto /\ "still" \notin c.does))
            /\ s.released = ("release" \in c.does \/ (b.released /\ "hold" \notin c.does))
<1>. DEFINE x == IF "write" \in c.does /\ b.auto THEN Advance(b.addr)
                 ELSE IF "set_addr" \in c.does THEN c.addr ELSE b.addr
            y == "auto" \in c.does \/ (b.auto /\ "still" \notin c.does)
            z == "release" \in c.does \/ (b.released /\ "hold" \notin c.does)
            s == [addr |-> x, auto |-> y, released |-> z]
<1>1. x \in Addresses
  BY FileIs DEF RegsType, Sound
<1>2. y \in BOOLEAN /\ z \in BOOLEAN
  OBVIOUS
<1>3. Steered(b, c) = s
  BY Zenon DEF Steered
<1>. HIDE DEF x, y, z
<1>4. s \in RegsType /\ s.addr = x /\ s.auto = y /\ s.released = z
  BY <1>1, <1>2 DEF RegsType
<1>. QED  BY <1>3, <1>4 DEF x, y, z

LEMMA NothingSteered ==
  ASSUME NEW b \in RegsType, NEW m, NEW c, c.does = {}
  PROVE  Steered(b, c) = b /\ Put(b, m, c) = m
<1>1. Sound(c)
  BY DEF Sound
<1>. DEFINE s == Steered(b, c)
<1>2. s \in RegsType /\ s.addr = b.addr /\ s.auto = b.auto /\ s.released = b.released
  BY <1>1, SteeredIs DEF RegsType
<1>. HIDE DEF s
<1>3. s = b
  BY <1>2 DEF RegsType
<1>. QED  BY <1>3 DEF s, Put

LEMMA NoCommandIs == NoCommand.does = {} /\ Sound(NoCommand)
BY DEF NoCommand, Command, Sound

LEMMA FlushedIs ==
  ASSUME BootTypes
  PROVE  IsMemory(Flushed(imem, port))
<1>. DEFINE m == Flushed(imem, port)
            w == port.word
            p == port.addr
            f == [imem EXCEPT ![p] = w]
<1>1. imem = [a \in Addresses |-> imem[a]] /\ p \in Addresses
  BY DEF BootTypes, IsMemory
<1>2. m = IF port.we THEN f ELSE imem
  BY DEF Flushed
<1>. HIDE DEF w, p, m
<1>3. f = [a \in Addresses |-> f[a]]
  BY <1>1
<1>. HIDE DEF f
<1>4. m = [a \in Addresses |-> m[a]]
  BY <1>1, <1>2, <1>3
<1>. QED  BY <1>4 DEF m, IsMemory

\* An edge of the clock carries out the command in the arbiter.
LEMMA BootClockIs ==
  ASSUME BootTypes, NEW d, NEW b, BootClock(d, b), Sound(Arbitrated(d))
  PROVE  LET c == Arbitrated(d)
         IN /\ BootTypes' /\ boot' = Steered(boot, c)
            /\ Flushed(imem', port') = Put(boot, Flushed(imem, port), c)
            /\ (port'.we <=> "write" \in c.does) /\ imem' = Flushed(imem, port)
<1>. DEFINE c == Arbitrated(d)
            m == Flushed(imem, port)
<1>1. boot \in RegsType /\ boot.addr \in Addresses /\ DOMAIN m = Addresses
      /\ m = [a \in Addresses |-> m[a]]
  BY FlushedIs DEF BootTypes, RegsType, IsMemory
<1>2. boot' = Steered(boot, c)
  BY Zenon DEF BootClock, BootNext, Steered
<1>3. imem' = m
  BY Zenon DEF BootClock, Flushed
<1>4. port' = IF "write" \in c.does
                THEN [we |-> TRUE, addr |-> boot.addr, word |-> c.word]
                ELSE [port EXCEPT !.we = FALSE]
  BY DEF BootClock
<1>5. Sound(c)
  OBVIOUS
<1>. HIDE DEF c, m
<1>6. /\ port' \in [we : BOOLEAN, addr : Addresses, word : {port'.word}]
      /\ (port'.we <=> "write" \in c.does)
      /\ "write" \in c.does => port'.addr = boot.addr /\ port'.word = c.word
  <2>1. port \in [we : BOOLEAN, addr : Addresses, word : {port.word}]
    BY DEF BootTypes
  <2>2. CASE "write" \in c.does
    <3>. DEFINE w == c.word q == [we |-> TRUE, addr |-> boot.addr, word |-> w]
    <3>1. port' = q
      BY <1>4, <2>2
    <3>. HIDE DEF w
    <3>2. q \in [we : BOOLEAN, addr : Addresses, word : {q.word}]
          /\ q.we /\ q.addr = boot.addr /\ q.word = w
      BY <1>1
    <3>. HIDE DEF q
    <3>. QED  BY <2>2, <3>1, <3>2 DEF w
  <2>3. CASE "write" \notin c.does
    <3>. DEFINE q == [port EXCEPT !.we = FALSE]
    <3>1. q \in [we : BOOLEAN, addr : Addresses, word : {q.word}] /\ ~q.we
      BY <2>1
    <3>2. port' = q
      BY <1>4, <2>3
    <3>. HIDE DEF q
    <3>. QED  BY <2>3, <3>1, <3>2
  <2>. QED  BY <2>2, <2>3
<1>7. IsMemory(imem)'
  BY <1>1, <1>3 DEF IsMemory
<1>8. boot' \in RegsType
  BY <1>1, <1>2, <1>5, SteeredIs
<1>9. BootTypes'
  BY <1>6, <1>7, <1>8 DEF BootTypes
<1>10. Flushed(imem', port') = Put(boot, m, c)
  BY <1>3, <1>6 DEF Flushed, Put
<1>. QED  BY <1>2, <1>3, <1>6, <1>9, <1>10 DEF c, m

\* The command of an entry.
LineCommand(c, k) ==
  IF File[k].kind = "@" THEN c.does = {"set_addr"} /\ c.addr = AddrOf(File[k].word)
  ELSE c.does = {"write"} /\ c.word = File[k].word

LEMMA LineDoes ==
  ASSUME NEW k \in Nat, k < N, NEW b \in RegsType, NEW m, DOMAIN m = Addresses,
         ReadTo(k, b, m), NEW c, LineCommand(c, k + 1)
  PROVE  Sound(c) /\ ReadTo(k + 1, Steered(b, c), Put(b, m, c))
<1>1. k + 1 \in 1 .. N /\ k + 1 \in 0 .. N /\ k + 1 - 1 = k /\ k \in 0 .. N
  BY FileIs
<1>. DEFINE r == Reading[k]
            q == Reading[k + 1]
            f == File[k + 1]
<1>2. r \in ReadType /\ q = NextRead(r, k + 1)
  BY <1>1, ReadingIs
<1>3. b.addr = r.next /\ b.auto /\ ~b.released /\ \A a \in DOMAIN r.words : m[a] = r.words[a]
  BY DEF ReadTo, Contains
<1>4. AddrOf(f.word) \in Addresses
  BY <1>1, FileIs
<1>5. Sound(c)
  BY <1>4 DEF LineCommand, Sound
<1>. DEFINE s == Steered(b, c)
<1>6. /\ s.addr = IF "write" \in c.does /\ b.auto THEN Advance(b.addr)
                  ELSE IF "set_addr" \in c.does THEN c.addr ELSE b.addr
      /\ s.auto = ("auto" \in c.does \/ (b.auto /\ "still" \notin c.does))
      /\ s.released = ("release" \in c.does \/ (b.released /\ "hold" \notin c.does))
  BY <1>5, SteeredIs
<1>7. r.next \in Addresses /\ r \in [next : Addresses, words : {r.words}]
  BY <1>2 DEF ReadType
<1>. HIDE DEF s, r, q
<1>8. CASE f.kind = "@"
  <2>. DEFINE x == AddrOf(f.word)
  <2>1. c.does = {"set_addr"} /\ c.addr = x
    BY <1>8 DEF LineCommand
  <2>2. q = [r EXCEPT !.next = x]
    BY <1>2, <1>8 DEF NextRead
  <2>. HIDE DEF x
  <2>3. q.next = x /\ q.words = r.words
    BY <1>7, <2>2
  <2>4. s.addr = x /\ s.auto /\ ~s.released
    BY <1>3, <1>6, <2>1
  <2>5. Put(b, m, c) = m
    BY <2>1 DEF Put
  <2>. QED  BY <1>1, <1>3, <1>5, <2>3, <2>4, <2>5 DEF ReadTo, Contains, s, q
<1>9. CASE f.kind # "@"
  <2>. DEFINE w == f.word
              y == Advance(r.next)
              D == DOMAIN r.words \cup {r.next}
              g == [a \in D |-> IF a = r.next THEN w ELSE r.words[a]]
              n == [m EXCEPT ![b.addr] = w]
  <2>1. c.does = {"write"} /\ c.word = w
    BY <1>9 DEF LineCommand
  <2>2. q = [next |-> y, words |-> g]
    BY <1>2, <1>9, Zenon DEF NextRead
  <2>3. Put(b, m, c) = n
    BY <2>1 DEF Put
  <2>4. DOMAIN g = D /\ \A a \in D : g[a] = IF a = r.next THEN w ELSE r.words[a]
    OBVIOUS
  <2>. HIDE DEF w, y, g
  <2>5. q.next = y /\ q.words = g
    BY <2>2
  <2>6. s.addr = y /\ s.auto /\ ~s.released
    BY <1>3, <1>6, <2>1 DEF y
  <2>7. ASSUME NEW a \in D
        PROVE  n[a] = g[a]
    <3>1. CASE a = r.next
      BY <1>3, <1>7, <2>4, <3>1
    <3>2. CASE a # r.next
      BY <1>3, <2>4, <3>2
    <3>. QED  BY <3>1, <3>2
  <2>. HIDE DEF n
  <2>8. Contains(n, k + 1)
    BY <2>4, <2>5, <2>7 DEF Contains, q
  <2>. QED  BY <1>1, <1>5, <2>3, <2>5, <2>6, <2>8 DEF ReadTo, s, q
<1>. QED  BY <1>8, <1>9

-----------------------------------------------------------------------------
(* The parser of the boot UART.                                            *)

\* The parser has taken j bytes of the entry after the first k.
ParserType == [state : {"addr", "data"}, shift : Seq(Byte)]
InLine(ps, k, j) ==
  IF j = 0 THEN ps = Expecting("opcode")
  ELSE /\ ps \in ParserType /\ ps.state = IF File[k + 1].kind = "@" THEN "addr" ELSE "data"
       /\ Len(ps.shift) = j - 1
       /\ \A i \in 1 .. j - 1 : ps.shift[i] = File[k + 1].word[i]

\* The first p bytes have been taken, and what they command is done.
Header(p, ps, b, m) ==
  /\ p \in 0 .. 3 /\ ReadTo(0, b, m)
  /\ ps = Expecting(IF p = 3 THEN "auto" ELSE "opcode")
Within(p, ps, b, m, k, j) ==
  /\ k \in 0 .. N /\ j \in 0 .. 4 /\ (k = N => j = 0) /\ p = 4 + 5 * k + j
  /\ ReadTo(k, b, m) /\ InLine(ps, k, j)
Taken(p, ps, b, m) ==
  Header(p, ps, b, m) \/ \E k \in 0 .. N, j \in 0 .. 4 : Within(p, ps, b, m, k, j)

LEMMA HeaderDoes ==
  ASSUME NEW b \in RegsType, NEW m, ReadTo(0, b, m), NEW c,
         c.does \subseteq {"hold", "set_addr", "auto"}, c.addr = 0
  PROVE  Sound(c) /\ ReadTo(0, Steered(b, c), Put(b, m, c))
<1>1. Sound(c)
  BY FileIs DEF Sound
<1>2. Put(b, m, c) = m
  BY DEF Put
<1>3. Reading[0].next = 0
  <2>1. Reading[0] = FirstRead
    BY ReadingIs
  <2>. DEFINE w == [a \in {} |-> Zero]
  <2>2. FirstRead = [next |-> 0, words |-> w]
    BY DEF FirstRead
  <2>. HIDE DEF w
  <2>. QED  BY <2>1, <2>2
<1>. DEFINE s == Steered(b, c)
<1>4. /\ s.addr = IF "write" \in c.does /\ b.auto THEN Advance(b.addr)
                  ELSE IF "set_addr" \in c.does THEN c.addr ELSE b.addr
      /\ s.auto = ("auto" \in c.does \/ (b.auto /\ "still" \notin c.does))
      /\ s.released = ("release" \in c.does \/ (b.released /\ "hold" \notin c.does))
  BY <1>1, SteeredIs
<1>. HIDE DEF s
<1>5. s.addr = 0 /\ s.auto /\ ~s.released
  BY <1>3, <1>4 DEF ReadTo
<1>. QED  BY <1>1, <1>2, <1>3, <1>5 DEF ReadTo, s

LEMMA CommandIs ==
  \A does, addr, word : LET c == Command(does, addr, word)
                        IN c.does = does /\ c.addr = addr /\ c.word = word
BY DEF Command

LEMMA ExpectingIs ==
  \A what : Expecting(what).state = what /\ Expecting(what).shift = <<>>
BY DEF Expecting

\* The four bytes before the file.
LEMMA HeaderByte ==
  ASSUME NEW b \in RegsType, NEW m, NEW p, Header(p, parser, b, m)
  PROVE  LET x == Parsed(Whole[p + 1])
         IN Sound(x.cmd) /\ Taken(p + 1, x.next, Steered(b, x.cmd), Put(b, m, x.cmd))
<1>. DEFINE x == Parsed(Whole[p + 1])
<1>1. NoCommand.does = {} /\ NoCommand.addr = 0
  BY DEF NoCommand, Command
<1>2. CASE p = 0
  <2>1. Whole[p + 1] = 3 /\ parser = Expecting("opcode") /\ parser.state = "opcode"
    BY <1>2, WholeIs, ExpectingIs DEF Header
  <2>2. x = [next |-> parser, cmd |-> Command({"hold"}, 0, Zero)]
    BY <2>1 DEF Parsed, Opcode
  <2>. DEFINE c == Command({"hold"}, 0, Zero)
  <2>3. c.does = {"hold"} /\ c.addr = 0
    BY CommandIs
  <2>. HIDE DEF c
  <2>4. x.next = parser /\ x.cmd = c
    BY <2>2 DEF c
  <2>. HIDE DEF x
  <2>5. Sound(c) /\ ReadTo(0, Steered(b, c), Put(b, m, c))
    BY <2>3, HeaderDoes DEF Header
  <2>6. Header(p + 1, parser, Steered(b, c), Put(b, m, c))
    BY <1>2, <2>1, <2>5 DEF Header
  <2>. QED  BY <2>4, <2>5, <2>6 DEF Taken, x
<1>3. CASE p = 1
  <2>1. Whole[p + 1] = 6 /\ parser = Expecting("opcode") /\ parser.state = "opcode"
    BY <1>3, WholeIs, ExpectingIs DEF Header
  <2>2. x = [next |-> parser, cmd |-> Command({"set_addr"}, 0, Zero)]
    BY <2>1 DEF Parsed, Opcode
  <2>. DEFINE c == Command({"set_addr"}, 0, Zero)
  <2>3. c.does = {"set_addr"} /\ c.addr = 0
    BY CommandIs
  <2>. HIDE DEF c
  <2>4. x.next = parser /\ x.cmd = c
    BY <2>2 DEF c
  <2>. HIDE DEF x
  <2>5. Sound(c) /\ ReadTo(0, Steered(b, c), Put(b, m, c))
    BY <2>3, HeaderDoes DEF Header
  <2>6. Header(p + 1, parser, Steered(b, c), Put(b, m, c))
    BY <1>3, <2>1, <2>5 DEF Header
  <2>. QED  BY <2>4, <2>5, <2>6 DEF Taken, x
<1>4. CASE p = 2
  <2>1. Whole[p + 1] = 5 /\ parser.state = "opcode"
    BY <1>4, WholeIs, ExpectingIs DEF Header
  <2>2. x = [next |-> Expecting("auto"), cmd |-> NoCommand]
    BY <2>1 DEF Parsed, Opcode
  <2>4. x.next = Expecting("auto") /\ x.cmd = NoCommand
    BY <2>2
  <2>. DEFINE c == NoCommand
  <2>. HIDE DEF x
  <2>5. Sound(c) /\ ReadTo(0, Steered(b, c), Put(b, m, c))
    BY <1>1, HeaderDoes DEF Header
  <2>6. Header(p + 1, x.next, Steered(b, c), Put(b, m, c))
    BY <1>4, <2>4, <2>5 DEF Header
  <2>. QED  BY <2>4, <2>5, <2>6 DEF Taken, x
<1>5. CASE p = 3
  <2>1. Whole[p + 1] = 1 /\ parser = Expecting("auto") /\ parser.state = "auto"
    BY <1>5, WholeIs, ExpectingIs DEF Header
  <2>. DEFINE c == Command({"auto"}, 0, Zero)
  <2>2. Payload(1) = c
    BY <2>1 DEF Payload
  <2>3. c.does = {"auto"} /\ c.addr = 0
    BY CommandIs
  <2>. HIDE DEF c
  <2>4. x = [next |-> Expecting("opcode"), cmd |-> c]
    BY <2>1, <2>2 DEF Parsed
  <2>5. x.next = Expecting("opcode") /\ x.cmd = c
    BY <2>4
  <2>. HIDE DEF x
  <2>6. Sound(c) /\ ReadTo(0, Steered(b, c), Put(b, m, c))
    BY <2>3, HeaderDoes DEF Header
  <2>7. Within(p + 1, x.next, Steered(b, c), Put(b, m, c), 0, 0)
    BY <1>5, <2>5, <2>6, FileIs DEF Within, InLine
  <2>8. 0 \in 0 .. N
    BY FileIs
  <2>. QED  BY <2>5, <2>6, <2>7, <2>8 DEF Taken, x
<1>. QED  BY <1>2, <1>3, <1>4, <1>5 DEF Header

LEMMA NothingDone ==
  ASSUME NEW b \in RegsType, NEW m
  PROVE  Sound(NoCommand) /\ Steered(b, NoCommand) = b /\ Put(b, m, NoCommand) = m
BY NoCommandIs, NothingSteered

LEMMA ParserIs ==
  ASSUME NEW a \in {"addr", "data"}, NEW ps \in ParserType, NEW v \in Byte
  PROVE  LET q == [ps EXCEPT !.shift = Append(@, v)]
         IN /\ Expecting(a) \in ParserType
            /\ q \in ParserType /\ q.state = ps.state /\ q.shift = Append(ps.shift, v)
BY DEF ParserType, Expecting

\* Where the next byte of an entry stands, and what it is.
LEMMA NextByte ==
  ASSUME NEW k \in 0 .. N - 1
  PROVE  /\ Whole[4 + 5 * k + 0 + 1] = IF File[k + 1].kind = "@" THEN 1 ELSE 2
         /\ \A j \in 1 .. 4 : Whole[4 + 5 * k + j + 1] = File[k + 1].word[j]
<1>1. /\ Whole[5 + 5 * k] = IF File[k + 1].kind = "@" THEN 1 ELSE 2
      /\ \A j \in 1 .. 4 : Whole[5 + 5 * k + j] = File[k + 1].word[j]
  BY WholeIs
<1>2. 4 + 5 * k + 0 + 1 = 5 + 5 * k /\ \A j \in 1 .. 4 : 4 + 5 * k + j + 1 = 5 + 5 * k + j
  OBVIOUS
<1>. QED  BY <1>1, <1>2

\* The first byte of an entry.
LEMMA FirstOfLine ==
  ASSUME NEW b \in RegsType, NEW m, NEW k, NEW p, Within(p, parser, b, m, k, 0), k < N
  PROVE  LET x == Parsed(Whole[p + 1])
         IN Sound(x.cmd) /\ Within(p + 1, x.next, Steered(b, x.cmd), Put(b, m, x.cmd), k, 1)
<1>. DEFINE x == Parsed(Whole[p + 1])
            e == Expecting(IF File[k + 1].kind = "@" THEN "addr" ELSE "data")
<1>1. k \in 0 .. N - 1 /\ p = 4 + 5 * k + 0 /\ ReadTo(k, b, m) /\ parser = Expecting("opcode")
      /\ N \in Nat /\ p + 1 = 4 + 5 * k + 1
  BY FileIs DEF Within, InLine
<1>2. parser.state = "opcode" /\ Whole[p + 1] = IF File[k + 1].kind = "@" THEN 1 ELSE 2
  BY <1>1, NextByte, ExpectingIs
<1>3. x = [next |-> e, cmd |-> NoCommand]
  BY <1>2 DEF Parsed, Opcode
<1>4. e \in ParserType /\ e.state = (IF File[k + 1].kind = "@" THEN "addr" ELSE "data")
      /\ e.shift = <<>>
  <2>1. <<>> \in Seq(Byte)
    OBVIOUS
  <2>. QED  BY <2>1 DEF Expecting, ParserType
<1>. HIDE DEF e
<1>5. x.next = e /\ x.cmd = NoCommand
  BY <1>3
<1>. HIDE DEF x
<1>6. InLine(e, k, 1)
  BY <1>4 DEF InLine
<1>7. Within(p + 1, e, b, m, k, 1)
  BY <1>1, <1>6 DEF Within
<1>. QED  BY <1>5, <1>7, NothingDone DEF x

\* One of the next three.
LEMMA InsideLine ==
  ASSUME NEW b \in RegsType, NEW m, NEW k, NEW j \in 1 .. 3, NEW p,
         Within(p, parser, b, m, k, j)
  PROVE  LET x == Parsed(Whole[p + 1])
         IN Sound(x.cmd) /\ Within(p + 1, x.next, Steered(b, x.cmd), Put(b, m, x.cmd), k, j + 1)
<1>. DEFINE x == Parsed(Whole[p + 1])
            v == File[k + 1].word[j]
            e == [parser EXCEPT !.shift = Append(@, v)]
<1>1. k \in 0 .. N - 1 /\ p = 4 + 5 * k + j /\ ReadTo(k, b, m) /\ N \in Nat
      /\ p + 1 = 4 + 5 * k + (j + 1)
  BY FileIs DEF Within
<1>2. /\ parser \in ParserType /\ Len(parser.shift) = j - 1
      /\ parser.state = IF File[k + 1].kind = "@" THEN "addr" ELSE "data"
      /\ \A i \in 1 .. j - 1 : parser.shift[i] = File[k + 1].word[i]
  BY DEF Within, InLine
<1>3. Whole[p + 1] = v
  BY <1>1, NextByte
<1>4. v \in Byte
  <2>. DEFINE w == File[k + 1].word
  <2>1. k + 1 \in 1 .. N /\ j \in 1 .. 4
    BY <1>1
  <2>2. w \in [1 .. 4 -> Byte]
    BY <2>1, FileIs DEF Word, Byte
  <2>. HIDE DEF w
  <2>3. w[j] \in Byte
    BY <2>1, <2>2
  <2>. QED  BY <2>3 DEF w
<1>. HIDE DEF v
<1>5. e \in ParserType /\ e.state = parser.state /\ e.shift = Append(parser.shift, v)
  BY <1>2, <1>4, ParserIs
<1>6. x = [next |-> e, cmd |-> NoCommand]
  <2>1. parser.state \in {"addr", "data"} /\ parser.state # "opcode" /\ Len(parser.shift) < 3
    BY <1>2
  <2>. QED  BY <1>3, <2>1 DEF Parsed
<1>. HIDE DEF e
<1>7. x.next = e /\ x.cmd = NoCommand
  BY <1>6
<1>. HIDE DEF x
<1>. DEFINE t == parser.shift
            a == e.shift
<1>8. t \in Seq(Byte)
  BY <1>2 DEF ParserType
<1>9. a = Append(t, v)
  BY <1>5
<1>. HIDE DEF t, a
<1>10. Len(a) = Len(t) + 1 /\ a[Len(t) + 1] = v /\ \A i \in 1 .. Len(t) : a[i] = t[i]
  BY <1>4, <1>8, <1>9, AppendProperties
<1>11. Len(t) = j - 1 /\ \A i \in 1 .. j - 1 : t[i] = File[k + 1].word[i]
  BY <1>2 DEF t
<1>12. Len(a) = j /\ \A i \in 1 .. j : a[i] = File[k + 1].word[i]
  <2>1. Len(a) = j /\ a[j] = v /\ \A i \in 1 .. j - 1 : a[i] = t[i]
    BY <1>10, <1>11
  <2>2. \A i \in 1 .. j : i = j \/ i \in 1 .. j - 1
    OBVIOUS
  <2>. QED  BY <1>11, <2>1, <2>2 DEF v
<1>13. InLine(e, k, j + 1)
  BY <1>2, <1>5, <1>12 DEF InLine, a
<1>14. Within(p + 1, e, b, m, k, j + 1)
  BY <1>1, <1>13 DEF Within
<1>. QED  BY <1>7, <1>14, NothingDone DEF x

\* The last one, with which the entry is carried out.
LEMMA LastOfLine ==
  ASSUME NEW b \in RegsType, NEW m, DOMAIN m = Addresses, NEW k, NEW p,
         Within(p, parser, b, m, k, 4)
  PROVE  LET x == Parsed(Whole[p + 1])
         IN Sound(x.cmd) /\ Within(p + 1, x.next, Steered(b, x.cmd), Put(b, m, x.cmd), k + 1, 0)
<1>. DEFINE x == Parsed(Whole[p + 1])
            w == File[k + 1].word
            v == w[4]
            t == parser.shift
            c == Payload(v)
<1>1. k \in 0 .. N - 1 /\ k \in Nat /\ k < N /\ p = 4 + 5 * k + 4 /\ ReadTo(k, b, m) /\ N \in Nat
      /\ p + 1 = 4 + 5 * (k + 1) + 0
  BY FileIs DEF Within
<1>2. /\ parser \in ParserType /\ Len(t) = 3
      /\ parser.state = IF File[k + 1].kind = "@" THEN "addr" ELSE "data"
      /\ \A i \in 1 .. 3 : t[i] = w[i]
  BY DEF Within, InLine
<1>3. Whole[p + 1] = v
  BY <1>1, NextByte
<1>4. w \in Word /\ v \in Byte
  <2>1. k + 1 \in 1 .. N
    BY <1>1
  <2>2. w \in [1 .. 4 -> 0 .. 255]
    BY <2>1, FileIs DEF Word
  <2>. HIDE DEF w
  <2>. QED  BY <2>2 DEF Byte, Word
<1>5. x = [next |-> Expecting("opcode"), cmd |-> c]
  <2>1. parser.state # "opcode" /\ ~(Len(parser.shift) < 3)
    BY <1>2
  <2>. HIDE DEF v
  <2>. QED  BY <1>3, <2>1 DEF Parsed
<1>6. LineCommand(c, k + 1)
  <2>1. CASE File[k + 1].kind = "@"
    <3>1. c = Command({"set_addr"}, AddrOf(t), Zero)
      BY <1>2, <2>1 DEF Payload
    <3>2. AddrOf(t) = AddrOf(w)
      BY <1>2 DEF AddrOf
    <3>. QED  BY <2>1, <3>1, <3>2, CommandIs DEF LineCommand
  <2>2. CASE File[k + 1].kind # "@"
    <3>1. c = Command({"write"}, 0, Append(t, v))
      BY <1>2, <2>2 DEF Payload
    <3>2. Append(t, v) = w
      <4>. HIDE DEF v
      <4>1. t \in Seq(Byte)
        BY <1>2 DEF ParserType
      <4>. HIDE DEF t
      <4>. DEFINE a == Append(t, v)
      <4>2. a \in Seq(Byte) /\ Len(a) = Len(t) + 1 /\ a[Len(t) + 1] = v
            /\ \A i \in 1 .. Len(t) : a[i] = t[i]
        BY <1>4, <4>1, AppendProperties
      <4>. HIDE DEF a, w
      <4>3. w \in Seq(Byte) /\ Len(w) = 4
        <5>1. w \in [1 .. 4 -> Byte]
          BY <1>4 DEF Word, Byte
        <5>. QED  BY <5>1, IsSeqOf
      <4>4. Len(a) = 4 /\ a[4] = v /\ \A i \in 1 .. 3 : a[i] = w[i]
        BY <1>2, <4>2
      <4>5. \A i \in 1 .. 4 : a[i] = w[i]
        BY <4>4 DEF v
      <4>6. a = w
        BY <4>2, <4>3, <4>4, <4>5, SeqEqual
      <4>. QED  BY <4>6 DEF a
    <3>. QED  BY <2>2, <3>1, <3>2, CommandIs DEF LineCommand
  <2>. QED  BY <2>1, <2>2
<1>. HIDE DEF c
<1>7. x.next = Expecting("opcode") /\ x.cmd = c
  BY <1>5
<1>. HIDE DEF x
<1>8. Sound(c) /\ ReadTo(k + 1, Steered(b, c), Put(b, m, c))
  BY <1>1, <1>6, LineDoes
<1>9. k + 1 \in 0 .. N
  BY <1>1
<1>10. Within(p + 1, x.next, Steered(b, c), Put(b, m, c), k + 1, 0)
  BY <1>1, <1>7, <1>8, <1>9 DEF Within, InLine
<1>. QED  BY <1>7, <1>8, <1>10 DEF x

LEMMA TakenByte ==
  ASSUME NEW b \in RegsType, NEW m, DOMAIN m = Addresses, NEW p, p # 4 + 5 * N,
         Taken(p, parser, b, m)
  PROVE  LET x == Parsed(Whole[p + 1])
         IN Sound(x.cmd) /\ Taken(p + 1, x.next, Steered(b, x.cmd), Put(b, m, x.cmd))
<1>1. CASE Header(p, parser, b, m)
  BY <1>1, HeaderByte
<1>2. CASE \E k \in 0 .. N, j \in 0 .. 4 : Within(p, parser, b, m, k, j)
  <2>1. PICK k \in 0 .. N, j \in 0 .. 4 : Within(p, parser, b, m, k, j)
    BY <1>2
  <2>. DEFINE x == Parsed(Whole[p + 1])
  <2>2. j \in 0 .. 4 /\ k \in 0 .. N /\ (j = 0 => k < N)
    BY <2>1, FileIs DEF Within
  <2>3. CASE j = 0
    <3>1. Sound(x.cmd) /\ Within(p + 1, x.next, Steered(b, x.cmd), Put(b, m, x.cmd), k, 1)
      BY <2>1, <2>2, <2>3, FirstOfLine
    <3>. QED  BY <3>1 DEF Taken
  <2>4. CASE j \in 1 .. 3
    <3>1. Sound(x.cmd) /\ Within(p + 1, x.next, Steered(b, x.cmd), Put(b, m, x.cmd), k, j + 1)
      BY <2>1, <2>4, InsideLine
    <3>2. j + 1 \in 0 .. 4
      BY <2>4
    <3>. QED  BY <3>1, <3>2 DEF Taken
  <2>5. CASE j = 4
    <3>1. Sound(x.cmd) /\ Within(p + 1, x.next, Steered(b, x.cmd), Put(b, m, x.cmd), k + 1, 0)
      BY <2>1, <2>5, LastOfLine
    <3>2. k + 1 \in 0 .. N
      BY <2>1, <2>5, FileIs DEF Within
    <3>. QED  BY <3>1, <3>2 DEF Taken
  <2>. QED  BY <2>2, <2>3, <2>4, <2>5
<1>. QED  BY <1>1, <1>2 DEF Taken

\* The byte after the file.
LEMMA ReleaseByte ==
  ASSUME NEW b, NEW m, Taken(4 + 5 * N, parser, b, m)
  PROVE  /\ Parsed(Whole[4 + 5 * N + 1]).cmd = Command({"release"}, 0, Zero)
         /\ ReadTo(N, b, m)
<1>1. Within(4 + 5 * N, parser, b, m, N, 0)
  <2>1. ~Header(4 + 5 * N, parser, b, m)
    BY FileIs DEF Header
  <2>2. PICK k \in 0 .. N, j \in 0 .. 4 : Within(4 + 5 * N, parser, b, m, k, j)
    BY <2>1 DEF Taken
  <2>3. k \in 0 .. N /\ j \in 0 .. 4 /\ (k = N => j = 0) /\ 4 + 5 * N = 4 + 5 * k + j /\ N \in Nat
    BY <2>2, FileIs DEF Within
  <2>4. k = N /\ j = 0
    BY <2>3
  <2>. QED  BY <2>2, <2>4
<1>2. parser.state = "opcode" /\ ReadTo(N, b, m)
  BY <1>1, ExpectingIs DEF Within, InLine
<1>3. 4 + 5 * N + 1 = 5 + 5 * N
  BY FileIs
<1>4. Whole[4 + 5 * N + 1] = 4
  BY <1>3, WholeIs
<1>. DEFINE c == Command({"release"}, 0, Zero)
<1>5. Parsed(4) = [next |-> parser, cmd |-> c]
  BY <1>2 DEF Parsed, Opcode
<1>. HIDE DEF c
<1>6. Parsed(4).cmd = c
  BY <1>5
<1>. QED  BY <1>2, <1>4, <1>6 DEF c

-----------------------------------------------------------------------------
(* The boot over the UART.                                                 *)

ImageInPlace == ~port.we /\ Contains(imem, N)

Rest(left, p) ==
  /\ left \in Seq(Byte) /\ Len(left) = Len(Whole) - p
  /\ \A i \in 1 .. Len(left) : left[i] = Whole[p + i]

LEMMA ByteIsOne == \A b \in Byte : b # NoByte
BY DEF NoByte, Byte

LEMMA OneLess ==
  ASSUME NEW left, NEW p \in Nat, Rest(left, p), left # <<>>
  PROVE  /\ Head(left) = Whole[p + 1] /\ Head(left) \in Byte
         /\ Rest(Tail(left), p + 1)
<1>1. left \in Seq(Byte) /\ Len(left) = Len(Whole) - p
      /\ \A i \in 1 .. Len(left) : left[i] = Whole[p + i]
  BY DEF Rest
<1>2. Len(left) \in Nat \ {0}
  BY <1>1, EmptySeq
<1>3. Head(left) \in Byte /\ Tail(left) \in Seq(Byte) /\ Len(Tail(left)) = Len(left) - 1
      /\ \A i \in 1 .. Len(Tail(left)) : Tail(left)[i] = left[i + 1]
  BY <1>1, HeadTailProperties
<1>4. Head(left) = left[1]
  BY <1>1, <1>2
<1>5. Head(left) = Whole[p + 1]
  BY <1>1, <1>2, <1>4
<1>. DEFINE t == Tail(left)
<1>6. t \in Seq(Byte) /\ Len(t) = Len(left) - 1 /\ \A i \in 1 .. Len(t) : t[i] = left[i + 1]
  BY <1>3
<1>. HIDE DEF t
<1>7. Len(t) = Len(Whole) - (p + 1)
  BY <1>1, <1>2, <1>6, WholeIs, FileIs
<1>8. ASSUME NEW i \in 1 .. Len(t)
      PROVE  t[i] = Whole[(p + 1) + i]
  <2>1. i + 1 \in 1 .. Len(left) /\ p + (i + 1) = (p + 1) + i
    BY <1>2, <1>6
  <2>. QED  BY <1>1, <1>6, <2>1
<1>9. Rest(t, p + 1)
  BY <1>6, <1>7, <1>8 DEF Rest
<1>. QED  BY <1>3, <1>5, <1>9 DEF t

LEMMA AllSent ==
  ASSUME NEW p \in 0 .. 5 + 5 * N, NEW left, Rest(left, p)
  PROVE  left = <<>> <=> p = 5 + 5 * N
<1>1. left \in Seq(Byte) /\ Len(left) = 5 + 5 * N - p /\ N \in Nat
  BY WholeIs, FileIs DEF Rest
<1>2. left = <<>> <=> Len(left) = 0
  BY <1>1, EmptySeq
<1>. QED  BY <1>1, <1>2

\* The boot over the UART: bytes are being taken; the release is registered; or
\* it is done.
Underway ==
  /\ ~boot.released
  /\ \E p \in 0 .. 4 + 5 * N :
       /\ Rest(line.left, p)
       /\ Taken(p, parser, Steered(boot, uartCmd), Put(boot, Flushed(imem, port), uartCmd))
Releasing ==
  /\ line.left = <<>> /\ ~boot.released /\ quiet = 0
  /\ uartCmd = Command({"release"}, 0, Zero) /\ Contains(Flushed(imem, port), N)
Released == line.left = <<>> /\ boot.released /\ ImageInPlace

UartInv ==
  /\ line \in [left : Seq(Byte), typed : Nat]
  /\ quiet \in 0 .. ByteGap /\ Sound(uartCmd)
  /\ quiet > 0 => uartCmd = NoCommand
  /\ Underway \/ Releasing \/ Released

LEMMA TakenReads ==
  ASSUME NEW p, NEW ps, NEW b, NEW m, Taken(p, ps, b, m)
  PROVE  ~b.released
BY DEF Taken, Header, Within, ReadTo

\* An edge without a byte that the parser takes.
LEMMA UartQuiet ==
  ASSUME BootTypes, UartInv, bootMode = "uart", NEW d, NEW b, BootClock(d, b),
         b = NoByte \/ ~UartEnabled, line' \in [left : Seq(Byte), typed : Nat],
         line'.left = line.left, quiet' \in 0 .. ByteGap
  PROVE  BootTypes' /\ UartInv'
<1>. DEFINE c == Arbitrated(d)
            m == Flushed(imem, port)
<1>1. c = IF boot.released THEN NoCommand ELSE uartCmd
  BY DEF Arbitrated, DmiBootEnabled, UartEnabled
<1>2. parser' = parser /\ uartCmd' = NoCommand
  BY DEF BootClock
<1>3. Sound(c) /\ Sound(NoCommand)
  BY <1>1, NoCommandIs DEF UartInv
<1>4. /\ BootTypes' /\ boot' = Steered(boot, c)
      /\ Flushed(imem', port') = Put(boot, m, c)
      /\ (port'.we <=> "write" \in c.does) /\ imem' = m
  BY <1>3, BootClockIs
<1>5. boot \in RegsType /\ boot' \in RegsType
  BY <1>4 DEF BootTypes
<1>. DEFINE n == Flushed(imem', port')
<1>6. Steered(boot', NoCommand) = boot' /\ Put(boot', n, NoCommand) = n
  BY <1>5, NothingDone
<1>7. Underway' \/ Releasing' \/ Released'
  <2>1. CASE Underway
    <3>1. c = uartCmd
      BY <1>1, <2>1 DEF Underway
    <3>2. PICK p \in 0 .. 4 + 5 * N :
            Rest(line.left, p) /\ Taken(p, parser, Steered(boot, c), Put(boot, m, c))
      BY <2>1, <3>1 DEF Underway
    <3>3. Taken(p, parser', Steered(boot', uartCmd'), Put(boot', n, uartCmd'))
      BY <1>2, <1>4, <1>6, <3>2
    <3>4. ~boot'.released
      BY <1>4, <3>2, TakenReads
    <3>5. Rest(line'.left, p)
      BY <3>2
    <3>. QED  BY <3>3, <3>4, <3>5 DEF Underway
  <2>2. CASE Releasing
    <3>1. c = uartCmd /\ c.does = {"release"}
      BY <1>1, <2>2, CommandIs DEF Releasing
    <3>. HIDE DEF c, m
    <3>2. boot'.released
      BY <1>3, <1>4, <1>5, <3>1, SteeredIs
    <3>3. ~port'.we /\ Contains(imem', N)
      BY <1>4, <2>2, <3>1 DEF Releasing, m
    <3>. QED  BY <2>2, <3>2, <3>3 DEF Releasing, Released, ImageInPlace
  <2>3. CASE Released
    <3>1. c = NoCommand /\ m = imem
      BY <1>1, <2>3 DEF Released, ImageInPlace, Flushed
    <3>. HIDE DEF c, m
    <3>2. boot' = boot /\ ~port'.we /\ imem' = imem
      BY <1>4, <1>5, <3>1, NothingDone, NoCommandIs
    <3>. QED  BY <2>3, <3>2 DEF Released, ImageInPlace
  <2>. QED  BY <2>1, <2>2, <2>3 DEF UartInv
<1>. QED  BY <1>2, <1>3, <1>4, <1>7 DEF UartInv

\* An edge with a byte that the parser takes.
LEMMA UartByte ==
  ASSUME BootTypes, UartInv, bootMode = "uart", NEW d, BootClock(d, Head(line.left)),
         UartEnabled, quiet = ByteGap, quiet' = 0, line.left # <<>>,
         line' = [line EXCEPT !.left = Tail(@)]
  PROVE  BootTypes' /\ UartInv'
<1>. DEFINE b == Head(line.left)
            c == Arbitrated(d)
            m == Flushed(imem, port)
            n == Flushed(imem', port')
            x == Parsed(b)
<1>1. uartCmd = NoCommand /\ ByteGap \in Nat /\ ByteGap > 0
  BY BootAssumption DEF UartInv
<1>2. Underway
  BY <1>1 DEF UartInv, Releasing, Released
<1>3. boot \in RegsType /\ DOMAIN m = Addresses
  BY FlushedIs DEF BootTypes, IsMemory
<1>4. c = NoCommand
  BY <1>1 DEF Arbitrated, DmiBootEnabled
<1>5. /\ BootTypes' /\ boot' = boot /\ n = m
  BY <1>3, <1>4, BootClockIs, NothingDone
<1>6. PICK p \in 0 .. 4 + 5 * N : Rest(line.left, p) /\ Taken(p, parser, boot, m)
  <2>1. Steered(boot, uartCmd) = boot /\ Put(boot, m, uartCmd) = m
    BY <1>1, <1>3, NothingDone
  <2>2. PICK p \in 0 .. 4 + 5 * N :
          Rest(line.left, p) /\ Taken(p, parser, Steered(boot, uartCmd), Put(boot, m, uartCmd))
    BY <1>2 DEF Underway
  <2>. HIDE DEF m
  <2>. QED  BY <2>1, <2>2
<1>7. b = Whole[p + 1] /\ b \in Byte /\ Rest(Tail(line.left), p + 1)
  <2>1. p \in Nat
    BY FileIs
  <2>. DEFINE l == line.left
  <2>2. Rest(l, p) /\ l # <<>>
    BY <1>6
  <2>. HIDE DEF l
  <2>3. Head(l) = Whole[p + 1] /\ Head(l) \in Byte /\ Rest(Tail(l), p + 1)
    BY <2>1, <2>2, OneLess
  <2>. QED  BY <2>3 DEF l
<1>8. parser' = x.next /\ uartCmd' = x.cmd
  <2>0. b \in Byte
    BY <1>7
  <2>. HIDE DEF b
  <2>1. b # NoByte
    BY <2>0, ByteIsOne, Zenon
  <2>2. BootClock(d, b)
    BY DEF b
  <2>. QED  BY <2>1, <2>2 DEF BootClock
<1>. DEFINE q == [line EXCEPT !.left = Tail(@)]
<1>9. line' \in [left : Seq(Byte), typed : Nat] /\ line'.left = Tail(line.left)
  <2>. DEFINE t == Tail(line.left)
  <2>1. t \in Seq(Byte)
    BY <1>7 DEF Rest
  <2>2. line' = [line EXCEPT !.left = t]
    OBVIOUS
  <2>3. line \in [left : Seq(Byte), typed : Nat]
    BY DEF UartInv
  <2>. HIDE DEF t
  <2>4. line' \in [left : Seq(Byte), typed : Nat] /\ line'.left = t
    BY <2>1, <2>2, <2>3
  <2>. QED  BY <2>4 DEF t
<1>10. ~boot'.released
  BY <1>2, <1>5 DEF Underway
<1>11. Sound(uartCmd') /\ (Underway' \/ Releasing' \/ Released')
  <2>1. CASE p # 4 + 5 * N
    <3>1. Sound(x.cmd) /\ Taken(p + 1, x.next, Steered(boot, x.cmd), Put(boot, m, x.cmd))
      BY <1>3, <1>6, <1>7, <2>1, TakenByte
    <3>2. p + 1 \in 0 .. 4 + 5 * N
      BY <2>1, FileIs
    <3>3. Rest(line'.left, p + 1)
      BY <1>7, <1>9
    <3>4. Taken(p + 1, parser', Steered(boot', uartCmd'), Put(boot', n, uartCmd'))
      BY <1>5, <1>8, <3>1
    <3>. HIDE DEF n, x
    <3>5. Underway'
      BY <1>10, <3>2, <3>3, <3>4 DEF Underway, n
    <3>. QED  BY <1>8, <3>1, <3>5
  <2>2. CASE p = 4 + 5 * N
    <3>1. uartCmd' = Command({"release"}, 0, Zero) /\ Contains(m, N)
      BY <1>6, <1>7, <1>8, <2>2, ReleaseByte DEF ReadTo
    <3>2. Sound(uartCmd')
      BY <3>1, CommandIs DEF Sound
    <3>3. line'.left = <<>>
      <4>1. p + 1 = 5 + 5 * N /\ p + 1 \in 0 .. 5 + 5 * N
        BY <2>2, FileIs
      <4>. QED  BY <1>7, <1>9, <4>1, AllSent
    <3>4. Releasing'
      BY <1>5, <1>10, <3>1, <3>3 DEF Releasing
    <3>. QED  BY <3>2, <3>4
  <2>. QED  BY <2>1, <2>2
<1>. QED  BY <1>1, <1>5, <1>9, <1>11 DEF UartInv

LEMMA UartEdge ==
  ASSUME BootTypes, UartInv, bootMode = "uart", NEW d, NEW b, BootClock(d, b), Arrives(b)
  PROVE  BootTypes' /\ UartInv'
<1>1. line \in [left : Seq(Byte), typed : Nat] /\ quiet \in 0 .. ByteGap /\ ByteGap \in Nat
      /\ ByteGap > 0
  BY BootAssumption DEF UartInv
<1>2. CASE b = NoByte
  <2>1. line' = line /\ quiet' \in 0 .. ByteGap
    BY <1>1, <1>2 DEF Arrives
  <2>. QED  BY <1>1, <1>2, <2>1, UartQuiet
<1>3. CASE b # NoByte /\ line.left # <<>>
  <2>1. /\ quiet = ByteGap /\ quiet' = 0 /\ b = Head(line.left)
        /\ line' = [line EXCEPT !.left = Tail(@)]
    BY <1>3 DEF Arrives
  <2>2. UartEnabled
    BY <1>3 DEF UartInv, Underway, Releasing, Released, UartEnabled
  <2>. QED  BY <1>3, <2>1, <2>2, UartByte
<1>4. CASE b # NoByte /\ line.left = <<>>
  <2>1. quiet = ByteGap /\ quiet' = 0 /\ line' = [line EXCEPT !.typed = @ + 1]
    BY <1>4 DEF Arrives
  <2>2. line' \in [left : Seq(Byte), typed : Nat] /\ line'.left = line.left
    BY <1>1, <2>1
  <2>3. ~Underway
    <3>1. ASSUME NEW p \in 0 .. 4 + 5 * N, Rest(line.left, p)
          PROVE  FALSE
      <4>1. p \in 0 .. 5 + 5 * N /\ p # 5 + 5 * N
        BY FileIs
      <4>. QED  BY <1>4, <3>1, <4>1, AllSent
    <3>. QED  BY <3>1 DEF Underway
  <2>4. ~UartEnabled
    BY <1>1, <2>1, <2>3 DEF UartInv, Releasing, Released, UartEnabled
  <2>. QED  BY <1>1, <2>1, <2>2, <2>4, UartQuiet
<1>. QED  BY <1>2, <1>3, <1>4

LEMMA NothingRead ==
  ASSUME NEW b, NEW m, b.auto, ~b.released, b.addr = 0
  PROVE  ReadTo(0, b, m)
<1>. DEFINE w == [a \in {} |-> Zero]
<1>1. Reading[0] = [next |-> 0, words |-> w]
  BY ReadingIs DEF FirstRead
<1>2. DOMAIN w = {}
  OBVIOUS
<1>. HIDE DEF w
<1>3. Reading[0].next = 0 /\ DOMAIN Reading[0].words = {}
  BY <1>1, <1>2
<1>. QED  BY <1>3, FileIs DEF ReadTo, Contains

\* After a reset nothing has been taken.
LEMMA UartStarts ==
  ASSUME boot = BootRegsAtReset.boot, port = BootRegsAtReset.port,
         parser = BootRegsAtReset.parser, uartCmd = NoCommand, IsMemory(imem),
         line = Loader, quiet = 0
  PROVE  BootTypes /\ (bootMode = "uart" => UartInv)
<1>1. boot \in RegsType /\ boot.auto /\ ~boot.released /\ boot.addr = 0
  BY FileIs DEF BootRegsAtReset, RegsType
<1>2. port \in [we : BOOLEAN, addr : Addresses, word : {port.word}]
  <2>. DEFINE z == Zero
  <2>1. port = [we |-> FALSE, addr |-> 0, word |-> z]
    BY DEF BootRegsAtReset
  <2>. HIDE DEF z
  <2>. QED  BY <2>1, FileIs
<1>3. parser = Expecting("opcode")
  BY DEF BootRegsAtReset
<1>4. ASSUME bootMode = "uart"
      PROVE  UartInv
  <2>1. line = [left |-> Whole, typed |-> 0]
    BY <1>4 DEF Loader, Whole, N
  <2>2. Whole \in Seq(Byte) /\ Len(Whole) \in Nat
    BY WholeIs, FileIs
  <2>. DEFINE w == Whole
  <2>. HIDE DEF w
  <2>3. line.left = w /\ line \in [left : Seq(Byte), typed : Nat]
    BY <2>1, <2>2 DEF w
  <2>4. Rest(w, 0)
    BY <2>2 DEF Rest, w
  <2>5. Header(0, parser, boot, Flushed(imem, port))
    BY <1>1, <1>3, NothingRead DEF Header
  <2>6. 0 \in 0 .. 4 + 5 * N /\ 0 \in 0 .. ByteGap
    BY FileIs, BootAssumption
  <2>7. Underway
    BY <1>1, <2>3, <2>4, <2>5, <2>6, NothingDone DEF Underway, Taken
  <2>. QED  BY <2>3, <2>6, <2>7, NoCommandIs DEF UartInv
<1>. QED  BY <1>1, <1>2, <1>4 DEF BootTypes

-----------------------------------------------------------------------------
(* The boot through the DMI window.                                        *)

\* A script that loads the file through the DMI window.
LoadsFile(s) ==
  /\ Len(s) \in Nat /\ Len(s) >= N + 2
  /\ \A i \in 1 .. N + 2 : s[i].request.op = "write" /\ s[i].until = {}
  /\ s[1].request.reg = "boot_ctrl" /\ {"hold", "set_addr", "auto_inc"} \subseteq s[1].request.bits
  /\ "release" \notin s[1].request.bits
  /\ s[2].request.reg = "boot_addr" /\ s[2].request.word = Zero
  /\ \A k \in 1 .. N : LET r == s[k + 2].request
       IN /\ r.reg = IF File[k].kind = "@" THEN "boot_addr" ELSE "boot_wdata"
          /\ r.word = File[k].word
  /\ \A i \in N + 3 .. Len(s) :
       s[i].request.op = "read" \/ s[i].request.reg \notin {"boot_addr", "boot_wdata"}

\* What has been done when its first d accesses have.
Stage(d, b, m) ==
  /\ d \in 1 .. N + 1 => ReadTo(IF d < 2 THEN 0 ELSE d - 2, b, m)
  /\ d >= N + 2 => Contains(m, N)

LEMMA FirstAccess ==
  ASSUME NEW s, LoadsFile(s), NEW b \in RegsType, NEW m
  PROVE  LET c == DmiCommand(s[1].request)
         IN Sound(c) /\ ReadTo(0, Steered(b, c), Put(b, m, c))
<1>. DEFINE r == s[1].request
            does == (r.bits \cap {"set_addr", "hold", "release"})
                      \cup {IF "auto_inc" \in r.bits THEN "auto" ELSE "still"}
            c == Command(does, 0, Zero)
<1>1. r.op = "write" /\ r.reg = "boot_ctrl" /\ {"hold", "set_addr", "auto_inc"} \subseteq r.bits
      /\ "release" \notin r.bits
  BY FileIs DEF LoadsFile
<1>. HIDE DEF r
<1>2. DmiCommand(r) = c
  BY <1>1 DEF DmiCommand
<1>3. "write" \notin does /\ "set_addr" \in does /\ "auto" \in does /\ "release" \notin does
      /\ "hold" \in does
  BY <1>1
<1>. HIDE DEF does
<1>4. c.does = does /\ c.addr = 0
  BY CommandIs
<1>. HIDE DEF c
<1>5. Sound(c)
  BY <1>4, FileIs DEF Sound
<1>. DEFINE t == Steered(b, c)
<1>6. t.addr = 0 /\ t.auto /\ ~t.released
  BY <1>3, <1>4, <1>5, SteeredIs
<1>. HIDE DEF t
<1>7. ReadTo(0, t, Put(b, m, c))
  BY <1>6, NothingRead
<1>. QED  BY <1>2, <1>5, <1>7 DEF r, t

LEMMA SecondAccess ==
  ASSUME NEW s, LoadsFile(s), NEW b \in RegsType, NEW m, ReadTo(0, b, m)
  PROVE  LET c == DmiCommand(s[2].request)
         IN Sound(c) /\ ReadTo(0, Steered(b, c), Put(b, m, c))
<1>. DEFINE r == s[2].request
            c == Command({"set_addr"}, AddrOf(r.word), Zero)
<1>1. r.op = "write" /\ r.reg = "boot_addr" /\ r.word = Zero
  BY FileIs DEF LoadsFile
<1>. HIDE DEF r
<1>2. DmiCommand(r) = c
  BY <1>1 DEF DmiCommand
<1>3. c.does = {"set_addr"} /\ c.addr = 0
  BY <1>1, CommandIs, FileIs
<1>. HIDE DEF c
<1>4. Sound(c) /\ ReadTo(0, Steered(b, c), Put(b, m, c))
  BY <1>3, HeaderDoes
<1>. QED  BY <1>2, <1>4 DEF r

LEMMA LineAccess ==
  ASSUME NEW s, LoadsFile(s), NEW k \in 0 .. N - 1, NEW b \in RegsType,
         NEW m, DOMAIN m = Addresses, ReadTo(k, b, m)
  PROVE  LET c == DmiCommand(s[k + 3].request)
         IN Sound(c) /\ ReadTo(k + 1, Steered(b, c), Put(b, m, c))
<1>. DEFINE r == s[k + 3].request
            c == DmiCommand(r)
<1>1. k + 1 \in 1 .. N /\ k + 3 \in 1 .. N + 2 /\ (k + 1) + 2 = k + 3 /\ k \in Nat /\ k < N
  BY FileIs
<1>2. r.op = "write" /\ r.word = File[k + 1].word
      /\ r.reg = IF File[k + 1].kind = "@" THEN "boot_addr" ELSE "boot_wdata"
  <2>1. LET q == s[(k + 1) + 2].request
        IN /\ q.reg = IF File[k + 1].kind = "@" THEN "boot_addr" ELSE "boot_wdata"
           /\ q.word = File[k + 1].word
    BY <1>1, Zenon DEF LoadsFile
  <2>2. r.op = "write"
    BY <1>1 DEF LoadsFile
  <2>. QED  BY <1>1, <2>1, <2>2
<1>. HIDE DEF r
<1>3. LineCommand(c, k + 1)
  <2>1. CASE File[k + 1].kind = "@"
    <3>1. c = Command({"set_addr"}, AddrOf(r.word), Zero)
      BY <1>2, <2>1 DEF DmiCommand
    <3>. QED  BY <1>2, <2>1, <3>1, CommandIs DEF LineCommand
  <2>2. CASE File[k + 1].kind # "@"
    <3>1. c = Command({"write"}, 0, r.word)
      BY <1>2, <2>2 DEF DmiCommand
    <3>. QED  BY <1>2, <2>2, <3>1, CommandIs DEF LineCommand
  <2>. QED  BY <2>1, <2>2
<1>. HIDE DEF c
<1>4. Sound(c) /\ ReadTo(k + 1, Steered(b, c), Put(b, m, c))
  BY <1>1, <1>3, LineDoes
<1>. QED  BY <1>4 DEF r, c

LEMMA LaterAccess ==
  ASSUME NEW r, r.op = "read" \/ r.reg \notin {"boot_addr", "boot_wdata"}
  PROVE  LET c == DmiCommand(r) IN Sound(c) /\ "write" \notin c.does
<1>. DEFINE does == (r.bits \cap {"set_addr", "hold", "release"})
                      \cup {IF "auto_inc" \in r.bits THEN "auto" ELSE "still"}
            c == Command(does, 0, Zero)
<1>1. DmiCommand(r) = NoCommand \/ DmiCommand(r) = c
  BY DEF DmiCommand
<1>2. "write" \notin does
  OBVIOUS
<1>. HIDE DEF does
<1>3. c.does = does /\ c.addr = 0
  BY CommandIs
<1>. HIDE DEF c
<1>4. Sound(c) /\ "write" \notin c.does
  BY <1>2, <1>3, FileIs DEF Sound
<1>. QED  BY <1>1, <1>4, NoCommandIs

\* An access of the script takes its stage to the next one, and lets the core
\* fetch only when the file is in the memory.
LEMMA AccessDoes ==
  ASSUME NEW s, LoadsFile(s), NEW i \in 1 .. Len(s), NEW b \in RegsType,
         NEW m, DOMAIN m = Addresses, Stage(i - 1, b, m)
  PROVE  LET c == DmiCommand(s[i].request)
         IN /\ Sound(c) /\ Stage(i, Steered(b, c), Put(b, m, c))
            /\ Steered(b, c).released => "write" \notin c.does /\ Contains(m, N)
<1>. DEFINE c == DmiCommand(s[i].request)
            t == Steered(b, c)
            n == Put(b, m, c)
<1>1. N \in Nat /\ Len(s) \in Nat
  BY FileIs DEF LoadsFile
<1>2. CASE i = 1
  <2>1. Sound(c) /\ ReadTo(0, t, n)
    BY <1>2, FirstAccess
  <2>. HIDE DEF c, t, n
  <2>. QED  BY <1>1, <1>2, <2>1 DEF Stage, ReadTo, c, t, n
<1>3. CASE i = 2
  <2>1. ReadTo(0, b, m)
    BY <1>1, <1>3 DEF Stage
  <2>2. Sound(c) /\ ReadTo(0, t, n)
    BY <1>3, <2>1, SecondAccess
  <2>. HIDE DEF c, t, n
  <2>3. Stage(i, t, n)
    <3>1. CASE N = 0
      BY <1>3, <2>2, <3>1 DEF Stage, ReadTo
    <3>2. CASE N # 0
      BY <1>1, <1>3, <2>2, <3>2 DEF Stage
    <3>. QED  BY <3>1, <3>2
  <2>. QED  BY <2>2, <2>3 DEF ReadTo, c, t, n
<1>4. CASE i \in 3 .. N + 2
  <2>. DEFINE k == i - 3
  <2>1. k \in 0 .. N - 1 /\ k + 3 = i /\ i - 1 \in 1 .. N + 1 /\ ~(i - 1 < 2) /\ (i - 1) - 2 = k
    BY <1>1, <1>4
  <2>2. ReadTo(k, b, m)
    <3>. HIDE DEF k
    <3>. QED  BY <2>1 DEF Stage
  <2>3. Sound(c) /\ ReadTo(k + 1, t, n)
    <3>. HIDE DEF k
    <3>. QED  BY <2>1, <2>2, LineAccess
  <2>. HIDE DEF c, t, n
  <2>4. Stage(i, t, n)
    <3>1. CASE i = N + 2
      <4>1. k + 1 = N /\ ~(i \in 1 .. N + 1)
        BY <1>1, <3>1
      <4>. QED  BY <2>3, <4>1 DEF Stage, ReadTo
    <3>2. CASE i # N + 2
      <4>1. k + 1 = i - 2 /\ ~(i < 2) /\ ~(i >= N + 2)
        BY <1>1, <1>4, <3>2
      <4>. QED  BY <2>3, <4>1 DEF Stage
    <3>. QED  BY <3>1, <3>2
  <2>. QED  BY <2>3, <2>4 DEF ReadTo, c, t, n
<1>5. CASE i >= N + 3
  <2>1. Contains(m, N)
    BY <1>1, <1>5 DEF Stage
  <2>2. i \in N + 3 .. Len(s)
    BY <1>1, <1>5
  <2>3. Sound(c) /\ "write" \notin c.does
    BY <2>2, LaterAccess DEF LoadsFile
  <2>. HIDE DEF c
  <2>4. n = m
    BY <2>3 DEF Put
  <2>. HIDE DEF n, t
  <2>5. Stage(i, t, n)
    BY <1>1, <1>5, <2>1, <2>4 DEF Stage
  <2>. QED  BY <2>1, <2>3, <2>5 DEF c, t, n
<1>. QED  BY <1>1, <1>2, <1>3, <1>4, <1>5

\* The session: how many of its accesses are done, and what may still be
\* performed.
Session == Scripts[host.script]
Asking == host.phase \in {"clk", "tck", "told"}
CarriedOut == IF Asking /\ ledger.times = 1 THEN host.access ELSE host.access - 1
Unanswered == ledger.times = 0 /\ ledger.asked.op # "nop"

WindowInv ==
  /\ host.access \in 1 .. Len(Session) + 1
  /\ Asking => host.access <= Len(Session) /\ ledger.asked = Session[host.access].request
  /\ Unanswered /\ host.phase # "clk" => host.access = 1
  /\ boot.released => ImageInPlace
  /\ Stage(CarriedOut, boot, Flushed(imem, port))
  /\ Unanswered => \E i \in 1 .. Len(Session) :
       ledger.asked = Session[i].request /\ Stage(i - 1, boot, Flushed(imem, port))

Window == BootTypes /\ LoadsFile(Session) /\ WindowInv

LEMMA NoStage == \A b, m : Stage(0, b, m)
BY FileIs DEF Stage

LEMMA DmiCommandIs ==
  \A r : DmiCommand(r).does = {} => DmiCommand(r) = NoCommand
<1>. SUFFICES ASSUME NEW r, DmiCommand(r) # NoCommand PROVE DmiCommand(r).does # {}
  OBVIOUS
<1>. DEFINE x == IF "auto_inc" \in r.bits THEN "auto" ELSE "still"
            does == (r.bits \cap {"set_addr", "hold", "release"}) \cup {x}
<1>1. \/ DmiCommand(r) = Command({"set_addr"}, AddrOf(r.word), Zero)
      \/ DmiCommand(r) = Command({"write"}, 0, r.word)
      \/ DmiCommand(r) = Command(does, 0, Zero)
  BY DEF DmiCommand
<1>2. does # {}
  <2>. HIDE DEF x
  <2>. QED  OBVIOUS
<1>. HIDE DEF does
<1>. QED  BY <1>1, <1>2, CommandIs

\* Only the window commands, and it does what it is asked.
LEMMA WindowCommand ==
  ASSUME bootMode = "jtag"
  PROVE  \A r : Arbitrated(DmiCommand(r)) = DmiCommand(r)
BY DmiCommandIs DEF Arbitrated, DmiBootEnabled, UartEnabled

LEMMA HostKeeps ==
  ASSUME LinkTypes,
         host' = IF host.phase \in {"clk", "settle"} /\ host.wait > 0
                   THEN [host EXCEPT !.wait = @ - 1] ELSE host
  PROVE  host'.script = host.script /\ host'.access = host.access /\ host'.phase = host.phase
<1>1. host \in HostType(host.told)
  BY DEF LinkTypes
<1>. QED  BY <1>1 DEF HostType

\* An edge of the clock on which the window performs nothing.
LEMMA WindowQuiet ==
  ASSUME LinkInv, Window, bootMode = "jtag", NEW b, BootClock(DmiCommand(Visible), b),
         Visible.op # "write", ledger' = ledger,
         host'.script = host.script, host'.access = host.access, host'.phase = host.phase
  PROVE  Window'
<1>. DEFINE m == Flushed(imem, port)
            n == Flushed(imem', port')
<1>1. DmiCommand(Visible) = NoCommand
  BY DEF DmiCommand
<1>2. boot \in RegsType
  BY DEF Window, BootTypes
<1>3. Arbitrated(DmiCommand(Visible)) = NoCommand
  BY <1>1, WindowCommand
<1>4. /\ BootTypes' /\ boot' = boot /\ n = m /\ ~port'.we /\ imem' = m
  BY <1>2, <1>3, NoCommandIs, NothingDone, BootClockIs DEF Window
<1>5. Session' = Session /\ CarriedOut' = CarriedOut /\ (Asking' <=> Asking) /\ (Unanswered' <=> Unanswered)
  BY DEF Session, CarriedOut, Asking, Unanswered
<1>6. (boot.released => ImageInPlace)'
  <2>1. boot.released => m = imem /\ Contains(imem, N)
    BY DEF Window, WindowInv, ImageInPlace, Flushed
  <2>. HIDE DEF m
  <2>. QED  BY <1>4, <2>1 DEF ImageInPlace
<1>. DEFINE s == Session
<1>. HIDE DEF s, m, n
<1>7. /\ host.access \in 1 .. Len(s) + 1
      /\ Asking => host.access <= Len(s) /\ ledger.asked = s[host.access].request
      /\ Unanswered /\ host.phase # "clk" => host.access = 1
      /\ Stage(CarriedOut, boot, m)
      /\ Unanswered => \E i \in 1 .. Len(s) :
            ledger.asked = s[i].request /\ Stage(i - 1, boot, m)
  BY Zenon DEF Window, WindowInv, s, m
<1>8. /\ host'.access \in 1 .. Len(s) + 1
      /\ Asking' => host'.access <= Len(s) /\ ledger'.asked = s[host'.access].request
      /\ Unanswered' /\ host'.phase # "clk" => host'.access = 1
      /\ Stage(CarriedOut', boot', n)
      /\ Unanswered' => \E i \in 1 .. Len(s) :
            ledger'.asked = s[i].request /\ Stage(i - 1, boot', n)
  BY <1>4, <1>5, <1>7
<1>9. WindowInv'
  BY <1>5, <1>6, <1>8, Zenon DEF WindowInv, s, n
<1>. QED  BY <1>4, <1>5, <1>9 DEF Window

\* One on which it performs what it is asked.
LEMMA WindowPerforms ==
  ASSUME LinkInv, Window, bootMode = "jtag", NEW b, BootClock(DmiCommand(Visible), b),
         Visible = ledger.asked, Unanswered, host.phase \in {"clk", "settle"},
         ledger'.times = 1, ledger'.asked = ledger.asked,
         host'.script = host.script, host'.access = host.access, host'.phase = host.phase
  PROVE  Window'
<1>. DEFINE m == Flushed(imem, port)
            n == Flushed(imem', port')
            s == Session
            c == DmiCommand(ledger.asked)
<1>1. boot \in RegsType /\ DOMAIN m = Addresses /\ LoadsFile(s)
  BY FlushedIs DEF Window, BootTypes, IsMemory
<1>2. Len(s) \in Nat /\ host.access \in 1 .. Len(s) + 1
  BY DEF Window, WindowInv, LoadsFile
<1>3. PICK i \in 1 .. Len(s) :
        /\ ledger.asked = s[i].request /\ Stage(i - 1, boot, m)
        /\ host.phase = "clk" => i = host.access
  <2>1. CASE host.phase = "clk"
    <3>1. host.access <= Len(s) /\ ledger.asked = s[host.access].request
          /\ Stage(host.access - 1, boot, m)
      <4>1. Asking /\ CarriedOut = host.access - 1
        BY <2>1 DEF Asking, CarriedOut, Unanswered
      <4>. QED  BY <4>1 DEF Window, WindowInv
    <3>2. host.access \in 1 .. Len(s)
      BY <1>2, <3>1
    <3>. QED  BY <3>1, <3>2
  <2>2. CASE host.phase # "clk"
    BY <2>2 DEF Window, WindowInv
  <2>. QED  BY <2>1, <2>2
<1>4. /\ Sound(c) /\ Stage(i, Steered(boot, c), Put(boot, m, c))
      /\ Steered(boot, c).released => "write" \notin c.does /\ Contains(m, N)
  <2>. HIDE DEF m, s
  <2>. QED  BY <1>1, <1>3, AccessDoes
<1>5. Arbitrated(DmiCommand(Visible)) = c
  BY WindowCommand
<1>6. /\ BootTypes' /\ boot' = Steered(boot, c) /\ n = Put(boot, m, c)
      /\ (port'.we <=> "write" \in c.does) /\ imem' = m
  BY <1>4, <1>5, BootClockIs DEF Window
<1>. HIDE DEF c, m
<1>7. (boot.released => ImageInPlace)'
  BY <1>4, <1>6 DEF ImageInPlace
<1>8. Session' = s /\ ~Unanswered'
  BY DEF Session, Unanswered
<1>9. Asking' => host'.access <= Len(s) /\ ledger'.asked = s[host'.access].request
  <2>1. Asking' <=> Asking
    BY DEF Asking
  <2>. QED  BY <2>1 DEF Window, WindowInv
<1>10. Stage(CarriedOut', boot', n)
  <2>1. CASE host.phase = "clk"
    <3>1. CarriedOut' = host.access
      BY <2>1 DEF CarriedOut, Asking
    <3>. HIDE DEF n
    <3>. QED  BY <1>3, <1>4, <1>6, <2>1, <3>1
  <2>2. CASE host.phase = "settle"
    <3>1. host.access = 1
      BY <2>2 DEF Window, WindowInv
    <3>2. CarriedOut' = 0
      BY <2>2, <3>1 DEF CarriedOut, Asking
    <3>. QED  BY <3>2, NoStage
  <2>. QED  BY <2>1, <2>2
<1>. HIDE DEF s, n
<1>11. WindowInv'
  BY <1>2, <1>7, <1>8, <1>9, <1>10 DEF WindowInv, n
<1>. QED  BY <1>1, <1>6, <1>8, <1>11 DEF Window

LEMMA WindowEdge ==
  ASSUME LinkInv, Window, bootMode = "jtag", NEW drained, NEW b, ClkEdge(drained, b)
  PROVE  Window'
<1>1. LinkTypes /\ Honest /\ Phases
  BY DEF LinkInv
<1>2. BootClock(DmiCommand(Visible), b) /\ ledger' = Noted
  BY DEF ClkEdge
<1>3. host'.script = host.script /\ host'.access = host.access /\ host'.phase = host.phase
  <2>1. host' = IF host.phase \in {"clk", "settle"} /\ host.wait > 0
                  THEN [host EXCEPT !.wait = @ - 1] ELSE host
    BY DEF ClkEdge
  <2>. QED  BY <1>1, <2>1, HostKeeps
<1>4. cdc.valid <=> cdc.state = "respond"
  BY <1>1 DEF LinkTypes
<1>5. CASE cdc.state # "respond" \/ cdc.req.op = "nop"
  <2>1. ledger' = ledger
    BY <1>1, <1>2, <1>5, NotedStep
  <2>2. Visible.op # "write"
    BY <1>4, <1>5 DEF Visible, Nop, Request
  <2>. QED  BY <1>2, <1>3, <2>1, <2>2, WindowQuiet
<1>6. CASE cdc.state = "respond" /\ cdc.req.op # "nop"
  <2>1. Visible = cdc.req /\ Fresh(cdc.req)
    BY <1>1, <1>4, <1>6 DEF Visible, Honest
  <2>2. Visible = ledger.asked /\ Unanswered
    BY <2>1 DEF Fresh, Unanswered
  <2>3. ledger'.times = 1 /\ ledger'.asked = ledger.asked
    BY <1>1, <1>2, <1>6, NotedStep
  <2>4. host.phase \in {"clk", "settle"}
    <3>1. host.phase \in {"ready", "clk", "tck", "told", "settle"}
      BY <1>1 DEF LinkTypes, HostType
    <3>2. ~Quiescent /\ ~Performed
      BY <1>6 DEF Quiescent, Performed
    <3>. QED  BY <1>1, <3>1, <3>2 DEF Phases
  <2>. QED  BY <1>2, <1>3, <2>2, <2>3, <2>4, WindowPerforms
<1>. QED  BY <1>5, <1>6

\* What the host does leaves the registers and the memory alone.
LEMMA HostMoves ==
  ASSUME Window, UNCHANGED bootVars, host'.script = host.script,
         host'.access \in 1 .. Len(Session) + 1,
         Asking' => host'.access <= Len(Session)
                      /\ ledger'.asked = Session[host'.access].request,
         Unanswered' /\ host'.phase # "clk" => host'.access = 1,
         Stage(CarriedOut', boot, Flushed(imem, port)),
         Unanswered' => \E i \in 1 .. Len(Session) :
           ledger'.asked = Session[i].request /\ Stage(i - 1, boot, Flushed(imem, port))
  PROVE  Window'
<1>. DEFINE s == Session
            m == Flushed(imem, port)
<1>1. Session' = s /\ Flushed(imem', port') = m /\ boot' = boot /\ port' = port /\ imem' = imem
  BY DEF Session, bootVars
<1>2. BootTypes' /\ (boot.released => ImageInPlace)'
  BY <1>1 DEF Window, WindowInv, BootTypes, ImageInPlace
<1>. HIDE DEF s, m
<1>3. /\ host'.access \in 1 .. Len(s) + 1
      /\ Asking' => host'.access <= Len(s) /\ ledger'.asked = s[host'.access].request
      /\ Stage(CarriedOut', boot', m)
      /\ Unanswered' => \E i \in 1 .. Len(s) :
           ledger'.asked = s[i].request /\ Stage(i - 1, boot', m)
  BY <1>1, Zenon DEF s, m
<1>4. WindowInv'
  BY <1>1, <1>2, <1>3, Zenon DEF WindowInv
<1>5. LoadsFile(s)
  BY DEF Window, s
<1>. QED  BY <1>1, <1>2, <1>4, <1>5 DEF Window

LEMMA WindowUpdate ==
  ASSUME LinkInv, Window, HostUpdate, UNCHANGED bootVars
  PROVE  Window'
<1>1. host \in HostType(host.told) /\ host.phase = "ready"
  BY DEF LinkInv, LinkTypes, HostUpdate
<1>. DEFINE r == Session[host.access].request
            m == Flushed(imem, port)
<1>2. Len(Session) \in Nat /\ host.access \in 1 .. Len(Session)
  BY DEF Window, WindowInv, LoadsFile, HostUpdate, Ended, Session
<1>3. host'.script = host.script /\ host'.access = host.access /\ host'.phase = "clk"
  BY <1>1 DEF HostUpdate, Phase, HostType
<1>4. ledger' = [asked |-> r, times |-> 0, answer |-> NoAnswer, alien |-> ledger.alien]
  BY DEF HostUpdate, Access, Session
<1>. HIDE DEF r
<1>5. ledger'.asked = r /\ ledger'.times = 0
  BY <1>4
<1>6. CarriedOut' = host.access - 1 /\ CarriedOut = host.access - 1
  BY <1>1, <1>3, <1>5 DEF CarriedOut, Asking
<1>7. Stage(host.access - 1, boot, m)
  BY <1>6 DEF Window, WindowInv
<1>. HIDE DEF m
<1>8. \E i \in 1 .. Len(Session) : r = Session[i].request /\ Stage(i - 1, boot, m)
  BY <1>2, <1>7 DEF r
<1>. QED  BY <1>2, <1>3, <1>5, <1>6, <1>7, <1>8, HostMoves DEF r, m

LEMMA WindowIdles ==
  ASSUME LinkInv, Window, HostIdles, UNCHANGED bootVars
  PROVE  Window'
<1>1. host \in HostType(host.told) /\ Phases /\ ledger' = ledger
  BY DEF LinkInv, LinkTypes, HostIdles
<1>2. host'.script = host.script /\ host'.access = host.access
  BY <1>1 DEF HostIdles, Phase, HostType
<1>3. \/ host.phase = "clk" /\ host'.phase = "tck" /\ ledger.times = 1
      \/ host.phase = "tck" /\ host'.phase \in {"tck", "told"}
      \/ host.phase = "settle" /\ host'.phase = "ready"
  <2>1. ASSUME host.phase = "clk", host.wait = 0
        PROVE  ledger.times = 1
    BY <1>1, <2>1 DEF Phases, Travels, Crosses, Performed
  <2>. QED  BY <1>1, <2>1 DEF HostIdles, Phase, HostType
<1>4. (Asking' <=> Asking) /\ (Unanswered' <=> Unanswered)
  BY <1>1, <1>3 DEF Asking, Unanswered
<1>5. CarriedOut' = CarriedOut
  BY <1>1, <1>2, <1>4 DEF CarriedOut
<1>6. Unanswered /\ host'.phase # "clk" => host.phase # "clk"
  BY <1>3 DEF Unanswered
<1>7. /\ host.access \in 1 .. Len(Session) + 1
      /\ Asking => host.access <= Len(Session) /\ ledger.asked = Session[host.access].request
      /\ Unanswered /\ host.phase # "clk" => host.access = 1
      /\ Stage(CarriedOut, boot, Flushed(imem, port))
      /\ Unanswered => \E i \in 1 .. Len(Session) :
            ledger.asked = Session[i].request /\ Stage(i - 1, boot, Flushed(imem, port))
  BY Zenon DEF Window, WindowInv
<1>. QED  BY <1>1, <1>2, <1>4, <1>5, <1>6, <1>7, HostMoves

\* An access that is repeated comes after the file.
LEMMA WindowNop ==
  ASSUME LinkInv, Window, HostNop, UNCHANGED bootVars
  PROVE  Window'
<1>. DEFINE m == Flushed(imem, port)
<1>1. host \in HostType(host.told) /\ Phases /\ ledger' = ledger /\ host.phase = "told"
  BY DEF LinkInv, LinkTypes, HostNop
<1>2. ledger.times = 1
  BY <1>1 DEF Phases
<1>3. Asking /\ CarriedOut = host.access
  BY <1>1, <1>2 DEF Asking, CarriedOut
<1>4. host.access \in 1 .. Len(Session) /\ Len(Session) \in Nat /\ N \in Nat
      /\ Stage(host.access, boot, m)
  BY <1>3, FileIs DEF Window, WindowInv, LoadsFile
<1>5. host' = [Phase("ready", 0) EXCEPT !.access = IF Satisfied THEN @ + 1 ELSE @]
  BY DEF HostNop
<1>6. host'.script = host.script /\ host'.phase = "ready"
      /\ host'.access = IF Satisfied THEN host.access + 1 ELSE host.access
  BY <1>1, <1>5 DEF Phase, HostType
<1>7. ~Asking' /\ ~Unanswered' /\ CarriedOut' = host'.access - 1
  BY <1>1, <1>2, <1>6 DEF Asking, Unanswered, CarriedOut
<1>8. host'.access \in 1 .. Len(Session) + 1
  BY <1>4, <1>6
<1>9. Stage(CarriedOut', boot, m)
  <2>1. CASE Satisfied
    <3>1. CarriedOut' = host.access
      BY <1>4, <1>6, <1>7, <2>1
    <3>. QED  BY <1>4, <3>1
  <2>2. CASE ~Satisfied
    <3>1. Session[host.access].until # {}
      BY <2>2 DEF Satisfied, Access, Session
    <3>2. ~(host.access \in 1 .. N + 2)
      BY <3>1 DEF Window, LoadsFile
    <3>3. host.access >= N + 3
      BY <1>4, <3>2
    <3>4. Contains(m, N)
      BY <1>4, <3>3 DEF Stage
    <3>5. CarriedOut' = host.access - 1
      BY <1>6, <1>7, <2>2
    <3>. HIDE DEF m
    <3>. QED  BY <1>4, <3>3, <3>4, <3>5 DEF Stage
  <2>. QED  BY <2>1, <2>2
<1>. QED  BY <1>6, <1>7, <1>8, <1>9, HostMoves

LEMMA RestartedAccess ==
  ASSUME host \in HostType(host.told)
  PROVE  /\ Restarted.script = host.script /\ Restarted.phase = "settle"
         /\ Restarted.access = IF Ended THEN host.access ELSE 1
<1>. DEFINE k == IF Ended THEN host.access ELSE 1
<1>1. Restarted = [host EXCEPT !.phase = "settle", !.wait = ClkWait, !.told = NoAnswer,
                               !.access = k]
  BY DEF Restarted, HostType
<1>. HIDE DEF k
<1>2. Restarted.script = host.script /\ Restarted.phase = "settle" /\ Restarted.access = k
  BY <1>1 DEF HostType
<1>. QED  BY <1>2 DEF k

LEMMA WindowTapReset ==
  ASSUME LinkInv, Window, TapReset
  PROVE  Window'
<1>1. host \in HostType(host.told) /\ ledger' = ledger /\ UNCHANGED bootVars /\ host' = Restarted
  BY DEF LinkInv, LinkTypes, TapReset
<1>2. /\ host'.script = host.script /\ host'.phase = "settle"
      /\ host'.access = IF Ended THEN host.access ELSE 1
  BY <1>1, RestartedAccess
<1>3. Len(Session) \in Nat /\ host.access \in 1 .. Len(Session) + 1
      /\ (Ended <=> host.access > Len(Session))
  BY DEF Window, WindowInv, LoadsFile, Ended, Session
<1>4. ~Asking' /\ (Unanswered' <=> Unanswered) /\ CarriedOut' = host'.access - 1
  BY <1>1, <1>2 DEF Asking, Unanswered, CarriedOut
<1>5. Unanswered => host'.access = 1
  <2>1. CASE Ended
    <3>1. host.phase # "clk"
      BY <1>3, <2>1 DEF Window, WindowInv, Asking
    <3>. QED  BY <1>2, <2>1, <3>1 DEF Window, WindowInv
  <2>. QED  BY <1>2, <2>1
<1>6. Stage(CarriedOut', boot, Flushed(imem, port))
  <2>1. CASE Ended
    <3>1. ~Asking
      BY <1>3, <2>1 DEF Window, WindowInv
    <3>2. CarriedOut' = CarriedOut
      BY <1>2, <1>4, <2>1, <3>1 DEF CarriedOut
    <3>. QED  BY <3>2 DEF Window, WindowInv
  <2>2. CASE ~Ended
    <3>1. CarriedOut' = 0
      BY <1>2, <1>4, <2>2
    <3>. QED  BY <3>1, NoStage
  <2>. QED  BY <2>1, <2>2
<1>7. host'.access \in 1 .. Len(Session) + 1
  BY <1>2, <1>3
<1>8. Unanswered => \E i \in 1 .. Len(Session) :
            ledger.asked = Session[i].request /\ Stage(i - 1, boot, Flushed(imem, port))
  BY Zenon DEF Window, WindowInv
<1>. QED  BY <1>1, <1>2, <1>4, <1>5, <1>6, <1>7, <1>8, HostMoves

-----------------------------------------------------------------------------
(* Resets and the initial states.                                          *)

Starts ==
  /\ boot = BootRegsAtReset.boot /\ port = BootRegsAtReset.port
  /\ parser = BootRegsAtReset.parser /\ uartCmd = NoCommand /\ IsMemory(imem)
  /\ line = Loader /\ quiet = 0

\* The host's session begins.
Begins ==
  /\ LoadsFile(Session) /\ host.access = 1 /\ host.phase \in {"ready", "settle"}
  /\ ledger.asked = Nop("none")

LEMMA StartsSound == Starts => BootTypes /\ (bootMode = "uart" => UartInv)
BY UartStarts DEF Starts

LEMMA BeginsSound == Starts /\ Begins => Window
<1>. SUFFICES ASSUME Starts, Begins PROVE Window
  OBVIOUS
<1>1. BootTypes
  BY StartsSound
<1>2. ~boot.released
  BY DEF Starts, BootRegsAtReset
<1>3. ~Asking /\ ~Unanswered /\ CarriedOut = 0
  BY DEF Begins, Asking, Unanswered, CarriedOut, Nop, Request
<1>4. host.access \in 1 .. Len(Session) + 1
  BY DEF Begins, LoadsFile
<1>5. Stage(CarriedOut, boot, Flushed(imem, port))
  <2>1. Stage(0, boot, Flushed(imem, port))
    BY NoStage, Zenon
  <2>. QED  BY <1>3, <2>1
<1>6. WindowInv
  BY <1>2, <1>3, <1>4, <1>5 DEF Begins, WindowInv
<1>. QED  BY <1>1, <1>6 DEF Begins, Window

LEMMA StartsNext == Starts' => (BootTypes /\ (bootMode = "uart" => UartInv))'
BY StartsSound, PTL

LEMMA BeginsNext == Starts' /\ Begins' => Window'
BY BeginsSound, PTL

\* The hosts in the boot mode "jtag" load the file.
HostsLoad == \A s \in ScriptsOf("jtag") : LoadsFile(Scripts[s])

\* Either way of booting.
UartBoot ==
  /\ bootMode \in BootModes
  /\ bootMode = "uart" => BootTypes /\ UartInv
WindowBoot == bootMode = "jtag" => Window

LEMMA BootStarts == JtagInit => Starts
<1>. SUFFICES ASSUME JtagInit PROVE Starts
  OBVIOUS
<1>. DEFINE blank == Blank
<1>1. imem = [a \in Addresses |-> blank]
  BY DEF JtagInit, BootInit, Addresses
<1>. HIDE DEF blank
<1>2. IsMemory(imem)
  BY <1>1 DEF IsMemory
<1>. QED  BY <1>2 DEF Starts, JtagInit, BootInit

LEMMA UartBootInitially == JtagInit => UartBoot
BY BootStarts, StartsSound DEF UartBoot, JtagInit, BootInit

LEMMA WindowBootInitially ==
  ASSUME HostsLoad
  PROVE  JtagInit => WindowBoot
<1>. SUFFICES ASSUME JtagInit, bootMode = "jtag" PROVE Window
  BY DEF WindowBoot
<1>1. PICK s \in ScriptsOf("jtag") :
        host = [script |-> s, access |-> 1, phase |-> "ready", wait |-> 0, told |-> NoAnswer]
  BY DEF JtagInit
<1>2. LoadsFile(Session)
  BY <1>1 DEF HostsLoad, Session
<1>3. ledger.asked = Nop("none")
  BY DEF JtagInit
<1>4. Begins
  BY <1>1, <1>2, <1>3 DEF Begins
<1>. QED  BY <1>4, BootStarts, BeginsSound

LEMMA BoardStarts ==
  ASSUME BootTypes, BoardReset
  PROVE  Starts'
<1>1. line' = Loader' /\ imem' = imem
  BY DEF BoardReset, BootReset, Loader
<1>2. IsMemory(imem)
  BY DEF BootTypes
<1>. QED  BY <1>1, <1>2 DEF Starts, BoardReset, BootReset, BootRegsAtReset

LEMMA UartBootStep == UartBoot /\ [JtagNext]_jtagVars => UartBoot'
<1>. SUFFICES ASSUME UartBoot, [JtagNext]_jtagVars PROVE UartBoot'
  OBVIOUS
<1>1. ASSUME NEW drained \in BOOLEAN, NEW b \in Bytes, ClkEdge(drained, b)
      PROVE  UartBoot'
  <2>1. bootMode' = bootMode /\ BootClock(DmiCommand(Visible), b) /\ Arrives(b)
    BY <1>1 DEF ClkEdge
  <2>. QED  BY <2>1, UartEdge DEF UartBoot
<1>2. ASSUME UNCHANGED bootVars
      PROVE  UartBoot'
  BY <1>2 DEF bootVars, UartBoot, BootTypes, UartInv, Underway, Releasing, Released, ImageInPlace
<1>3. CASE BoardReset
  <2>1. bootMode' = bootMode
    BY <1>3 DEF BoardReset, BootReset
  <2>. QED  BY <1>3, <2>1, BoardStarts, StartsNext DEF UartBoot
<1>. QED  BY <1>1, <1>2, <1>3 DEF JtagNext, TckEdge, TapReset, jtagVars

LEMMA WindowAgain ==
  ASSUME LinkInv, Window, BoardReset
  PROVE  Window'
<1>1. host \in HostType(host.told)
  BY DEF LinkInv, LinkTypes
<1>2. Restarted.script = host.script /\ Restarted.phase = "settle"
      /\ DOMAIN Restarted = {"script", "access", "phase", "wait", "told"}
  BY <1>1, RestartedAccess DEF Restarted, HostType
<1>3. host' = [Restarted EXCEPT !.access = 1]
  BY DEF BoardReset
<1>4. host'.script = host.script /\ host'.phase = "settle" /\ host'.access = 1
  BY <1>2, <1>3
<1>5. LoadsFile(Session')
  BY <1>4 DEF Window, Session
<1>6. ledger'.asked = Nop("none")
  BY DEF BoardReset
<1>7. Begins'
  BY <1>4, <1>5, <1>6 DEF Begins
<1>8. Starts'
  BY BoardStarts DEF Window
<1>. QED  BY <1>7, <1>8, BeginsNext

LEMMA WindowBootStep == LinkInv /\ WindowBoot /\ [JtagNext]_jtagVars => WindowBoot'
<1>. SUFFICES ASSUME LinkInv, WindowBoot, [JtagNext]_jtagVars, bootMode' = "jtag"
              PROVE  Window'
  BY DEF WindowBoot
<1>1. bootMode = "jtag" /\ Window
  BY DEF WindowBoot, JtagNext, ClkEdge, TckEdge, TapReset, BoardReset, BootReset, jtagVars,
         bootVars
<1>2. ASSUME NEW drained \in BOOLEAN, NEW b \in Bytes, ClkEdge(drained, b)
      PROVE  Window'
  BY <1>1, <1>2, WindowEdge
<1>3. ASSUME UNCHANGED bootVars, UNCHANGED <<host, ledger>>
      PROVE  Window'
  BY <1>1, <1>3 DEF Window, WindowInv, BootTypes, Session, Asking, Unanswered, CarriedOut,
                    ImageInPlace, bootVars
<1>4. CASE TckEdge
  <2>1. UNCHANGED bootVars
    BY <1>4 DEF TckEdge
  <2>2. HostUpdate \/ HostIdles \/ HostNop \/ UNCHANGED <<host, ledger>>
    BY <1>4 DEF TckEdge, HostStep
  <2>. QED  BY <1>1, <1>3, <2>1, <2>2, WindowUpdate, WindowIdles, WindowNop
<1>5. CASE TapReset
  BY <1>1, <1>5, WindowTapReset
<1>6. CASE BoardReset
  BY <1>1, <1>6, WindowAgain
<1>7. CASE UNCHANGED jtagVars
  BY <1>3, <1>7 DEF jtagVars, linkVars
<1>. QED  BY <1>2, <1>4, <1>5, <1>6, <1>7 DEF JtagNext

LEMMA InPlaceIsBooted == (boot.released => ImageInPlace) => BootedImage
BY DEF BootedImage, FetchEnabled, ImageInPlace, Contains, Image, N

LEMMA UartBootAgrees == UartBoot => (bootMode = "uart" => BootedImage)
<1>. SUFFICES ASSUME UartBoot, bootMode = "uart" PROVE BootedImage
  OBVIOUS
<1>1. boot.released => ImageInPlace
  BY DEF UartBoot, UartInv, Underway, Releasing, Released
<1>. QED  BY <1>1, InPlaceIsBooted

LEMMA BootsAgree == UartBoot /\ WindowBoot => BootedImage
<1>. SUFFICES ASSUME UartBoot, WindowBoot PROVE BootedImage
  OBVIOUS
<1>1. bootMode \in {"bypass", "jtag", "uart"}
  BY BootAssumption DEF UartBoot
<1>2. CASE bootMode = "bypass"
  BY <1>2 DEF BootedImage
<1>3. CASE bootMode = "uart"
  BY <1>3, UartBootAgrees
<1>4. CASE bootMode = "jtag"
  <2>1. boot.released => ImageInPlace
    BY <1>4 DEF WindowBoot, Window, WindowInv
  <2>. QED  BY <2>1, InPlaceIsBooted
<1>. QED  BY <1>1, <1>2, <1>3, <1>4

\* A core that was loaded over the UART finds every word of the file in its place
\* when it may fetch (rtl/soc/boot), for every file, every depth of the memory,
\* any resets during the load and whatever is typed after it.
THEOREM UartLoadsTheFile == JtagSpec => [](bootMode = "uart" => BootedImage)
BY UartBootInitially, UartBootStep, UartBootAgrees, PTL DEF JtagSpec

\* So does one that was loaded through the DMI window, by any host whose script
\* loads the file, when the link performs what the host asks.
THEOREM ImageIsBooted ==
  ASSUME ResetTogether, ClkWait >= 7, TckWait >= 2, HostsLoad
  PROVE  JtagSpec => []BootedImage
BY LinkInitially, LinkStep, UartBootInitially, UartBootStep, WindowBootInitially,
   WindowBootStep, BootsAgree, PTL DEF JtagSpec
-----------------------------------------------------------------------------
(* The transform: remainders.                                              *)

LEMMA DivMod ==
  ASSUME NEW m \in Nat \ {0}, NEW a \in Int
  PROVE  /\ a \div m \in Int /\ a % m \in 0 .. m - 1 /\ a % m \in Int
         /\ a = m * (a \div m) + (a % m)
  OBVIOUS

LEMMA DivModIs ==
  ASSUME NEW m \in Nat \ {0}, NEW a \in Int, NEW q \in Int, NEW r \in 0 .. m - 1,
         a = m * q + r
  PROVE  a \div m = q /\ a % m = r
  OBVIOUS

LEMMA ModShift ==
  ASSUME NEW m \in Nat \ {0}, NEW a \in Int, NEW q \in Int
  PROVE  (a + m * q) % m = a % m
<1>1. /\ a \div m \in Int /\ a % m \in 0 .. m - 1 /\ a % m \in Int
      /\ a = m * (a \div m) + (a % m)
  BY DivMod
<1>. DEFINE p == a \div m
            r == a % m
<1>2. p + q \in Int /\ a + m * q \in Int /\ r \in 0 .. m - 1 /\ a + m * q = m * (p + q) + r
  <2>. HIDE DEF p, r
  <2>1. p \in Int /\ r \in Int /\ a = m * p + r /\ r \in 0 .. m - 1
    BY <1>1 DEF p, r
  <2>. QED  BY <2>1
<1>. HIDE DEF p
<1>3. (a + m * q) % m = r
  <2>. HIDE DEF r
  <2>. QED  BY <1>2, DivModIs
<1>. QED  BY <1>3

\* Numbers may be reduced before they are added, subtracted and multiplied.
LEMMA ModReduces ==
  ASSUME NEW a \in Int, NEW b \in Int, NEW m \in Nat \ {0}
  PROVE  /\ ((a % m) + b) % m = (a + b) % m
         /\ (b + (a % m)) % m = (b + a) % m
         /\ ((a % m) - b) % m = (a - b) % m
         /\ (b - (a % m)) % m = (b - a) % m
         /\ ((a % m) * b) % m = (a * b) % m
         /\ (b * (a % m)) % m = (b * a) % m
<1>. DEFINE p == a \div m
            r == a % m
<1>1. p \in Int /\ r \in Int /\ a = m * p + r
  BY DivMod
<1>. HIDE DEF p, r
<1>2. /\ r + b \in Int /\ b + r \in Int /\ r - b \in Int /\ b - r \in Int
      /\ r * b \in Int /\ b * r \in Int /\ -p \in Int /\ p * b \in Int
  BY <1>1
<1>3. /\ a + b = (r + b) + m * p /\ b + a = (b + r) + m * p
      /\ a - b = (r - b) + m * p /\ b - a = (b - r) + m * (-p)
      /\ a * b = (r * b) + m * (p * b) /\ b * a = (b * r) + m * (p * b)
  BY <1>1
<1>4. /\ ((r + b) + m * p) % m = (r + b) % m /\ ((b + r) + m * p) % m = (b + r) % m
      /\ ((r - b) + m * p) % m = (r - b) % m /\ ((b - r) + m * (-p)) % m = (b - r) % m
      /\ ((r * b) + m * (p * b)) % m = (r * b) % m /\ ((b * r) + m * (p * b)) % m = (b * r) % m
  BY <1>1, <1>2, ModShift
<1>5. /\ (r + b) % m = (a + b) % m /\ (b + r) % m = (b + a) % m
      /\ (r - b) % m = (a - b) % m /\ (b - r) % m = (b - a) % m
      /\ (r * b) % m = (a * b) % m /\ (b * r) % m = (b * a) % m
  BY <1>3, <1>4
<1>. QED  BY <1>5 DEF r

LEMMA ModBoth ==
  ASSUME NEW m \in Nat \ {0}, NEW a \in Int, NEW b \in Int
  PROVE  /\ ((a % m) + (b % m)) % m = (a + b) % m
         /\ ((a % m) - (b % m)) % m = (a - b) % m
         /\ ((a % m) * (b % m)) % m = (a * b) % m
<1>1. a % m \in Int /\ b % m \in Int
  BY DivMod
<1>2. ((a % m) + (b % m)) % m = (a + (b % m)) % m /\ (a + (b % m)) % m = (a + b) % m
  BY <1>1, ModReduces, Zenon
<1>3. ((a % m) - (b % m)) % m = (a - (b % m)) % m /\ (a - (b % m)) % m = (a - b) % m
  BY <1>1, ModReduces, Zenon
<1>4. ((a % m) * (b % m)) % m = (a * (b % m)) % m /\ (a * (b % m)) % m = (a * b) % m
  BY <1>1, ModReduces, Zenon
<1>. QED  BY <1>2, <1>3, <1>4

-----------------------------------------------------------------------------
(* The transform: the complex numbers modulo Modulus are a ring.  x stands *)
(* for a + b * i, which need not be reduced.                               *)

StandsFor(x, a, b) ==
  a \in Int /\ b \in Int /\ x = [re |-> a % Modulus, im |-> b % Modulus]

Add(x, y) == [re |-> Plus(x.re, y.re), im |-> Plus(x.im, y.im)]
Sub(x, y) == [re |-> Minus(x.re, y.re), im |-> Minus(x.im, y.im)]
Naught == [re |-> 0, im |-> 0]
Unit == [re |-> 1, im |-> 0]
MinusUnit == [re |-> Modulus - 1, im |-> 0]

LEMMA StandsForIt ==
  ASSUME NEW x \in Complex
  PROVE  StandsFor(x, x.re, x.im)
<1>1. Modulus \in Nat \ {0}
  BY FftAssumption
<1>2. x.re \in Numbers /\ x.im \in Numbers /\ x = [re |-> x.re, im |-> x.im]
  BY DEF Complex
<1>3. \A a \in Numbers : a \in Int /\ a % Modulus = a
  <2>. TAKE a \in Numbers
  <2>1. a \in Int /\ a \in 0 .. Modulus - 1 /\ a = Modulus * 0 + a /\ 0 \in Int
    BY <1>1 DEF Numbers
  <2>. QED  BY <1>1, <2>1, DivModIs
<1>. QED  BY <1>2, <1>3 DEF StandsFor

LEMMA StandsForOne ==
  ASSUME NEW x, NEW y, NEW a, NEW b, StandsFor(x, a, b)
  PROVE  x \in Complex /\ (StandsFor(y, a, b) => x = y)
  BY FftAssumption, DivMod DEF StandsFor, Complex, Numbers

LEMMA AddStandsFor ==
  ASSUME NEW x, NEW y, NEW a, NEW b, NEW c, NEW d, StandsFor(x, a, b), StandsFor(y, c, d)
  PROVE  StandsFor(Add(x, y), a + c, b + d) /\ StandsFor(Sub(x, y), a - c, b - d)
<1>1. /\ a \in Int /\ b \in Int /\ c \in Int /\ d \in Int /\ Modulus \in Nat \ {0}
      /\ x.re = a % Modulus /\ x.im = b % Modulus /\ y.re = c % Modulus /\ y.im = d % Modulus
  BY FftAssumption DEF StandsFor
<1>. DEFINE M == Modulus
<1>2. /\ Plus(x.re, y.re) = (a + c) % Modulus /\ Plus(x.im, y.im) = (b + d) % Modulus
      /\ Minus(x.re, y.re) = (a - c) % Modulus /\ Minus(x.im, y.im) = (b - d) % Modulus
  <2>1. /\ ((a % M) + (c % M)) % M = (a + c) % M /\ ((b % M) + (d % M)) % M = (b + d) % M
        /\ ((a % M) - (c % M)) % M = (a - c) % M /\ ((b % M) - (d % M)) % M = (b - d) % M
    BY <1>1, ModBoth
  <2>. QED  BY <1>1, <2>1, Zenon DEF Plus, Minus
<1>3. a + c \in Int /\ b + d \in Int /\ a - c \in Int /\ b - d \in Int
  BY <1>1
<1>. QED  BY <1>2, <1>3 DEF StandsFor, Add, Sub

LEMMA TimesStandsFor ==
  ASSUME NEW x, NEW y, NEW a, NEW b, NEW c, NEW d, StandsFor(x, a, b), StandsFor(y, c, d)
  PROVE  StandsFor(ComplexTimes(x, y), a * c - b * d, a * d + b * c)
<1>1. /\ a \in Int /\ b \in Int /\ c \in Int /\ d \in Int /\ Modulus \in Nat \ {0}
      /\ x.re = a % Modulus /\ x.im = b % Modulus /\ y.re = c % Modulus /\ y.im = d % Modulus
  BY FftAssumption DEF StandsFor
<1>. DEFINE M == Modulus
<1>2. /\ Times(x.re, y.re) = (a * c) % Modulus /\ Times(x.im, y.im) = (b * d) % Modulus
      /\ Times(x.re, y.im) = (a * d) % Modulus /\ Times(x.im, y.re) = (b * c) % Modulus
  <2>1. /\ ((a % M) * (c % M)) % M = (a * c) % M /\ ((b % M) * (d % M)) % M = (b * d) % M
        /\ ((a % M) * (d % M)) % M = (a * d) % M /\ ((b % M) * (c % M)) % M = (b * c) % M
    BY <1>1, ModBoth
  <2>. QED  BY <1>1, <2>1, Zenon DEF Times
<1>3. a * c \in Int /\ b * d \in Int /\ a * d \in Int /\ b * c \in Int
  BY <1>1
<1>4. /\ Minus((a * c) % Modulus, (b * d) % Modulus) = (a * c - b * d) % Modulus
      /\ Plus((a * d) % Modulus, (b * c) % Modulus) = (a * d + b * c) % Modulus
  BY <1>1, <1>3, ModBoth, Zenon DEF Plus, Minus
<1>5. a * c - b * d \in Int /\ a * d + b * c \in Int
  BY <1>3
<1>6. ComplexTimes(x, y) = [re |-> (a * c - b * d) % Modulus, im |-> (a * d + b * c) % Modulus]
  BY <1>2, <1>4, Zenon DEF ComplexTimes
<1>. QED  BY <1>5, <1>6, Zenon DEF StandsFor

LEMMA UnitsStandFor ==
  StandsFor(Naught, 0, 0) /\ (Modulus > 1 => StandsFor(Unit, 1, 0) /\ StandsFor(MinusUnit, -1, 0))
<1>1. Modulus \in Nat \ {0}
  BY FftAssumption
<1>2. 0 % Modulus = 0
  BY <1>1, DivModIs
<1>3. Modulus > 1 => 1 % Modulus = 1 /\ (-1) % Modulus = Modulus - 1
  <2>. HAVE Modulus > 1
  <2>1. 1 \in 0 .. Modulus - 1 /\ Modulus - 1 \in 0 .. Modulus - 1
    BY <1>1
  <2>2. 1 = Modulus * 0 + 1 /\ -1 = Modulus * (-1) + (Modulus - 1) /\ -1 \in Int
    BY <1>1
  <2>. QED  BY <1>1, <2>1, <2>2, DivModIs
<1>. QED  BY <1>2, <1>3 DEF StandsFor, Naught, Unit, MinusUnit

LEMMA RingCloses ==
  ASSUME NEW x \in Complex, NEW y \in Complex
  PROVE  /\ Add(x, y) \in Complex /\ Sub(x, y) \in Complex /\ ComplexTimes(x, y) \in Complex
         /\ Naught \in Complex
<1>1. PICK a, b : StandsFor(x, a, b)
  BY StandsForIt, Zenon
<1>2. PICK c, d : StandsFor(y, c, d)
  BY StandsForIt, Zenon
<1>3. /\ StandsFor(Add(x, y), a + c, b + d) /\ StandsFor(Sub(x, y), a - c, b - d)
      /\ StandsFor(ComplexTimes(x, y), a * c - b * d, a * d + b * c) /\ StandsFor(Naught, 0, 0)
  BY <1>1, <1>2, AddStandsFor, TimesStandsFor, UnitsStandFor, Zenon
<1>. QED  BY <1>3, StandsForOne, Zenon

LEMMA AddLaws ==
  ASSUME NEW x \in Complex, NEW y \in Complex, NEW z \in Complex
  PROVE  /\ Add(x, y) = Add(y, x) /\ Add(Add(x, y), z) = Add(x, Add(y, z))
         /\ Add(Naught, x) = x /\ Add(x, Naught) = x
<1>1. PICK a, b : StandsFor(x, a, b)
  BY StandsForIt, Zenon
<1>2. PICK c, d : StandsFor(y, c, d)
  BY StandsForIt, Zenon
<1>3. PICK e, f : StandsFor(z, e, f)
  BY StandsForIt, Zenon
<1>4. a \in Int /\ b \in Int /\ c \in Int /\ d \in Int /\ e \in Int /\ f \in Int
  BY <1>1, <1>2, <1>3 DEF StandsFor
<1>5. /\ a + c = c + a /\ b + d = d + b
      /\ (a + c) + e = a + (c + e) /\ (b + d) + f = b + (d + f)
      /\ 0 + a = a /\ 0 + b = b /\ a + 0 = a /\ b + 0 = b
  BY <1>4
<1>6. /\ StandsFor(Add(x, y), a + c, b + d) /\ StandsFor(Add(y, x), c + a, d + b)
      /\ StandsFor(Add(y, z), c + e, d + f)
      /\ StandsFor(Add(Naught, x), 0 + a, 0 + b) /\ StandsFor(Add(x, Naught), a + 0, b + 0)
  BY <1>1, <1>2, <1>3, AddStandsFor, UnitsStandFor, Zenon
<1>7. /\ StandsFor(Add(Add(x, y), z), (a + c) + e, (b + d) + f)
      /\ StandsFor(Add(x, Add(y, z)), a + (c + e), b + (d + f))
  BY <1>1, <1>3, <1>6, AddStandsFor, Zenon
<1>8. /\ StandsFor(Add(y, x), a + c, b + d)
      /\ StandsFor(Add(x, Add(y, z)), (a + c) + e, (b + d) + f)
      /\ StandsFor(Add(Naught, x), a, b) /\ StandsFor(Add(x, Naught), a, b)
  BY <1>5, <1>6, <1>7
<1>. QED  BY <1>1, <1>6, <1>7, <1>8, StandsForOne, Zenon

LEMMA TimesLaws ==
  ASSUME NEW x \in Complex, NEW y \in Complex, NEW z \in Complex
  PROVE  /\ ComplexTimes(x, y) = ComplexTimes(y, x)
         /\ ComplexTimes(ComplexTimes(x, y), z) = ComplexTimes(x, ComplexTimes(y, z))
         /\ ComplexTimes(Add(x, y), z) = Add(ComplexTimes(x, z), ComplexTimes(y, z))
<1>1. PICK a, b : StandsFor(x, a, b)
  BY StandsForIt, Zenon
<1>2. PICK c, d : StandsFor(y, c, d)
  BY StandsForIt, Zenon
<1>3. PICK e, f : StandsFor(z, e, f)
  BY StandsForIt, Zenon
<1>4. a \in Int /\ b \in Int /\ c \in Int /\ d \in Int /\ e \in Int /\ f \in Int
  BY <1>1, <1>2, <1>3 DEF StandsFor
<1>5. /\ c * a - d * b = a * c - b * d /\ c * b + d * a = a * d + b * c
      /\ a * (c * e - d * f) - b * (c * f + d * e) = (a * c - b * d) * e - (a * d + b * c) * f
      /\ a * (c * f + d * e) + b * (c * e - d * f) = (a * c - b * d) * f + (a * d + b * c) * e
      /\ (a * e - b * f) + (c * e - d * f) = (a + c) * e - (b + d) * f
      /\ (a * f + b * e) + (c * f + d * e) = (a + c) * f + (b + d) * e
  BY <1>4
<1>6. /\ StandsFor(ComplexTimes(x, y), a * c - b * d, a * d + b * c)
      /\ StandsFor(ComplexTimes(y, x), c * a - d * b, c * b + d * a)
      /\ StandsFor(ComplexTimes(y, z), c * e - d * f, c * f + d * e)
      /\ StandsFor(ComplexTimes(x, z), a * e - b * f, a * f + b * e)
      /\ StandsFor(Add(x, y), a + c, b + d)
  BY <1>1, <1>2, <1>3, AddStandsFor, TimesStandsFor, Zenon
<1>7. /\ StandsFor(ComplexTimes(ComplexTimes(x, y), z),
                   (a * c - b * d) * e - (a * d + b * c) * f, (a * c - b * d) * f + (a * d + b * c) * e)
      /\ StandsFor(ComplexTimes(x, ComplexTimes(y, z)),
                   a * (c * e - d * f) - b * (c * f + d * e), a * (c * f + d * e) + b * (c * e - d * f))
      /\ StandsFor(ComplexTimes(Add(x, y), z), (a + c) * e - (b + d) * f, (a + c) * f + (b + d) * e)
      /\ StandsFor(Add(ComplexTimes(x, z), ComplexTimes(y, z)),
                   (a * e - b * f) + (c * e - d * f), (a * f + b * e) + (c * f + d * e))
  BY <1>1, <1>3, <1>6, AddStandsFor, TimesStandsFor, Zenon
<1>8. ComplexTimes(x, y) = ComplexTimes(y, x)
  <2>1. StandsFor(ComplexTimes(y, x), a * c - b * d, a * d + b * c)
    BY <1>5, <1>6, Zenon
  <2>. QED  BY <1>6, <2>1, StandsForOne, Zenon
<1>9. ComplexTimes(ComplexTimes(x, y), z) = ComplexTimes(x, ComplexTimes(y, z))
  <2>1. StandsFor(ComplexTimes(x, ComplexTimes(y, z)),
                  (a * c - b * d) * e - (a * d + b * c) * f, (a * c - b * d) * f + (a * d + b * c) * e)
    BY <1>5, <1>7, Zenon
  <2>. QED  BY <1>7, <2>1, StandsForOne, Zenon
<1>10. ComplexTimes(Add(x, y), z) = Add(ComplexTimes(x, z), ComplexTimes(y, z))
  <2>1. StandsFor(Add(ComplexTimes(x, z), ComplexTimes(y, z)),
                  (a + c) * e - (b + d) * f, (a + c) * f + (b + d) * e)
    BY <1>5, <1>7, Zenon
  <2>. QED  BY <1>7, <2>1, StandsForOne, Zenon
<1>. QED  BY <1>8, <1>9, <1>10

\* Factors that are 0, 1 or -1.
LEMMA UnitLaws ==
  ASSUME NEW x \in Complex, NEW y \in Complex
  PROVE  /\ ComplexTimes(Naught, x) = Naught
         /\ Modulus > 1 => /\ Unit \in Complex /\ MinusUnit \in Complex
                           /\ ComplexTimes(x, Unit) = x /\ ComplexTimes(Unit, x) = x
                           /\ ComplexTimes(MinusUnit, MinusUnit) = Unit
                           /\ Add(y, ComplexTimes(MinusUnit, x)) = Sub(y, x)
<1>1. PICK a, b : StandsFor(x, a, b)
  BY StandsForIt, Zenon
<1>2. PICK c, d : StandsFor(y, c, d)
  BY StandsForIt, Zenon
<1>3. a \in Int /\ b \in Int /\ c \in Int /\ d \in Int
  BY <1>1, <1>2 DEF StandsFor
<1>4. ComplexTimes(Naught, x) = Naught
  <2>1. StandsFor(Naught, 0, 0) /\ StandsFor(ComplexTimes(Naught, x), 0 * a - 0 * b, 0 * b + 0 * a)
    BY <1>1, UnitsStandFor, TimesStandsFor, Zenon
  <2>2. 0 * a - 0 * b = 0 /\ 0 * b + 0 * a = 0
    BY <1>3
  <2>3. StandsFor(ComplexTimes(Naught, x), 0, 0)
    BY <2>1, <2>2
  <2>. QED  BY <2>1, <2>3, StandsForOne, Zenon
<1>5. ASSUME Modulus > 1
      PROVE  /\ Unit \in Complex /\ MinusUnit \in Complex
             /\ ComplexTimes(x, Unit) = x /\ ComplexTimes(Unit, x) = x
             /\ ComplexTimes(MinusUnit, MinusUnit) = Unit
             /\ Add(y, ComplexTimes(MinusUnit, x)) = Sub(y, x)
  <2>1. StandsFor(Unit, 1, 0) /\ StandsFor(MinusUnit, -1, 0)
    BY <1>5, UnitsStandFor
  <2>2. /\ StandsFor(ComplexTimes(x, Unit), a * 1 - b * 0, a * 0 + b * 1)
        /\ StandsFor(ComplexTimes(Unit, x), 1 * a - 0 * b, 1 * b + 0 * a)
        /\ StandsFor(ComplexTimes(MinusUnit, MinusUnit), (-1) * (-1) - 0 * 0, (-1) * 0 + 0 * (-1))
        /\ StandsFor(ComplexTimes(MinusUnit, x), (-1) * a - 0 * b, (-1) * b + 0 * a)
        /\ StandsFor(Sub(y, x), c - a, d - b)
    BY <1>1, <1>2, <2>1, TimesStandsFor, AddStandsFor, Zenon
  <2>3. StandsFor(Add(y, ComplexTimes(MinusUnit, x)), c + ((-1) * a - 0 * b), d + ((-1) * b + 0 * a))
    BY <1>2, <2>2, AddStandsFor, Zenon
  <2>4. /\ a * 1 - b * 0 = a /\ a * 0 + b * 1 = b /\ 1 * a - 0 * b = a /\ 1 * b + 0 * a = b
        /\ (-1) * (-1) - 0 * 0 = 1 /\ (-1) * 0 + 0 * (-1) = 0
        /\ c + ((-1) * a - 0 * b) = c - a /\ d + ((-1) * b + 0 * a) = d - b
    BY <1>3
  <2>5. /\ StandsFor(ComplexTimes(x, Unit), a, b) /\ StandsFor(ComplexTimes(Unit, x), a, b)
        /\ StandsFor(ComplexTimes(MinusUnit, MinusUnit), 1, 0)
        /\ StandsFor(Add(y, ComplexTimes(MinusUnit, x)), c - a, d - b)
    BY <2>2, <2>3, <2>4
  <2>. QED  BY <1>1, <2>1, <2>2, <2>5, StandsForOne, Zenon
<1>. QED  BY <1>4, <1>5
-----------------------------------------------------------------------------
(* The transform: functions defined by recursion.                          *)

Continues(g, V, first, onward) ==
  g \in [Nat -> V] /\ g[0] = first /\ \A k \in Nat : g[k + 1] = onward[k + 1][g[k]]

\* A function of all numbers, of its parts up to each of them.
LEMMA NatRecursion ==
  ASSUME NEW V, NEW first \in V, NEW onward \in [Nat -> [V -> V]]
  PROVE  \E g : Continues(g, V, first, onward)
<1>. DEFINE up(n) == [k \in 1 .. n |-> onward[k]]
            A(g, n) == Recurs(g, n, V, first, up(n))
            G(n) == CHOOSE g : A(g, n)
            h == [n \in Nat |-> G(n)[n]]
<1>1. \A n \in Nat : A(G(n), n)
  <2>. TAKE n \in Nat
  <2>. DEFINE u == up(n)
  <2>1. u \in [1 .. n -> [V -> V]]
    OBVIOUS
  <2>. HIDE DEF u
  <2>2. \E g : Recurs(g, n, V, first, u)
    BY <2>1, Recursion
  <2>3. \E g : A(g, n)
    BY <2>2 DEF u
  <2>. HIDE DEF A
  <2>. QED  BY <2>3
<1>2. ASSUME NEW g, NEW n \in Nat, A(g, n)
      PROVE  /\ g \in [0 .. n -> V] /\ g[0] = first
             /\ \A k \in 1 .. n : g[k] = onward[k][g[k - 1]]
  BY <1>2 DEF Recurs
<1>. HIDE DEF A
<1>3. ASSUME NEW n \in Nat, NEW m \in Nat, n <= m
      PROVE  G(m)[n] = G(n)[n]
  <2>. DEFINE p == G(m)
              q == G(n)
              S == {k \in Nat : k <= n => p[k] = q[k]}
  <2>1. /\ p[0] = first /\ \A k \in 1 .. m : p[k] = onward[k][p[k - 1]]
        /\ q[0] = first /\ \A k \in 1 .. n : q[k] = onward[k][q[k - 1]]
    BY <1>1, <1>2
  <2>. HIDE DEF p, q
  <2>2. 0 \in S
    BY <2>1
  <2>3. \A k \in Nat : k \in S => k + 1 \in S
    <3>1. ASSUME NEW k \in Nat, k <= n => p[k] = q[k], k + 1 <= n
          PROVE  p[k + 1] = q[k + 1]
      <4>1. k + 1 \in 1 .. n /\ k + 1 \in 1 .. m /\ k + 1 - 1 = k /\ p[k] = q[k]
        BY <1>3, <3>1
      <4>. QED  BY <2>1, <4>1
    <3>. TAKE k \in Nat
    <3>. HAVE k \in S
    <3>2. k <= n => p[k] = q[k]
      OBVIOUS
    <3>3. k + 1 <= n => p[k + 1] = q[k + 1]
      BY <3>1, <3>2
    <3>. QED  BY <3>3
  <2>. HIDE DEF S
  <2>4. n \in S
    BY <2>2, <2>3, Induct
  <2>. QED  BY <2>4 DEF S, p, q
<1>. HIDE DEF G
<1>4. h \in [Nat -> V]
  <2>1. \A n \in Nat : G(n)[n] \in V
    BY <1>1, <1>2
  <2>. QED  BY <2>1
<1>5. h[0] = first
  BY <1>1, <1>2
<1>6. \A k \in Nat : h[k + 1] = onward[k + 1][h[k]]
  <2>. TAKE k \in Nat
  <2>1. k + 1 \in Nat /\ k + 1 \in 1 .. k + 1 /\ k + 1 - 1 = k /\ k <= k + 1
    OBVIOUS
  <2>2. G(k + 1)[k + 1] = onward[k + 1][G(k + 1)[k]]
    BY <1>1, <1>2, <2>1
  <2>3. G(k + 1)[k] = G(k)[k]
    BY <1>3, <2>1
  <2>. QED  BY <2>1, <2>2, <2>3
<1>. HIDE DEF h
<1>. QED  BY <1>4, <1>5, <1>6 DEF Continues

\* Complex numbers are reduced, and what Unit and MinusUnit are holds.
LEMMA UnitsAre ==
  /\ Modulus > 1 /\ Unit \in Complex /\ MinusUnit \in Complex /\ Naught \in Complex
  /\ Root \in Complex /\ FftLog2 \in Nat
  BY FftAssumption DEF Complex, Numbers, Unit, MinusUnit, Naught

LEMMA PowersOfTwo ==
  /\ PowerOfTwo \in [Nat -> Nat \ {0}] /\ PowerOfTwo[0] = 1
  /\ \A n \in Nat : PowerOfTwo[n + 1] = 2 * PowerOfTwo[n]
<1>. DEFINE V == Nat \ {0}
            onward == [k \in Nat |-> [v \in V |-> 2 * v]]
            Rec(f) == [n \in Nat |-> IF n = 0 THEN 1 ELSE 2 * f[n - 1]]
<1>1. 1 \in V /\ onward \in [Nat -> [V -> V]]
  OBVIOUS
<1>2. PICK g : Continues(g, V, 1, onward)
  <2>. HIDE DEF V, onward
  <2>. QED  BY <1>1, NatRecursion
<1>3. g \in [Nat -> V] /\ g[0] = 1 /\ \A k \in Nat : g[k + 1] = 2 * g[k]
  <2>1. /\ g \in [Nat -> V] /\ g[0] = 1
        /\ \A k \in Nat : g[k + 1] = onward[k + 1][g[k]]
    BY <1>2 DEF Continues
  <2>2. \A k \in Nat : \A v \in V : onward[k][v] = 2 * v
    OBVIOUS
  <2>. HIDE DEF onward, V
  <2>3. \A k \in Nat : k + 1 \in Nat /\ g[k] \in V
    BY <2>1
  <2>. QED  BY <2>1, <2>2, <2>3
<1>4. g = Rec(g)
  <2>1. \A n \in Nat : g[n] = IF n = 0 THEN 1 ELSE 2 * g[n - 1]
    <3>. TAKE n \in Nat
    <3>1. n # 0 => n - 1 \in Nat /\ n = (n - 1) + 1
      OBVIOUS
    <3>. QED  BY <1>3, <3>1
  <2>. QED  BY <1>3, <2>1
<1>5. PowerOfTwo = Rec(PowerOfTwo)
  <2>1. PowerOfTwo = CHOOSE f : f = Rec(f)
    BY Zenon DEF PowerOfTwo
  <2>. HIDE DEF Rec
  <2>. QED  BY <1>4, <2>1
<1>. DEFINE p == PowerOfTwo
<1>6. p[0] = 1 /\ \A n \in Nat : p[n + 1] = 2 * p[n]
  <2>. HIDE DEF p
  <2>1. \A n \in Nat : p[n] = IF n = 0 THEN 1 ELSE 2 * p[n - 1]
    BY <1>5 DEF p
  <2>2. \A n \in Nat : n + 1 \in Nat /\ n + 1 # 0 /\ n + 1 - 1 = n
    OBVIOUS
  <2>. QED  BY <2>1, <2>2
<1>7. p = [n \in Nat |-> p[n]]
  BY <1>5
<1>. HIDE DEF p
<1>. DEFINE S == {n \in Nat : p[n] \in V}
<1>8. 0 \in S /\ \A n \in Nat : n \in S => n + 1 \in S
  BY <1>6
<1>. HIDE DEF S
<1>9. Nat \subseteq S
  BY <1>8, Induct
<1>10. p \in [Nat -> V]
  BY <1>7, <1>9 DEF S
<1>. QED  BY <1>6, <1>10 DEF p

LEMMA RootPowers ==
  /\ RootPower \in [Nat -> Complex] /\ RootPower[0] = Unit
  /\ \A n \in Nat : RootPower[n + 1] = ComplexTimes(RootPower[n], Root)
<1>. DEFINE onward == [k \in Nat |-> [v \in Complex |-> ComplexTimes(v, Root)]]
            Rec(f) == [k \in Nat |-> IF k = 0 THEN [re |-> 1, im |-> 0]
                                     ELSE ComplexTimes(f[k - 1], Root)]
<1>1. Unit \in Complex /\ onward \in [Nat -> [Complex -> Complex]]
  BY UnitsAre, RingCloses
<1>2. PICK g : Continues(g, Complex, Unit, onward)
  <2>. HIDE DEF onward
  <2>. QED  BY <1>1, NatRecursion
<1>3. g \in [Nat -> Complex] /\ g[0] = Unit /\ \A k \in Nat : g[k + 1] = ComplexTimes(g[k], Root)
  <2>1. /\ g \in [Nat -> Complex] /\ g[0] = Unit
        /\ \A k \in Nat : g[k + 1] = onward[k + 1][g[k]]
    BY <1>2 DEF Continues
  <2>2. \A k \in Nat : \A v \in Complex : onward[k][v] = ComplexTimes(v, Root)
    OBVIOUS
  <2>. HIDE DEF onward
  <2>3. \A k \in Nat : k + 1 \in Nat /\ g[k] \in Complex
    BY <2>1
  <2>. QED  BY <2>1, <2>2, <2>3
<1>4. g = Rec(g)
  <2>1. \A n \in Nat : g[n] = IF n = 0 THEN [re |-> 1, im |-> 0] ELSE ComplexTimes(g[n - 1], Root)
    <3>. TAKE n \in Nat
    <3>1. n # 0 => n - 1 \in Nat /\ n = (n - 1) + 1
      OBVIOUS
    <3>. QED  BY <1>3, <3>1 DEF Unit
  <2>. QED  BY <1>3, <2>1
<1>5. RootPower = Rec(RootPower)
  <2>1. RootPower = CHOOSE f : f = Rec(f)
    BY Zenon DEF RootPower
  <2>. HIDE DEF Rec
  <2>. QED  BY <1>4, <2>1
<1>. DEFINE p == RootPower
<1>6. p[0] = Unit /\ \A n \in Nat : p[n + 1] = ComplexTimes(p[n], Root)
  <2>. HIDE DEF p
  <2>1. \A n \in Nat : p[n] = IF n = 0 THEN [re |-> 1, im |-> 0] ELSE ComplexTimes(p[n - 1], Root)
    BY <1>5 DEF p
  <2>2. \A n \in Nat : n + 1 \in Nat /\ n + 1 # 0 /\ n + 1 - 1 = n
    OBVIOUS
  <2>. QED  BY <2>1, <2>2 DEF Unit
<1>7. p = [n \in Nat |-> p[n]]
  BY <1>5
<1>. HIDE DEF p
<1>. DEFINE S == {n \in Nat : p[n] \in Complex}
<1>8. 0 \in S /\ \A n \in Nat : n \in S => n + 1 \in S
  BY <1>6, UnitsAre, RingCloses
<1>. HIDE DEF S
<1>9. Nat \subseteq S
  BY <1>8, Induct
<1>10. p \in [Nat -> Complex]
  BY <1>7, <1>9 DEF S
<1>. QED  BY <1>6, <1>10 DEF p
-----------------------------------------------------------------------------
(* The transform: sums.                                                    *)

SumOf(f, n) ==
  LET sum[m \in Nat] == IF m = 0 THEN Naught ELSE Add(sum[m - 1], f[m - 1])
  IN sum[n]

LEMMA SumIs ==
  ASSUME NEW f \in [Nat -> Complex]
  PROVE  /\ SumOf(f, 0) = Naught
         /\ \A n \in Nat : SumOf(f, n) \in Complex /\ SumOf(f, n + 1) = Add(SumOf(f, n), f[n])
<1>. DEFINE onward == [k \in Nat |-> [v \in Complex |-> Add(v, IF k = 0 THEN Naught ELSE f[k - 1])]]
            Rec(s) == [m \in Nat |-> IF m = 0 THEN Naught ELSE Add(s[m - 1], f[m - 1])]
            sum == CHOOSE s : s = Rec(s)
<1>1. Naught \in Complex /\ onward \in [Nat -> [Complex -> Complex]]
  <2>1. \A k \in Nat : (IF k = 0 THEN Naught ELSE f[k - 1]) \in Complex
    BY UnitsAre
  <2>2. \A k \in Nat : \A v \in Complex : Add(v, IF k = 0 THEN Naught ELSE f[k - 1]) \in Complex
    BY <2>1, RingCloses
  <2>. QED  BY <2>2, UnitsAre
<1>2. PICK g : Continues(g, Complex, Naught, onward)
  <2>. HIDE DEF onward
  <2>. QED  BY <1>1, NatRecursion
<1>3. g \in [Nat -> Complex] /\ g[0] = Naught /\ \A k \in Nat : g[k + 1] = Add(g[k], f[k])
  <2>1. /\ g \in [Nat -> Complex] /\ g[0] = Naught
        /\ \A k \in Nat : g[k + 1] = onward[k + 1][g[k]]
    BY <1>2 DEF Continues
  <2>2. \A k \in Nat, v \in Complex : onward[k + 1][v] = Add(v, f[k])
    <3>. TAKE k \in Nat, v \in Complex
    <3>1. k + 1 \in Nat /\ k + 1 # 0 /\ k + 1 - 1 = k
      OBVIOUS
    <3>2. \A j \in Nat : onward[j][v] = Add(v, IF j = 0 THEN Naught ELSE f[j - 1])
      OBVIOUS
    <3>. HIDE DEF onward
    <3>. QED  BY <3>1, <3>2
  <2>. HIDE DEF onward
  <2>3. \A k \in Nat : g[k] \in Complex
    BY <2>1
  <2>. QED  BY <2>1, <2>2, <2>3
<1>4. g = Rec(g)
  <2>1. \A n \in Nat : g[n] = IF n = 0 THEN Naught ELSE Add(g[n - 1], f[n - 1])
    <3>. TAKE n \in Nat
    <3>1. n # 0 => n - 1 \in Nat /\ n = (n - 1) + 1
      OBVIOUS
    <3>. QED  BY <1>3, <3>1
  <2>. QED  BY <1>3, <2>1
<1>5. sum = Rec(sum)
  <2>. HIDE DEF Rec
  <2>. QED  BY <1>4
<1>6. \A n : SumOf(f, n) = sum[n]
  BY Zenon DEF SumOf
<1>. HIDE DEF sum, onward
<1>7. sum[0] = Naught /\ \A n \in Nat : sum[n + 1] = Add(sum[n], f[n])
  <2>1. \A n \in Nat : sum[n] = IF n = 0 THEN Naught ELSE Add(sum[n - 1], f[n - 1])
    BY <1>5
  <2>2. \A n \in Nat : n + 1 \in Nat /\ n + 1 # 0 /\ n + 1 - 1 = n
    OBVIOUS
  <2>. QED  BY <2>1, <2>2
<1>. DEFINE S == {n \in Nat : sum[n] \in Complex}
<1>8. 0 \in S /\ \A n \in Nat : n \in S => n + 1 \in S
  BY <1>7, UnitsAre, RingCloses
<1>. HIDE DEF S
<1>9. Nat \subseteq S
  BY <1>8, Induct
<1>. QED  BY <1>6, <1>7, <1>9 DEF S

LEMMA SumAgrees ==
  ASSUME NEW f \in [Nat -> Complex], NEW g \in [Nat -> Complex], NEW n \in Nat,
         \A t \in Nat : t < n => f[t] = g[t]
  PROVE  SumOf(f, n) = SumOf(g, n)
<1>. DEFINE S == {m \in Nat : m <= n => SumOf(f, m) = SumOf(g, m)}
<1>1. 0 \in S
  BY SumIs
<1>2. \A m \in Nat : m \in S => m + 1 \in S
  <2>. SUFFICES ASSUME NEW m \in Nat, m \in S, m + 1 <= n
                PROVE  SumOf(f, m + 1) = SumOf(g, m + 1)
    OBVIOUS
  <2>1. f[m] = g[m] /\ SumOf(f, m) = SumOf(g, m)
    OBVIOUS
  <2>2. SumOf(f, m + 1) = Add(SumOf(f, m), f[m]) /\ SumOf(g, m + 1) = Add(SumOf(g, m), g[m])
    BY SumIs
  <2>. QED  BY <2>1, <2>2
<1>. HIDE DEF S
<1>3. n \in S
  BY <1>1, <1>2, Induct
<1>. QED  BY <1>3 DEF S

LEMMA SumTimes ==
  ASSUME NEW f \in [Nat -> Complex], NEW g \in [Nat -> Complex], NEW c \in Complex, NEW n \in Nat,
         \A t \in Nat : g[t] = ComplexTimes(f[t], c)
  PROVE  SumOf(g, n) = ComplexTimes(SumOf(f, n), c)
<1>. DEFINE S == {m \in Nat : SumOf(g, m) = ComplexTimes(SumOf(f, m), c)}
<1>1. 0 \in S
  BY SumIs, UnitLaws
<1>2. \A m \in Nat : m \in S => m + 1 \in S
  <2>. SUFFICES ASSUME NEW m \in Nat, SumOf(g, m) = ComplexTimes(SumOf(f, m), c)
                PROVE  SumOf(g, m + 1) = ComplexTimes(SumOf(f, m + 1), c)
    OBVIOUS
  <2>1. /\ SumOf(f, m) \in Complex /\ f[m] \in Complex /\ g[m] = ComplexTimes(f[m], c)
        /\ SumOf(f, m + 1) = Add(SumOf(f, m), f[m]) /\ SumOf(g, m + 1) = Add(SumOf(g, m), g[m])
    BY SumIs
  <2>2. ComplexTimes(Add(SumOf(f, m), f[m]), c)
          = Add(ComplexTimes(SumOf(f, m), c), ComplexTimes(f[m], c))
    BY <2>1, TimesLaws
  <2>. QED  BY <2>1, <2>2
<1>. HIDE DEF S
<1>3. n \in S
  BY <1>1, <1>2, Induct
<1>. QED  BY <1>3 DEF S

\* The terms at even and at odd places.
Halves(f, g, h) ==
  /\ f \in [Nat -> Complex] /\ g \in [Nat -> Complex] /\ h \in [Nat -> Complex]
  /\ \A t \in Nat : g[t] = f[2 * t] /\ h[t] = f[2 * t + 1]

LEMMA SumSplits ==
  ASSUME NEW f, NEW g, NEW h, Halves(f, g, h), NEW n \in Nat
  PROVE  SumOf(f, 2 * n) = Add(SumOf(g, n), SumOf(h, n))
<1>0. /\ f \in [Nat -> Complex] /\ g \in [Nat -> Complex] /\ h \in [Nat -> Complex]
      /\ \A t \in Nat : g[t] = f[2 * t]
      /\ \A t \in Nat : h[t] = f[2 * t + 1]
  BY DEF Halves
<1>. DEFINE S == {j \in Nat : SumOf(f, 2 * j) = Add(SumOf(g, j), SumOf(h, j))}
<1>1. 0 \in S
  <2>1. SumOf(f, 2 * 0) = Naught /\ SumOf(g, 0) = Naught /\ SumOf(h, 0) = Naught
    BY <1>0, SumIs
  <2>2. Add(Naught, Naught) = Naught
    BY AddLaws, UnitsAre
  <2>. QED  BY <2>1, <2>2
<1>2. \A j \in Nat : j \in S => j + 1 \in S
  <2>. SUFFICES ASSUME NEW j \in Nat, SumOf(f, 2 * j) = Add(SumOf(g, j), SumOf(h, j))
                PROVE  SumOf(f, 2 * (j + 1)) = Add(SumOf(g, j + 1), SumOf(h, j + 1))
    OBVIOUS
  <2>1. 2 * j \in Nat /\ 2 * j + 1 \in Nat /\ 2 * (j + 1) = (2 * j + 1) + 1
    OBVIOUS
  <2>. DEFINE F == SumOf(f, 2 * j)
              G == SumOf(g, j)
              H == SumOf(h, j)
  <2>2. SumOf(f, 2 * j + 1) = Add(F, g[j]) /\ SumOf(f, (2 * j + 1) + 1) = Add(Add(F, g[j]), h[j])
    <3>1. \A k \in Nat : SumOf(f, k + 1) = Add(SumOf(f, k), f[k])
      BY <1>0, SumIs
    <3>2. SumOf(f, 2 * j + 1) = Add(F, f[2 * j])
      BY <2>1, <3>1
    <3>3. SumOf(f, (2 * j + 1) + 1) = Add(SumOf(f, 2 * j + 1), f[2 * j + 1])
      BY <2>1, <3>1
    <3>. QED  BY <1>0, <3>2, <3>3
  <2>3. SumOf(g, j + 1) = Add(G, g[j]) /\ SumOf(h, j + 1) = Add(H, h[j])
    BY <1>0, SumIs
  <2>4. G \in Complex /\ H \in Complex /\ g[j] \in Complex /\ h[j] \in Complex /\ F = Add(G, H)
    BY <1>0, SumIs
  <2>. HIDE DEF F, G, H
  <2>. DEFINE u == g[j]
              v == h[j]
  <2>. HIDE DEF u, v
  <2>5. u \in Complex /\ v \in Complex
    BY <2>4 DEF u, v
  <2>6. Add(Add(Add(G, H), u), v) = Add(Add(G, u), Add(H, v))
    <3>1. Add(G, H) \in Complex /\ Add(H, v) \in Complex /\ Add(H, u) \in Complex /\ Add(G, u) \in Complex
      BY <2>4, <2>5, RingCloses, Zenon
    <3>2. Add(Add(G, H), u) = Add(G, Add(H, u)) /\ Add(H, u) = Add(u, H)
          /\ Add(G, Add(u, H)) = Add(Add(G, u), H)
      BY <2>4, <2>5, <3>1, AddLaws
    <3>3. Add(Add(Add(G, u), H), v) = Add(Add(G, u), Add(H, v))
      BY <2>4, <2>5, <3>1, AddLaws
    <3>. QED  BY <3>2, <3>3, Zenon
  <2>. QED  BY <2>1, <2>2, <2>3, <2>4, <2>6 DEF u, v
<1>. HIDE DEF S
<1>3. n \in S
  BY <1>1, <1>2, Induct
<1>. QED  BY <1>3 DEF S

-----------------------------------------------------------------------------
(* The transform: the powers of Root go round.                             *)

LEMMA PowersMultiply ==
  ASSUME NEW m \in Nat, NEW n \in Nat
  PROVE  RootPower[m + n] = ComplexTimes(RootPower[m], RootPower[n])
<1>. DEFINE S == {k \in Nat : RootPower[m + k] = ComplexTimes(RootPower[m], RootPower[k])}
<1>1. 0 \in S
  BY RootPowers, UnitLaws, UnitsAre
<1>2. \A k \in Nat : k \in S => k + 1 \in S
  <2>. SUFFICES ASSUME NEW k \in Nat, RootPower[m + k] = ComplexTimes(RootPower[m], RootPower[k])
                PROVE  RootPower[m + (k + 1)] = ComplexTimes(RootPower[m], RootPower[k + 1])
    OBVIOUS
  <2>1. m + (k + 1) = (m + k) + 1 /\ m + k \in Nat
    OBVIOUS
  <2>2. /\ RootPower[(m + k) + 1] = ComplexTimes(RootPower[m + k], Root)
        /\ RootPower[k + 1] = ComplexTimes(RootPower[k], Root)
        /\ RootPower[m] \in Complex /\ RootPower[k] \in Complex
    BY <2>1, RootPowers
  <2>3. ComplexTimes(ComplexTimes(RootPower[m], RootPower[k]), Root)
          = ComplexTimes(RootPower[m], ComplexTimes(RootPower[k], Root))
    BY <2>2, UnitsAre, TimesLaws
  <2>. QED  BY <2>1, <2>2, <2>3
<1>. HIDE DEF S
<1>3. n \in S
  BY <1>1, <1>2, Induct
<1>. QED  BY <1>3 DEF S

LEMMA PointsAre ==
  /\ FftPoints \in Nat \ {0}
  /\ FftPoints > 1 => FftPoints = 2 * (FftPoints \div 2) /\ FftPoints \div 2 \in Nat \ {0}
<1>1. FftLog2 \in Nat /\ FftPoints = PowerOfTwo[FftLog2]
  BY FftAssumption
<1>2. FftPoints \in Nat \ {0}
  BY <1>1, PowersOfTwo
<1>3. ASSUME FftPoints > 1
      PROVE  FftPoints = 2 * (FftPoints \div 2) /\ FftPoints \div 2 \in Nat \ {0}
  <2>1. FftLog2 # 0
    BY <1>1, <1>3, PowersOfTwo
  <2>2. FftLog2 - 1 \in Nat /\ FftLog2 = (FftLog2 - 1) + 1
    BY <1>1, <2>1
  <2>3. PICK h \in Nat \ {0} : FftPoints = 2 * h
    BY <1>1, <2>2, PowersOfTwo
  <2>. QED  BY <2>3
<1>. QED  BY <1>2, <1>3

LEMMA HalfTurn ==
  ASSUME FftPoints > 1, NEW n \in Nat
  PROVE  /\ RootPower[n + (FftPoints \div 2)] = ComplexTimes(MinusUnit, RootPower[n])
         /\ RootPower[n + FftPoints] = RootPower[n]
<1>. DEFINE h == FftPoints \div 2
<1>1. h \in Nat /\ FftPoints = h + h
  BY PointsAre
<1>2. RootPower[h] = MinusUnit
  BY RootAssumption DEF MinusUnit
<1>. HIDE DEF h
<1>3. RootPower[n] \in Complex
  BY RootPowers
<1>4. RootPower[n + h] = ComplexTimes(RootPower[n], MinusUnit)
  BY <1>1, <1>2, PowersMultiply
<1>5. n + h \in Nat /\ n + FftPoints = (n + h) + h
  BY <1>1
<1>6. RootPower[n + FftPoints] = ComplexTimes(RootPower[n + h], MinusUnit)
  BY <1>1, <1>2, <1>5, PowersMultiply
<1>7. ComplexTimes(ComplexTimes(RootPower[n], MinusUnit), MinusUnit)
        = ComplexTimes(RootPower[n], Unit)
  BY <1>3, UnitsAre, UnitLaws, TimesLaws
<1>8. ComplexTimes(RootPower[n], Unit) = RootPower[n]
  BY <1>3, UnitsAre, UnitLaws
<1>9. ComplexTimes(RootPower[n], MinusUnit) = ComplexTimes(MinusUnit, RootPower[n])
  BY <1>3, UnitsAre, TimesLaws
<1>. QED  BY <1>4, <1>6, <1>7, <1>8, <1>9 DEF h

LEMMA FullTurns ==
  ASSUME FftPoints > 1, NEW n \in Nat, NEW q \in Nat
  PROVE  RootPower[n + FftPoints * q] = RootPower[n]
<1>. DEFINE S == {k \in Nat : RootPower[n + FftPoints * k] = RootPower[n]}
<1>0. FftPoints \in Nat
  BY PointsAre
<1>1. 0 \in S
  BY <1>0
<1>2. \A k \in Nat : k \in S => k + 1 \in S
  <2>. SUFFICES ASSUME NEW k \in Nat, RootPower[n + FftPoints * k] = RootPower[n]
                PROVE  RootPower[n + FftPoints * (k + 1)] = RootPower[n]
    OBVIOUS
  <2>1. n + FftPoints * (k + 1) = (n + FftPoints * k) + FftPoints /\ n + FftPoints * k \in Nat
    BY <1>0
  <2>. QED  BY <2>1, HalfTurn
<1>. HIDE DEF S
<1>3. q \in S
  BY <1>1, <1>2, Induct
<1>. QED  BY <1>3 DEF S
-----------------------------------------------------------------------------
(* The transform: parts of the sum that the transform is.  Part adds the   *)
(* n inputs from r on, step apart, with the factors of the frequency k.    *)

InputAt(j) == IF j \in Indices THEN fftIn[j] ELSE Naught
Strided(dist, r, k) ==
  [t \in Nat |-> ComplexTimes(InputAt(r + t * dist), RootPower[(t * dist) * k])]
Part(dist, r, k, n) == SumOf(Strided(dist, r, k), n)

TermIs(dist, r, k, t) ==
  /\ Strided(dist, r, k)[t] = ComplexTimes(InputAt(r + t * dist), RootPower[(t * dist) * k])
  /\ InputAt(r + t * dist) \in Complex /\ RootPower[(t * dist) * k] \in Complex

LEMMA StridedAt ==
  ASSUME fftIn \in [Indices -> Complex], NEW dist \in Nat, NEW r \in Nat, NEW k \in Nat, NEW t \in Nat
  PROVE  TermIs(dist, r, k, t)
<1>1. \A j \in Nat : InputAt(j) \in Complex
  BY UnitsAre DEF InputAt
<1>2. r + t * dist \in Nat /\ (t * dist) * k \in Nat
  OBVIOUS
<1>. QED  BY <1>1, <1>2, RootPowers DEF TermIs, Strided

LEMMA StridedIs ==
  ASSUME fftIn \in [Indices -> Complex], NEW dist \in Nat, NEW r \in Nat, NEW k \in Nat
  PROVE  Strided(dist, r, k) \in [Nat -> Complex]
<1>1. ASSUME NEW t \in Nat
      PROVE  ComplexTimes(InputAt(r + t * dist), RootPower[(t * dist) * k]) \in Complex
  <2>. DEFINE a == InputAt(r + t * dist)
              b == RootPower[(t * dist) * k]
  <2>1. a \in Complex /\ b \in Complex
    BY StridedAt DEF TermIs
  <2>. HIDE DEF a, b
  <2>2. ComplexTimes(a, b) \in Complex
    BY <2>1, RingCloses
  <2>. QED  BY <2>2 DEF a, b
<1>. QED  BY <1>1 DEF Strided

LEMMA PartIs ==
  ASSUME fftIn \in [Indices -> Complex], NEW dist \in Nat, NEW r \in Nat, NEW k \in Nat, NEW n \in Nat
  PROVE  Part(dist, r, k, n) \in Complex
  BY StridedIs, SumIs, Zenon DEF Part

\* The even terms and the odd ones are parts with twice the step.
Splits(dist, r, k, n) ==
  Part(dist, r, k, 2 * n) = Add(Part(2 * dist, r, k, n),
                                ComplexTimes(Part(2 * dist, r + dist, k, n), RootPower[dist * k]))

LEMMA PartSplits ==
  ASSUME fftIn \in [Indices -> Complex], NEW dist \in Nat, NEW r \in Nat, NEW k \in Nat, NEW n \in Nat
  PROVE  Splits(dist, r, k, n)
<1>. DEFINE f == Strided(dist, r, k)
            g == Strided(2 * dist, r, k)
            d == Strided(2 * dist, r + dist, k)
            h == [t \in Nat |-> f[2 * t + 1]]
            c == RootPower[dist * k]
<1>1. 2 * dist \in Nat /\ r + dist \in Nat /\ dist * k \in Nat
  OBVIOUS
<1>2. f \in [Nat -> Complex] /\ g \in [Nat -> Complex] /\ d \in [Nat -> Complex] /\ c \in Complex
  BY <1>1, StridedIs, RootPowers
<1>3. h \in [Nat -> Complex]
  <2>. HIDE DEF f
  <2>. QED  BY <1>2
<1>4. \A t \in Nat : g[t] = f[2 * t]
  <2>. TAKE t \in Nat
  <2>1. 2 * t \in Nat /\ r + (2 * t) * dist = r + t * (2 * dist)
        /\ ((2 * t) * dist) * k = (t * (2 * dist)) * k
    OBVIOUS
  <2>2. f[2 * t] = ComplexTimes(InputAt(r + (2 * t) * dist), RootPower[((2 * t) * dist) * k])
    BY <2>1 DEF Strided
  <2>3. g[t] = ComplexTimes(InputAt(r + t * (2 * dist)), RootPower[(t * (2 * dist)) * k])
    BY DEF Strided
  <2>. QED  BY <2>1, <2>2, <2>3, Zenon
<1>5. \A t \in Nat : h[t] = ComplexTimes(d[t], c)
  <2>. TAKE t \in Nat
  <2>1. 2 * t + 1 \in Nat /\ r + (2 * t + 1) * dist = (r + dist) + t * (2 * dist)
        /\ ((2 * t + 1) * dist) * k = (t * (2 * dist)) * k + dist * k
        /\ (t * (2 * dist)) * k \in Nat /\ (r + dist) + t * (2 * dist) \in Nat
    OBVIOUS
  <2>2. f[2 * t + 1] = ComplexTimes(InputAt(r + (2 * t + 1) * dist), RootPower[((2 * t + 1) * dist) * k])
    BY <2>1 DEF Strided
  <2>3. /\ d[t] = ComplexTimes(InputAt((r + dist) + t * (2 * dist)), RootPower[(t * (2 * dist)) * k])
        /\ InputAt((r + dist) + t * (2 * dist)) \in Complex /\ RootPower[(t * (2 * dist)) * k] \in Complex
    <3>. DEFINE u == 2 * dist
                v == r + dist
    <3>1. u \in Nat /\ v \in Nat
      OBVIOUS
    <3>. HIDE DEF u, v
    <3>2. TermIs(u, v, k, t)
      BY <3>1, StridedAt
    <3>. QED  BY <3>2, Zenon DEF TermIs, u, v
  <2>4. RootPower[(t * (2 * dist)) * k + dist * k] = ComplexTimes(RootPower[(t * (2 * dist)) * k], c)
    BY <1>1, <2>1, PowersMultiply
  <2>5. h[t] = f[2 * t + 1]
    OBVIOUS
  <2>. DEFINE a == InputAt((r + dist) + t * (2 * dist))
              b == RootPower[(t * (2 * dist)) * k]
  <2>6. ComplexTimes(a, ComplexTimes(b, c)) = ComplexTimes(ComplexTimes(a, b), c)
    <3>. HIDE DEF a, b, c
    <3>. QED  BY <1>2, <2>3, TimesLaws DEF a, b
  <2>7. f[2 * t + 1] = ComplexTimes(a, ComplexTimes(b, c))
    BY <2>1, <2>2, <2>4, Zenon
  <2>8. d[t] = ComplexTimes(a, b)
    BY <2>3
  <2>. HIDE DEF f, d, h, c, a, b
  <2>. QED  BY <2>5, <2>6, <2>7, <2>8
<1>6. \A t \in Nat : h[t] = f[2 * t + 1]
  OBVIOUS
<1>. HIDE DEF f, g, d, h, c
<1>7. SumOf(f, 2 * n) = Add(SumOf(g, n), SumOf(h, n))
  <2>1. Halves(f, g, h)
    BY <1>2, <1>3, <1>4, <1>6 DEF Halves
  <2>. QED  BY <2>1, SumSplits
<1>8. SumOf(h, n) = ComplexTimes(SumOf(d, n), c)
  BY <1>2, <1>3, <1>5, SumTimes
<1>. QED  BY <1>7, <1>8 DEF Splits, Part, f, g, d, c

\* A part has as many frequencies as inputs.
LEMMA PartRepeats ==
  ASSUME fftIn \in [Indices -> Complex], FftPoints > 1,
         NEW dist \in Nat, NEW r \in Nat, NEW k \in Nat, NEW n \in Nat, n * dist = FftPoints
  PROVE  Part(dist, r, k + n, n) = Part(dist, r, k, n)
<1>. DEFINE f == Strided(dist, r, k + n)
            g == Strided(dist, r, k)
<1>1. k + n \in Nat
  OBVIOUS
<1>2. f \in [Nat -> Complex] /\ g \in [Nat -> Complex]
  BY <1>1, StridedIs
<1>3. \A t \in Nat : f[t] = g[t]
  <2>. TAKE t \in Nat
  <2>1. (t * dist) * (k + n) = (t * dist) * k + FftPoints * t /\ (t * dist) * k \in Nat
    <3>1. (t * dist) * (k + n) = (t * dist) * k + (n * dist) * t
      OBVIOUS
    <3>. QED  BY <3>1
  <2>2. RootPower[(t * dist) * k + FftPoints * t] = RootPower[(t * dist) * k]
    BY <2>1, FullTurns
  <2>3. /\ f[t] = ComplexTimes(InputAt(r + t * dist), RootPower[(t * dist) * (k + n)])
        /\ g[t] = ComplexTimes(InputAt(r + t * dist), RootPower[(t * dist) * k])
    BY DEF Strided
  <2>. QED  BY <2>1, <2>2, <2>3, Zenon
<1>. HIDE DEF f, g
<1>4. SumOf(f, n) = SumOf(g, n)
  BY <1>2, <1>3, SumAgrees
<1>. QED  BY <1>4 DEF Part, f, g

Crossed(dist, r, k, n) ==
  LET even == Part(2 * dist, r, k, n)
      turned == ComplexTimes(RootPower[dist * k], Part(2 * dist, r + dist, k, n))
  IN Part(dist, r, k, 2 * n) = Add(even, turned) /\ Part(dist, r, k + n, 2 * n) = Sub(even, turned)

LEMMA Butterflies ==
  ASSUME fftIn \in [Indices -> Complex], NEW dist \in Nat, NEW r \in Nat, NEW k \in Nat,
         NEW n \in Nat \ {0}, (2 * n) * dist = FftPoints
  PROVE  Crossed(dist, r, k, n)
<1>. DEFINE even == Part(2 * dist, r, k, n)
            odd == Part(2 * dist, r + dist, k, n)
            w == RootPower[dist * k]
<1>1. FftPoints > 1 /\ n * (2 * dist) = FftPoints /\ FftPoints \div 2 = dist * n
  <2>1. FftPoints \in Nat \ {0} /\ dist * n \in Nat /\ 2 * (dist * n) = FftPoints
    <3>1. (2 * n) * dist = 2 * (dist * n)
      OBVIOUS
    <3>. QED  BY <3>1, PointsAre
  <2>2. n * (2 * dist) = FftPoints
    <3>1. n * (2 * dist) = (2 * n) * dist
      OBVIOUS
    <3>. QED  BY <3>1
  <2>. DEFINE q == dist * n
  <2>3. q \in Nat /\ 2 * q = FftPoints
    BY <2>1
  <2>. HIDE DEF q
  <2>4. FftPoints > 1 /\ FftPoints \div 2 = q
    BY <2>1, <2>3
  <2>. QED  BY <2>2, <2>4 DEF q
<1>2. /\ n \in Nat /\ 2 * dist \in Nat /\ r + dist \in Nat /\ k + n \in Nat /\ dist * k \in Nat
      /\ dist * (k + n) = dist * k + dist * n
  OBVIOUS
<1>3. even \in Complex /\ odd \in Complex /\ w \in Complex
  BY <1>2, PartIs, RootPowers
<1>4. Part(2 * dist, r, k + n, n) = even /\ Part(2 * dist, r + dist, k + n, n) = odd
  <2>. DEFINE u == 2 * dist
              v == r + dist
  <2>1. n \in Nat /\ u \in Nat /\ v \in Nat /\ n * u = FftPoints /\ FftPoints > 1
    BY <1>1, <1>2
  <2>. HIDE DEF u, v, even, odd, w
  <2>2. Part(u, r, k + n, n) = Part(u, r, k, n)
    BY <2>1, PartRepeats
  <2>3. Part(u, v, k + n, n) = Part(u, v, k, n)
    BY <2>1, PartRepeats
  <2>. QED  BY <2>2, <2>3 DEF u, v, even, odd
<1>5. RootPower[dist * (k + n)] = ComplexTimes(MinusUnit, w)
  BY <1>1, <1>2, HalfTurn
<1>6. Part(dist, r, k, 2 * n) = Add(even, ComplexTimes(odd, w))
  <2>1. Splits(dist, r, k, n)
    BY <1>2, PartSplits
  <2>. QED  BY <2>1, Zenon DEF Splits
<1>7. Part(dist, r, k + n, 2 * n) = Add(even, ComplexTimes(odd, ComplexTimes(MinusUnit, w)))
  <2>1. Splits(dist, r, k + n, n)
    BY <1>2, PartSplits
  <2>2. Part(dist, r, k + n, 2 * n)
          = Add(Part(2 * dist, r, k + n, n),
                ComplexTimes(Part(2 * dist, r + dist, k + n, n), RootPower[dist * (k + n)]))
    BY <2>1, Zenon DEF Splits
  <2>. QED  BY <1>4, <1>5, <2>2, Zenon
<1>. HIDE DEF even, odd, w
<1>8. ComplexTimes(odd, w) = ComplexTimes(w, odd) /\ ComplexTimes(w, odd) \in Complex
  BY <1>3, TimesLaws, RingCloses
<1>9. ComplexTimes(odd, ComplexTimes(MinusUnit, w)) = ComplexTimes(MinusUnit, ComplexTimes(w, odd))
  <2>1. ComplexTimes(MinusUnit, w) \in Complex
    BY <1>3, UnitsAre, RingCloses
  <2>2. ComplexTimes(odd, ComplexTimes(MinusUnit, w)) = ComplexTimes(ComplexTimes(MinusUnit, w), odd)
    BY <1>3, <2>1, TimesLaws
  <2>3. ComplexTimes(ComplexTimes(MinusUnit, w), odd) = ComplexTimes(MinusUnit, ComplexTimes(w, odd))
    BY <1>3, UnitsAre, TimesLaws
  <2>. QED  BY <2>2, <2>3
<1>10. Add(even, ComplexTimes(MinusUnit, ComplexTimes(w, odd))) = Sub(even, ComplexTimes(w, odd))
  BY <1>3, <1>8, UnitsAre, UnitLaws
<1>11. /\ Part(dist, r, k, 2 * n) = Add(even, ComplexTimes(w, odd))
       /\ Part(dist, r, k + n, 2 * n) = Sub(even, ComplexTimes(w, odd))
  BY <1>6, <1>7, <1>8, <1>9, <1>10
<1>. QED  BY <1>11 DEF Crossed, even, odd, w

\* The whole sum is the transform.
LEMMA DftIs ==
  ASSUME fftIn \in [Indices -> Complex], NEW k \in Indices
  PROVE  Dft(k) = Part(1, 0, k, FftPoints)
<1>. DEFINE points == FftPoints
            f == Strided(1, 0, k)
            term(n) == ComplexTimes(fftIn[n], RootPower[(n * k) % points])
            Rec(s) == [n \in 0 .. points |->
                         IF n = 0 THEN [re |-> 0, im |-> 0]
                         ELSE [re |-> Plus(s[n - 1].re, term(n - 1).re),
                               im |-> Plus(s[n - 1].im, term(n - 1).im)]]
            sum == CHOOSE s : s = Rec(s)
            g == [n \in 0 .. points |-> SumOf(f, n)]
<1>1. points \in Nat \ {0} /\ k \in Nat /\ k \in 0 .. points - 1
  BY PointsAre DEF Indices
<1>2. f \in [Nat -> Complex]
  BY <1>1, StridedIs
<1>3. \A t \in Nat : t < points => f[t] = term(t)
  <2>. SUFFICES ASSUME NEW t \in Nat, t < points PROVE f[t] = term(t)
    OBVIOUS
  <2>1. f[t] = ComplexTimes(InputAt(0 + t * 1), RootPower[(t * 1) * k])
    BY DEF Strided
  <2>2. 0 + t * 1 = t /\ (t * 1) * k = t * k /\ t \in Indices /\ t * k \in Nat
    BY <1>1 DEF Indices
  <2>3. InputAt(t) = fftIn[t]
    BY <2>2 DEF InputAt
  <2>4. RootPower[(t * k) % points] = RootPower[t * k]
    <3>. DEFINE m == t * k
    <3>1. m \in Nat
      BY <2>2
    <3>. HIDE DEF m
    <3>2. m % points \in Nat /\ m \div points \in Nat /\ m = (m % points) + points * (m \div points)
      BY <1>1, <3>1
    <3>3. CASE points > 1
      BY <3>2, <3>3, FullTurns DEF m
    <3>4. CASE points = 1
      <4>1. t = 0 /\ k = 0
        BY <1>1, <3>4
      <4>2. m = 0
        BY <1>1, <4>1 DEF m
      <4>. QED  BY <3>2, <3>4, <4>2 DEF m
    <3>. QED  BY <1>1, <3>3, <3>4
  <2>. QED  BY <2>1, <2>2, <2>3, <2>4, Zenon
<1>4. \A u, v : Add(u, v) = [re |-> Plus(u.re, v.re), im |-> Plus(u.im, v.im)]
  BY Zenon DEF Add
<1>. HIDE DEF f, term
<1>5. /\ SumOf(f, 0) = [re |-> 0, im |-> 0]
      /\ \A n \in Nat : SumOf(f, n + 1) = Add(SumOf(f, n), f[n])
  BY <1>2, SumIs DEF Naught
<1>6. g = Rec(g)
  <2>1. ASSUME NEW n \in 0 .. points
        PROVE  g[n] = IF n = 0 THEN [re |-> 0, im |-> 0]
                      ELSE [re |-> Plus(g[n - 1].re, term(n - 1).re),
                            im |-> Plus(g[n - 1].im, term(n - 1).im)]
    <3>1. CASE n = 0
      BY <1>1, <1>5, <3>1
    <3>2. CASE n # 0
      <4>1. n - 1 \in Nat /\ n - 1 < points /\ n - 1 \in 0 .. points /\ n = (n - 1) + 1
        BY <1>1, <3>2
      <4>2. g[n] = Add(g[n - 1], term(n - 1))
        BY <1>3, <1>5, <4>1
      <4>. HIDE DEF g
      <4>. QED  BY <1>4, <3>2, <4>2
    <3>. QED  BY <3>1, <3>2
  <2>. DEFINE S(h) == [n \in 0 .. points |->
                         IF n = 0 THEN [re |-> 0, im |-> 0]
                         ELSE [re |-> Plus(h[n - 1].re, term(n - 1).re),
                               im |-> Plus(h[n - 1].im, term(n - 1).im)]]
  <2>2. g = [n \in 0 .. points |-> g[n]]
    OBVIOUS
  <2>. HIDE DEF g
  <2>. QED  BY <2>1, <2>2
<1>. HIDE DEF g
<1>7. sum = Rec(sum)
  <2>. HIDE DEF Rec
  <2>. QED  BY <1>6
<1>8. Dft(k) = sum[points]
  BY Zenon DEF Dft, term
<1>. HIDE DEF sum
<1>9. /\ sum[0] = [re |-> 0, im |-> 0]
      /\ \A n \in Nat : n + 1 <= points => sum[n + 1] = Add(sum[n], term(n))
  <2>1. \A n \in 0 .. points : sum[n] = IF n = 0 THEN [re |-> 0, im |-> 0]
                                   ELSE [re |-> Plus(sum[n - 1].re, term(n - 1).re),
                                         im |-> Plus(sum[n - 1].im, term(n - 1).im)]
    BY <1>7
  <2>2. 0 \in 0 .. points /\ \A n \in Nat : n + 1 <= points => n + 1 \in 0 .. points /\ n + 1 # 0 /\ n + 1 - 1 = n
    BY <1>1
  <2>. QED  BY <1>4, <2>1, <2>2
<1>. DEFINE S == {n \in Nat : n <= points => sum[n] = SumOf(f, n)}
<1>10. 0 \in S
  BY <1>5, <1>9
<1>11. \A n \in Nat : n \in S => n + 1 \in S
  <2>. SUFFICES ASSUME NEW n \in Nat, n \in S, n + 1 <= points
                PROVE  sum[n + 1] = SumOf(f, n + 1)
    OBVIOUS
  <2>1. n < points /\ sum[n] = SumOf(f, n)
    BY <1>1
  <2>. QED  BY <1>3, <1>5, <1>9, <2>1
<1>. HIDE DEF S
<1>12. points \in S
  BY <1>1, <1>10, <1>11, Induct
<1>. QED  BY <1>1, <1>8, <1>12 DEF S, Part, f
-----------------------------------------------------------------------------
(* The transform: the bits of an index reversed.                           *)

Shifts(value) ==
  CHOOSE shifted :
    shifted = [n \in 0 .. FftLog2 |->
                 IF n = 0 THEN [reversed |-> 0, value |-> value]
                 ELSE [reversed |-> 2 * shifted[n - 1].reversed + (shifted[n - 1].value % 2),
                       value |-> shifted[n - 1].value \div 2]]

\* After n rounds of the loop: what is reversed, and the rest of the value.
Turned(v, n) == Shifts(v)[n].reversed
Remaining(v, n) == Shifts(v)[n].value

LEMMA ShiftsAre ==
  ASSUME NEW v \in Nat
  PROVE  /\ Turned(v, 0) = 0 /\ Remaining(v, 0) = v /\ ReverseBits(v) = Turned(v, FftLog2)
         /\ \A n \in Nat : n < FftLog2 => /\ Turned(v, n + 1) = 2 * Turned(v, n) + (Remaining(v, n) % 2)
                                          /\ Remaining(v, n + 1) = Remaining(v, n) \div 2
         /\ \A n \in Nat : n <= FftLog2 => Turned(v, n) \in Nat /\ Remaining(v, n) \in Nat
<1>. DEFINE L == FftLog2
            V == [reversed : Nat, value : Nat]
            first == [reversed |-> 0, value |-> v]
            dist(s) == [reversed |-> 2 * s.reversed + (s.value % 2), value |-> s.value \div 2]
            onward == [k \in 1 .. L |-> [s \in V |-> dist(s)]]
            Rec(f) == [n \in 0 .. L |->
                         IF n = 0 THEN [reversed |-> 0, value |-> v]
                         ELSE [reversed |-> 2 * f[n - 1].reversed + (f[n - 1].value % 2),
                               value |-> f[n - 1].value \div 2]]
            f == Shifts(v)
<1>1. L \in Nat /\ first \in V
  BY FftAssumption
<1>2. \A s \in V : dist(s) \in V
  OBVIOUS
<1>3. onward \in [1 .. L -> [V -> V]]
  <2>. HIDE DEF V, dist
  <2>. QED  BY <1>2
<1>4. PICK g : Recurs(g, L, V, first, onward)
  <2>. HIDE DEF V, first, onward
  <2>. QED  BY <1>1, <1>3, Recursion
<1>5. g \in [0 .. L -> V] /\ g[0] = first /\ \A k \in 1 .. L : g[k] = dist(g[k - 1])
  <2>1. g \in [0 .. L -> V] /\ g[0] = first /\ \A k \in 1 .. L : g[k] = onward[k][g[k - 1]]
    BY <1>4 DEF Recurs
  <2>2. \A k \in 1 .. L, s \in V : onward[k][s] = dist(s)
    OBVIOUS
  <2>. HIDE DEF V, first, onward, dist
  <2>3. \A k \in 1 .. L : g[k - 1] \in V
    <3>. TAKE k \in 1 .. L
    <3>1. k - 1 \in 0 .. L
      BY <1>1
    <3>. QED  BY <2>1, <3>1
  <2>. QED  BY <2>1, <2>2, <2>3
<1>6. g = Rec(g)
  <2>1. \A n \in 0 .. L : g[n] = IF n = 0 THEN [reversed |-> 0, value |-> v]
                                 ELSE [reversed |-> 2 * g[n - 1].reversed + (g[n - 1].value % 2),
                                       value |-> g[n - 1].value \div 2]
    <3>. TAKE n \in 0 .. L
    <3>1. CASE n = 0
      BY <1>5, <3>1
    <3>2. CASE n # 0
      <4>1. n \in 1 .. L
        BY <1>1, <3>2
      <4>2. g[n] = dist(g[n - 1])
        BY <1>5, <4>1
      <4>. QED  BY <3>2, <4>2
    <3>. QED  BY <3>1, <3>2
  <2>2. g = [n \in 0 .. L |-> g[n]]
    BY <1>5
  <2>. QED  BY <2>1, <2>2
<1>7. f = Rec(f)
  <2>1. f = CHOOSE h : h = Rec(h)
    BY Zenon DEF Shifts
  <2>. HIDE DEF Rec, f
  <2>. QED  BY <1>6, <2>1
<1>8. ReverseBits(v) = Turned(v, L)
  BY Zenon DEF ReverseBits, Turned, Shifts
<1>9. f[0] = first /\ \A n \in Nat : n < L => f[n + 1] = dist(f[n])
  <2>. HIDE DEF f
  <2>1. \A n \in 0 .. L : f[n] = IF n = 0 THEN [reversed |-> 0, value |-> v]
                                 ELSE [reversed |-> 2 * f[n - 1].reversed + (f[n - 1].value % 2),
                                       value |-> f[n - 1].value \div 2]
    BY <1>7
  <2>2. \A n \in 0 .. L : f[n] = IF n = 0 THEN first ELSE dist(f[n - 1])
    BY <2>1
  <2>. HIDE DEF dist, first
  <2>3. 0 \in 0 .. L /\ \A n \in Nat : n < L => n + 1 \in 0 .. L /\ n + 1 # 0 /\ n + 1 - 1 = n
    BY <1>1
  <2>. QED  BY <2>2, <2>3
<1>. HIDE DEF f
<1>. DEFINE S == {n \in Nat : n <= L => f[n] \in V}
<1>10. 0 \in S
  BY <1>1, <1>9
<1>11. \A n \in Nat : n \in S => n + 1 \in S
  <2>. SUFFICES ASSUME NEW n \in Nat, n \in S, n + 1 <= L PROVE f[n + 1] \in V
    OBVIOUS
  <2>1. n < L /\ f[n] \in V
    BY <1>1
  <2>. HIDE DEF V, dist
  <2>. QED  BY <1>2, <1>9, <2>1
<1>. HIDE DEF S
<1>12. Nat \subseteq S
  BY <1>10, <1>11, Induct
<1>13. Turned(v, 0) = 0 /\ Remaining(v, 0) = v
  BY <1>9 DEF Turned, Remaining, f
<1>14. ASSUME NEW n \in Nat, n < L
       PROVE  /\ Turned(v, n + 1) = 2 * Turned(v, n) + (Remaining(v, n) % 2)
              /\ Remaining(v, n + 1) = Remaining(v, n) \div 2
  <2>1. f[n + 1] = dist(f[n])
    BY <1>9, <1>14
  <2>. QED  BY <2>1 DEF Turned, Remaining, f
<1>15. ASSUME NEW n \in Nat, n <= L
       PROVE  Turned(v, n) \in Nat /\ Remaining(v, n) \in Nat
  <2>1. f[n] \in V
    BY <1>12, <1>15 DEF S
  <2>. QED  BY <2>1 DEF Turned, Remaining, f
<1>. QED  BY <1>8, <1>13, <1>14, <1>15

LEMMA Halved ==
  ASSUME NEW a \in Nat
  PROVE  /\ a = 2 * (a \div 2) + (a % 2) /\ a \div 2 \in Nat /\ a % 2 \in {0, 1}
         /\ \A b \in Nat, c \in {0, 1} : a = 2 * b + c => a \div 2 = b /\ a % 2 = c
         /\ \A p \in Nat : a < 2 * p => a \div 2 < p
  OBVIOUS

LEMMA ReverseIn ==
  ASSUME NEW v \in Indices
  PROVE  ReverseBits(v) \in Indices
<1>. DEFINE L == FftLog2
            S == {n \in Nat : n <= L => Turned(v, n) < PowerOfTwo[n]}
<1>1. L \in Nat /\ FftPoints = PowerOfTwo[L] /\ v \in Nat
  BY FftAssumption DEF Indices
<1>2. 0 \in S
  BY <1>1, ShiftsAre, PowersOfTwo
<1>3. \A n \in Nat : n \in S => n + 1 \in S
  <2>. SUFFICES ASSUME NEW n \in Nat, n \in S, n + 1 <= L
                PROVE  Turned(v, n + 1) < PowerOfTwo[n + 1]
    OBVIOUS
  <2>1. n < L /\ n <= L /\ Turned(v, n) < PowerOfTwo[n]
    BY <1>1
  <2>2. /\ Turned(v, n + 1) = 2 * Turned(v, n) + (Remaining(v, n) % 2)
        /\ Turned(v, n) \in Nat /\ Remaining(v, n) \in Nat
    BY <1>1, <2>1, ShiftsAre
  <2>3. PowerOfTwo[n] \in Nat /\ PowerOfTwo[n + 1] = 2 * PowerOfTwo[n]
    BY PowersOfTwo
  <2>4. Remaining(v, n) % 2 \in {0, 1}
    BY <2>2, Halved
  <2>. QED  BY <2>1, <2>2, <2>3, <2>4
<1>. HIDE DEF S
<1>4. L \in S
  BY <1>1, <1>2, <1>3, Induct
<1>5. ReverseBits(v) = Turned(v, L) /\ Turned(v, L) \in Nat
  BY <1>1, ShiftsAre
<1>6. Turned(v, L) < FftPoints
  BY <1>1, <1>4 DEF S
<1>7. FftPoints \in Nat
  BY PointsAre
<1>. HIDE DEF L
<1>. QED  BY <1>5, <1>6, <1>7 DEF Indices

\* The second time goes through the states of the first backwards.
LEMMA ReverseTwice ==
  ASSUME NEW v \in Indices
  PROVE  ReverseBits(ReverseBits(v)) = v
<1>. DEFINE L == FftLog2
            w == ReverseBits(v)
            R == {n \in Nat : n <= L => Remaining(v, n) < PowerOfTwo[L - n]}
            S == {n \in Nat : n <= L => Remaining(w, n) = Turned(v, L - n) /\ Turned(w, n) = Remaining(v, L - n)}
<1>1. L \in Nat /\ FftPoints = PowerOfTwo[L] /\ v \in Nat /\ v < FftPoints /\ w \in Nat
  BY FftAssumption, ReverseIn, PointsAre DEF Indices
<1>2. 0 \in R
  BY <1>1, ShiftsAre
<1>3. \A n \in Nat : n \in R => n + 1 \in R
  <2>. SUFFICES ASSUME NEW n \in Nat, n \in R, n + 1 <= L
                PROVE  Remaining(v, n + 1) < PowerOfTwo[L - (n + 1)]
    OBVIOUS
  <2>1. n < L /\ n <= L /\ Remaining(v, n) < PowerOfTwo[L - n] /\ L - (n + 1) \in Nat
        /\ L - n = (L - (n + 1)) + 1
    BY <1>1
  <2>2. Remaining(v, n + 1) = Remaining(v, n) \div 2 /\ Remaining(v, n) \in Nat
    BY <1>1, <2>1, ShiftsAre
  <2>. DEFINE p == PowerOfTwo[L - (n + 1)]
  <2>3. p \in Nat /\ PowerOfTwo[L - n] = 2 * p
    BY <2>1, PowersOfTwo
  <2>. HIDE DEF p
  <2>4. Remaining(v, n) \div 2 < p
    BY <2>1, <2>2, <2>3, Halved
  <2>. QED  BY <2>2, <2>4 DEF p
<1>. HIDE DEF R
<1>4. L \in R
  BY <1>1, <1>2, <1>3, Induct
<1>5. Remaining(v, L) = 0
  <2>1. Remaining(v, L) \in Nat /\ Remaining(v, L) < PowerOfTwo[L - L] /\ L - L = 0
    BY <1>1, <1>4, ShiftsAre DEF R
  <2>. QED  BY <2>1, PowersOfTwo
<1>. HIDE DEF w
<1>6. 0 \in S
  <2>1. Remaining(w, 0) = w /\ Turned(w, 0) = 0 /\ L - 0 = L
    BY <1>1, ShiftsAre
  <2>2. w = Turned(v, L)
    BY <1>1, ShiftsAre DEF w
  <2>. QED  BY <1>5, <2>1, <2>2
<1>7. \A n \in Nat : n \in S => n + 1 \in S
  <2>. SUFFICES ASSUME NEW n \in Nat, n \in S, n + 1 <= L
                PROVE  /\ Remaining(w, n + 1) = Turned(v, L - (n + 1))
                       /\ Turned(w, n + 1) = Remaining(v, L - (n + 1))
    OBVIOUS
  <2>1. n < L /\ Remaining(w, n) = Turned(v, L - n) /\ Turned(w, n) = Remaining(v, L - n)
    BY <1>1
  <2>. DEFINE k == L - (n + 1)
  <2>2. k \in Nat /\ k < L /\ k <= L /\ L - n = k + 1
    BY <1>1
  <2>. HIDE DEF k, S
  <2>3. /\ Turned(v, k + 1) = 2 * Turned(v, k) + (Remaining(v, k) % 2)
        /\ Remaining(v, k + 1) = Remaining(v, k) \div 2
        /\ Turned(v, k) \in Nat /\ Remaining(v, k) \in Nat
    BY <1>1, <2>2, ShiftsAre
  <2>4. /\ Turned(w, n + 1) = 2 * Turned(w, n) + (Remaining(w, n) % 2)
        /\ Remaining(w, n + 1) = Remaining(w, n) \div 2
    BY <1>1, <2>1, ShiftsAre
  <2>. DEFINE t == Turned(v, k)
              r == Remaining(v, k)
  <2>5. /\ t \in Nat /\ r \in Nat /\ r = 2 * (r \div 2) + (r % 2) /\ r \div 2 \in Nat
        /\ 2 * t + (r % 2) \in Nat
        /\ (2 * t + (r % 2)) \div 2 = t /\ (2 * t + (r % 2)) % 2 = r % 2
    <3>. HIDE DEF t, r
    <3>1. t \in Nat /\ r \in Nat
      BY <2>3 DEF t, r
    <3>2. r % 2 \in {0, 1} /\ r = 2 * (r \div 2) + (r % 2) /\ r \div 2 \in Nat
      BY <3>1, Halved
    <3>3. 2 * t + (r % 2) \in Nat
      BY <3>1, <3>2
    <3>4. (2 * t + (r % 2)) \div 2 = t /\ (2 * t + (r % 2)) % 2 = r % 2
      <4>. DEFINE e == r % 2
      <4>1. e \in {0, 1}
        BY <3>2
      <4>. HIDE DEF e
      <4>2. (2 * t + e) \div 2 = t /\ (2 * t + e) % 2 = e
        BY <3>1, <4>1
      <4>. QED  BY <4>2 DEF e
    <3>. QED  BY <3>1, <3>2, <3>3, <3>4
  <2>6. Remaining(w, n) = 2 * t + (r % 2) /\ Turned(w, n) = r \div 2
    BY <2>1, <2>2, <2>3
  <2>. HIDE DEF t, r
  <2>7. Remaining(w, n + 1) = t /\ Turned(w, n + 1) = r
    BY <2>4, <2>5, <2>6
  <2>. QED  BY <2>7 DEF t, r, k
<1>. HIDE DEF S
<1>8. L \in S
  BY <1>1, <1>6, <1>7, Induct
<1>9. Turned(w, L) = Remaining(v, L - L) /\ L - L = 0 /\ Remaining(v, 0) = v /\ ReverseBits(w) = Turned(w, L)
  BY <1>1, <1>8, ShiftsAre DEF S
<1>. QED  BY <1>9 DEF w

\* The rest of a multiple of a power of two, while zeros are shifted out.
LEMMA ZerosShift ==
  ASSUME NEW s \in Nat, s <= FftLog2, NEW u \in Nat
  PROVE  /\ PowerOfTwo[s] * u \in Nat
         /\ Turned(PowerOfTwo[s] * u, s) = 0 /\ Remaining(PowerOfTwo[s] * u, s) = u
<1>. DEFINE v == PowerOfTwo[s] * u
            S == {n \in Nat : n <= s => /\ Turned(v, n) = 0
                                       /\ Remaining(v, n) = PowerOfTwo[s - n] * u}
<1>1. v \in Nat /\ FftLog2 \in Nat
  BY PowersOfTwo, FftAssumption
<1>2. 0 \in S
  <2>1. v \in Nat /\ s - 0 = s /\ v = PowerOfTwo[s] * u
    BY <1>1
  <2>. HIDE DEF v
  <2>2. Turned(v, 0) = 0 /\ Remaining(v, 0) = v
    BY <2>1, ShiftsAre
  <2>. QED  BY <2>1, <2>2
<1>. HIDE DEF v
<1>3. \A n \in Nat : n \in S => n + 1 \in S
  <2>. SUFFICES ASSUME NEW n \in Nat, n \in S, n + 1 <= s
                PROVE  Turned(v, n + 1) = 0 /\ Remaining(v, n + 1) = PowerOfTwo[s - (n + 1)] * u
    OBVIOUS
  <2>. DEFINE p == PowerOfTwo[s - (n + 1)]
  <2>1. n < FftLog2 /\ n <= s /\ s - (n + 1) \in Nat /\ s - n = (s - (n + 1)) + 1
    BY <1>1
  <2>2. p \in Nat /\ PowerOfTwo[s - n] = 2 * p
    BY <2>1, PowersOfTwo
  <2>3. Turned(v, n) = 0 /\ Remaining(v, n) = PowerOfTwo[s - n] * u
    BY <2>1
  <2>. HIDE DEF p, S
  <2>4. Remaining(v, n) = 2 * (p * u) + 0 /\ p * u \in Nat /\ Remaining(v, n) \in Nat
    BY <2>2, <2>3
  <2>. DEFINE q == p * u
  <2>. HIDE DEF q
  <2>5. Remaining(v, n) \div 2 = q /\ Remaining(v, n) % 2 = 0
    <3>1. Remaining(v, n) \in Nat /\ q \in Nat /\ Remaining(v, n) = 2 * q + 0
      BY <2>4 DEF q
    <3>. QED  BY <3>1, Halved
  <2>6. /\ Turned(v, n + 1) = 2 * Turned(v, n) + (Remaining(v, n) % 2)
        /\ Remaining(v, n + 1) = Remaining(v, n) \div 2
    BY <1>1, <2>1, ShiftsAre
  <2>. QED  BY <2>3, <2>5, <2>6 DEF q, p
<1>. HIDE DEF S
<1>4. s \in S
  BY <1>2, <1>3, Induct
<1>5. Turned(v, s) = 0 /\ Remaining(v, s) = PowerOfTwo[0] * u
  <2>1. s - s = 0
    OBVIOUS
  <2>. QED  BY <1>4, <2>1 DEF S
<1>6. PowerOfTwo[0] * u = u
  BY PowersOfTwo
<1>. QED  BY <1>1, <1>5, <1>6 DEF v

\* The bit above the offset in a block becomes the one that tells which half
\* of the inputs, the even or the odd, the block has.
LEMMA ReverseOdd ==
  ASSUME NEW s \in Nat, s < FftLog2, NEW q \in Nat
  PROVE  ReverseBits(PowerOfTwo[s] * (2 * q + 1))
           = ReverseBits(PowerOfTwo[s] * (2 * q)) + PowerOfTwo[FftLog2 - (s + 1)]
<1>. DEFINE L == FftLog2
            v == PowerOfTwo[s] * (2 * q)
            w == PowerOfTwo[s] * (2 * q + 1)
            S == {i \in Nat : (s + 1) + i <= L =>
                    /\ Remaining(w, (s + 1) + i) = Remaining(v, (s + 1) + i)
                    /\ Turned(w, (s + 1) + i) = Turned(v, (s + 1) + i) + PowerOfTwo[i]}
<1>1. L \in Nat /\ s <= L /\ 2 * q \in Nat /\ 2 * q + 1 \in Nat
  BY FftAssumption
<1>2. /\ v \in Nat /\ Turned(v, s) = 0 /\ Remaining(v, s) = 2 * q
      /\ w \in Nat /\ Turned(w, s) = 0 /\ Remaining(w, s) = 2 * q + 1
  BY <1>1, ZerosShift
<1>. HIDE DEF v, w
<1>3. /\ (2 * q) \div 2 = q /\ (2 * q) % 2 = 0
      /\ (2 * q + 1) \div 2 = q /\ (2 * q + 1) % 2 = 1
  OBVIOUS
<1>4. 0 \in S
  <2>1. /\ Turned(v, s + 1) = 2 * Turned(v, s) + (Remaining(v, s) % 2)
        /\ Remaining(v, s + 1) = Remaining(v, s) \div 2
        /\ Turned(w, s + 1) = 2 * Turned(w, s) + (Remaining(w, s) % 2)
        /\ Remaining(w, s + 1) = Remaining(w, s) \div 2
    BY <1>1, <1>2, ShiftsAre
  <2>2. Remaining(w, s + 1) = Remaining(v, s + 1) /\ Turned(w, s + 1) = 1 /\ Turned(v, s + 1) = 0
    BY <1>2, <1>3, <2>1
  <2>3. (s + 1) + 0 = s + 1 /\ PowerOfTwo[0] = 1
    BY PowersOfTwo
  <2>. QED  BY <2>2, <2>3
<1>5. ASSUME NEW i \in Nat, i \in S
      PROVE  i + 1 \in S
  <2>. SUFFICES ASSUME (s + 1) + (i + 1) <= L
                PROVE  /\ Remaining(w, (s + 1) + (i + 1)) = Remaining(v, (s + 1) + (i + 1))
                       /\ Turned(w, (s + 1) + (i + 1))
                            = Turned(v, (s + 1) + (i + 1)) + PowerOfTwo[i + 1]
    <3>1. i + 1 \in Nat
      OBVIOUS
    <3>. QED  BY <3>1, Zenon
  <2>. DEFINE n == (s + 1) + i
  <2>1. n \in Nat /\ n < L /\ n <= L /\ (s + 1) + (i + 1) = n + 1
    BY <1>1
  <2>2. Remaining(w, n) = Remaining(v, n) /\ Turned(w, n) = Turned(v, n) + PowerOfTwo[i]
    BY <1>5, <2>1
  <2>. HIDE DEF n, S
  <2>3. /\ Turned(v, n + 1) = 2 * Turned(v, n) + (Remaining(v, n) % 2)
        /\ Remaining(v, n + 1) = Remaining(v, n) \div 2
        /\ Turned(w, n + 1) = 2 * Turned(w, n) + (Remaining(w, n) % 2)
        /\ Remaining(w, n + 1) = Remaining(w, n) \div 2
        /\ Turned(v, n) \in Nat /\ Remaining(v, n) \in Nat
    BY <1>1, <1>2, <2>1, ShiftsAre
  <2>4. PowerOfTwo[i + 1] = 2 * PowerOfTwo[i] /\ PowerOfTwo[i] \in Nat
    BY PowersOfTwo
  <2>5. Remaining(v, n) % 2 \in {0, 1}
    BY <2>3, Halved
  <2>6. /\ Remaining(w, n + 1) = Remaining(v, n + 1)
        /\ Turned(w, n + 1) = Turned(v, n + 1) + PowerOfTwo[i + 1]
    BY <2>2, <2>3, <2>4, <2>5
  <2>. QED  BY <2>1, <2>6
<1>. HIDE DEF S
<1>6. L - (s + 1) \in Nat /\ (s + 1) + (L - (s + 1)) = L
  BY <1>1
<1>7. L - (s + 1) \in S
  BY <1>4, <1>5, <1>6, Induct
<1>8. Turned(w, L) = Turned(v, L) + PowerOfTwo[L - (s + 1)]
  BY <1>1, <1>6, <1>7 DEF S
<1>9. ReverseBits(v) = Turned(v, L) /\ ReverseBits(w) = Turned(w, L)
  BY <1>2, ShiftsAre
<1>. QED  BY <1>8, <1>9 DEF v, w
-----------------------------------------------------------------------------
(* The transform: the inductive invariant.  Before the stage of the blocks *)
(* of twice Size inputs each block of Size places holds the transform of   *)
(* the inputs that are a distance apart, from the first place reversed on. *)

Value(j) == [re |-> fftRe[j], im |-> fftIm[j]]

Block(size, dist, j) == Part(dist, ReverseBits(j - (j % size)), j % size, size)

FftTypes ==
  /\ fftIn \in [Indices -> Complex]
  /\ fftRe \in [Indices -> Numbers] /\ fftIm \in [Indices -> Numbers]
  /\ index \in 0 .. FftPoints /\ mismatches = 0
  /\ loop \in [size : 0 .. 2 * FftPoints, base : Nat, offset : Nat]
  /\ fftPc \in {"load", "reverse", "transform", "compare", "pass"}

Reversing ==
  \A j \in Indices :
    Value(j) = fftIn[IF j < index \/ ReverseBits(j) < index THEN ReverseBits(j) ELSE j]

\* The butterfly of the place j comes before that of base and offset.
Before(size, base, offset, j) ==
  \/ j - (j % size) < base
  \/ j - (j % size) = base /\ j % (size \div 2) < offset

InStage(s) ==
  LET half == PowerOfTwo[s]
  IN /\ loop.size = 2 * half /\ loop.base < FftPoints /\ loop.base % loop.size = 0
     /\ loop.offset < half
     /\ \A j \in Indices :
          Value(j) = IF Before(2 * half, loop.base, loop.offset, j)
                     THEN Block(2 * half, PowerOfTwo[FftLog2 - (s + 1)], j)
                     ELSE Block(half, PowerOfTwo[FftLog2 - s], j)

AllDone == \A j \in Indices : Value(j) = Block(FftPoints, 1, j)

FftInv ==
  /\ FftTypes
  /\ fftPc = "load" => index = 0
  /\ fftPc = "reverse" => Reversing
  /\ fftPc = "transform" =>
       \/ \E s \in 0 .. FftLog2 - 1 : InStage(s)
       \/ loop.size = 2 * FftPoints /\ AllDone
  /\ fftPc \in {"compare", "pass"} => \A k \in Indices : Value(k) = Dft(k)

-----------------------------------------------------------------------------
(* The transform: the places of the loops.                                 *)

LEMMA PowersAdd ==
  ASSUME NEW a \in Nat, NEW b \in Nat
  PROVE  PowerOfTwo[a + b] = PowerOfTwo[a] * PowerOfTwo[b]
<1>. DEFINE S == {n \in Nat : PowerOfTwo[a + n] = PowerOfTwo[a] * PowerOfTwo[n]}
<1>1. 0 \in S
  BY PowersOfTwo
<1>2. \A n \in Nat : n \in S => n + 1 \in S
  <2>. SUFFICES ASSUME NEW n \in Nat, PowerOfTwo[a + n] = PowerOfTwo[a] * PowerOfTwo[n]
                PROVE  PowerOfTwo[a + (n + 1)] = PowerOfTwo[a] * PowerOfTwo[n + 1]
    OBVIOUS
  <2>1. a + (n + 1) = (a + n) + 1 /\ a + n \in Nat
    OBVIOUS
  <2>. DEFINE p == PowerOfTwo[a]
              q == PowerOfTwo[n]
  <2>2. /\ p \in Nat /\ q \in Nat /\ PowerOfTwo[n + 1] = 2 * q
        /\ PowerOfTwo[(a + n) + 1] = 2 * (p * q)
    BY <2>1, PowersOfTwo
  <2>. HIDE DEF p, q
  <2>3. 2 * (p * q) = p * (2 * q)
    BY <2>2
  <2>. QED  BY <2>1, <2>2, <2>3 DEF p
<1>. HIDE DEF S
<1>3. b \in S
  BY <1>1, <1>2, Induct
<1>. QED  BY <1>3 DEF S

\* Half is half the size of a block, Step the distance of its inputs.
LEMMA StageSizes ==
  ASSUME NEW s \in Nat, s < FftLog2
  PROVE  /\ s + 1 \in Nat /\ FftLog2 - s \in Nat /\ FftLog2 - (s + 1) \in Nat
         /\ PowerOfTwo[s] \in Nat \ {0} /\ PowerOfTwo[FftLog2 - (s + 1)] \in Nat \ {0}
         /\ PowerOfTwo[s + 1] = 2 * PowerOfTwo[s]
         /\ PowerOfTwo[FftLog2 - s] = 2 * PowerOfTwo[FftLog2 - (s + 1)]
         /\ (2 * PowerOfTwo[s]) * PowerOfTwo[FftLog2 - (s + 1)] = FftPoints
<1>1. /\ s + 1 \in Nat /\ FftLog2 - s \in Nat /\ FftLog2 - (s + 1) \in Nat
      /\ FftLog2 - s = (FftLog2 - (s + 1)) + 1 /\ FftLog2 = (s + 1) + (FftLog2 - (s + 1))
  BY FftAssumption
<1>2. PowerOfTwo[(s + 1) + (FftLog2 - (s + 1))] = PowerOfTwo[s + 1] * PowerOfTwo[FftLog2 - (s + 1)]
  BY <1>1, PowersAdd
<1>3. FftPoints = PowerOfTwo[FftLog2]
  BY FftAssumption
<1>. QED  BY <1>1, <1>2, <1>3, PowersOfTwo

\* The two places of a butterfly.
LEMMA PairIs ==
  ASSUME NEW h \in Nat \ {0}, NEW p \in Nat, NEW o \in 0 .. h - 1
  PROVE  LET base == (2 * h) * p
             even == base + o
             odd == even + h
         IN /\ even % (2 * h) = o /\ odd % (2 * h) = o + h
            /\ even % h = o /\ odd % h = o /\ odd - o = h * (2 * p + 1) /\ base = h * (2 * p)
            /\ base \in Nat /\ even \in Nat /\ odd \in Nat
<1>. DEFINE base == (2 * h) * p
            even == base + o
            odd == even + h
            z == 2 * h
<1>1. /\ z \in Nat \ {0} /\ o \in 0 .. z - 1 /\ o + h \in 0 .. z - 1 /\ h \in Nat /\ o \in Nat
      /\ base \in Nat /\ even \in Nat /\ odd \in Nat /\ p \in Int
  OBVIOUS
<1>2. even = z * p + o /\ odd = z * p + (o + h)
  OBVIOUS
<1>3. even = h * (2 * p) + o /\ odd = h * (2 * p + 1) + o /\ 2 * p \in Int /\ 2 * p + 1 \in Int
      /\ base = h * (2 * p) /\ odd - o = h * (2 * p + 1)
  OBVIOUS
<1>. HIDE DEF base, even, odd, z
<1>4. even % z = o /\ odd % z = o + h
  BY <1>1, <1>2, DivModIs
<1>5. even % h = o /\ odd % h = o
  BY <1>1, <1>3, DivModIs
<1>. QED  BY <1>1, <1>3, <1>4, <1>5 DEF base, even, odd, z

\* Each place is one of a pair.
LEMMA PairOf ==
  ASSUME NEW h \in Nat \ {0}, NEW j \in Nat
  PROVE  \E p \in Nat, o \in 0 .. h - 1 :
           /\ j - (j % (2 * h)) = (2 * h) * p /\ j % h = o
           /\ (j = (2 * h) * p + o \/ j = ((2 * h) * p + o) + h)
<1>. DEFINE z == 2 * h
            p == j \div z
            r == j % z
<1>1. z \in Nat \ {0} /\ j \in Int
  OBVIOUS
<1>2. p \in Int /\ r \in 0 .. z - 1 /\ j = z * p + r
  <2>. HIDE DEF z
  <2>. QED  BY <1>1, DivMod
<1>3. p \in Nat
  <2>. HIDE DEF p, r
  <2>1. SUFFICES ASSUME p + 1 <= 0 PROVE FALSE
    BY <1>2
  <2>2. z * (p + 1) <= 0 /\ z * (p + 1) = z * p + z
    <3>. HIDE DEF z
    <3>. QED  BY <1>1, <1>2, <2>1
  <2>. HIDE DEF z
  <2>. QED  BY <1>1, <1>2, <2>2
<1>. HIDE DEF p, r
<1>4. CASE r < h
  <2>1. r \in 0 .. h - 1 /\ j = z * p + r
    BY <1>2, <1>4
  <2>2. j % h = r
    BY <1>3, <2>1, PairIs
  <2>3. j - r = z * p
    BY <1>2
  <2>. QED  BY <1>3, <2>1, <2>2, <2>3 DEF r
<1>5. CASE r >= h
  <2>1. r - h \in 0 .. h - 1 /\ j = (z * p + (r - h)) + h
    BY <1>2, <1>5
  <2>2. j % h = r - h
    BY <1>3, <2>1, PairIs
  <2>3. j - r = z * p
    BY <1>2
  <2>. QED  BY <1>3, <2>1, <2>2, <2>3 DEF r
<1>. QED  BY <1>2, <1>4, <1>5

LEMMA Multiples ==
  ASSUME NEW z \in Nat \ {0}, NEW p \in Nat, NEW q \in Nat
  PROVE  /\ z * p \in Nat /\ z * q \in Nat /\ (z * p < z * q <=> p < q) /\ (z * p = z * q <=> p = q)
         /\ z * (q + 1) = z * q + z /\ (p < q + 1 <=> p < q \/ p = q)
<1>1. \A a, b \in Nat : a < b => z * a < z * b
  <2>. TAKE a, b \in Nat
  <2>. HAVE a < b
  <2>1. b - a \in Nat \ {0}
    OBVIOUS
  <2>2. z * (b - a) > 0 /\ z * b = z * a + z * (b - a)
    BY <2>1
  <2>. QED  BY <2>2
<1>2. p < q \/ p = q \/ q < p
  OBVIOUS
<1>3. z * p \in Nat /\ z * q \in Nat /\ z * (q + 1) = z * q + z
  OBVIOUS
<1>4. (z * p < z * q <=> p < q) /\ (z * p = z * q <=> p = q)
  BY <1>1, <1>2, <1>3
<1>. QED  BY <1>3, <1>4

\* The first place of the block p of a stage, and the places of a butterfly.
FirstOf(h, p) == (2 * h) * p
EvenOf(h, p, o) == FirstOf(h, p) + o
OddOf(h, p, o) == EvenOf(h, p, o) + h

LEMMA PlacesAre ==
  ASSUME NEW h \in Nat \ {0}, NEW p \in Nat, NEW o \in 0 .. h - 1
  PROVE  /\ EvenOf(h, p, o) \in Nat /\ OddOf(h, p, o) \in Nat /\ FirstOf(h, p) \in Nat
         /\ EvenOf(h, p, o) % h = o /\ OddOf(h, p, o) % h = o
         /\ EvenOf(h, p, o) - (EvenOf(h, p, o) % (2 * h)) = FirstOf(h, p)
         /\ OddOf(h, p, o) - (OddOf(h, p, o) % (2 * h)) = FirstOf(h, p)
<1>1. /\ EvenOf(h, p, o) = (2 * h) * p + o /\ OddOf(h, p, o) = ((2 * h) * p + o) + h
      /\ FirstOf(h, p) = (2 * h) * p
  BY DEF EvenOf, OddOf, FirstOf
<1>2. LET base == (2 * h) * p
          even == base + o
          odd == even + h
      IN /\ even % (2 * h) = o /\ odd % (2 * h) = o + h
         /\ even % h = o /\ odd % h = o /\ odd - o = h * (2 * p + 1) /\ base = h * (2 * p)
         /\ base \in Nat /\ even \in Nat /\ odd \in Nat
  BY PairIs
<1>3. /\ EvenOf(h, p, o) % (2 * h) = o /\ OddOf(h, p, o) % (2 * h) = o + h
      /\ EvenOf(h, p, o) % h = o /\ OddOf(h, p, o) % h = o
      /\ FirstOf(h, p) \in Nat /\ EvenOf(h, p, o) \in Nat /\ OddOf(h, p, o) \in Nat
  BY <1>1, <1>2
<1>4. EvenOf(h, p, o) - o = FirstOf(h, p) /\ OddOf(h, p, o) - (o + h) = FirstOf(h, p)
  <2>. DEFINE m == (2 * h) * p
  <2>1. m \in Nat
    OBVIOUS
  <2>. HIDE DEF m
  <2>2. (m + o) - o = m /\ ((m + o) + h) - (o + h) = m
    BY <2>1
  <2>. QED  BY <1>1, <2>2 DEF m
<1>. QED  BY <1>3, <1>4

IsPlace(h, p, o, j) == j = EvenOf(h, p, o) \/ j = OddOf(h, p, o)

LEMMA PlaceOf ==
  ASSUME NEW h \in Nat \ {0}, NEW j \in Nat
  PROVE  \E p \in Nat, o \in 0 .. h - 1 : IsPlace(h, p, o, j)
  BY PairOf DEF IsPlace, EvenOf, OddOf, FirstOf

LEMMA PlaceIs ==
  ASSUME NEW h \in Nat \ {0}, NEW p \in Nat, NEW o \in 0 .. h - 1, NEW j, IsPlace(h, p, o, j)
  PROVE  j % h = o /\ j - (j % (2 * h)) = FirstOf(h, p) /\ j \in Nat
<1>1. CASE j = EvenOf(h, p, o)
  BY <1>1, PlacesAre, Zenon
<1>2. CASE j = OddOf(h, p, o)
  BY <1>2, PlacesAre, Zenon
<1>. QED  BY <1>1, <1>2 DEF IsPlace

LEMMA BeforeIs ==
  ASSUME NEW h \in Nat \ {0}, NEW b \in Nat, NEW f \in Nat,
         NEW p \in Nat, NEW o \in 0 .. h - 1, NEW j, IsPlace(h, p, o, j)
  PROVE  Before(2 * h, FirstOf(h, b), f, j) <=> (p < b \/ (p = b /\ o < f))
<1>. DEFINE z == 2 * h
<1>1. j % h = o /\ j - (j % z) = FirstOf(h, p)
  BY PlaceIs
<1>2. z \div 2 = h /\ z \in Nat \ {0}
  OBVIOUS
<1>3. FirstOf(h, p) = z * p /\ FirstOf(h, b) = z * b
  BY DEF FirstOf
<1>. HIDE DEF z
<1>4. (z * p < z * b <=> p < b) /\ (z * p = z * b <=> p = b)
  BY <1>2, Multiples
<1>5. Before(z, FirstOf(h, b), f, j)
        <=> (FirstOf(h, p) < FirstOf(h, b) \/ (FirstOf(h, p) = FirstOf(h, b) /\ o < f))
  BY <1>1, <1>2 DEF Before
<1>. QED  BY <1>3, <1>4, <1>5 DEF z

LEMMA FirstsAre ==
  ASSUME NEW h \in Nat \ {0}, NEW b \in Nat
  PROVE  /\ FirstOf(h, b) \in Nat /\ FirstOf(h, 0) = 0 /\ FirstOf(h, b + 1) = FirstOf(h, b) + 2 * h
         /\ \A p \in Nat : /\ (FirstOf(h, p) < FirstOf(h, b) <=> p < b)
                          /\ (FirstOf(h, p) = FirstOf(h, b) <=> p = b)
<1>. DEFINE z == 2 * h
<1>1. z \in Nat \ {0} /\ \A q : FirstOf(h, q) = z * q
  BY DEF FirstOf
<1>. HIDE DEF z
<1>2. z * b \in Nat /\ z * 0 = 0 /\ z * (b + 1) = z * b + z
  BY <1>1
<1>3. \A p \in Nat : (z * p < z * b <=> p < b) /\ (z * p = z * b <=> p = b)
  BY <1>1, Multiples
<1>. QED  BY <1>1, <1>2, <1>3 DEF z

\* What comes before the next butterfly is what came before this, and this.
LEMMA BeforeNext ==
  ASSUME NEW h \in Nat \ {0}, NEW b \in Nat, NEW f \in 0 .. h - 1, NEW j \in Nat
  PROVE  /\ ~Before(2 * h, 0, 0, j)
         /\ IsPlace(h, b, f, j) =>
              /\ ~Before(2 * h, FirstOf(h, b), f, j) /\ Before(2 * h, FirstOf(h, b), f + 1, j)
              /\ Before(2 * h, FirstOf(h, b + 1), 0, j)
         /\ ~IsPlace(h, b, f, j) =>
              /\ Before(2 * h, FirstOf(h, b), f + 1, j) <=> Before(2 * h, FirstOf(h, b), f, j)
              /\ f + 1 = h => (Before(2 * h, FirstOf(h, b + 1), 0, j)
                                <=> Before(2 * h, FirstOf(h, b), f, j))
              /\ f + 1 = h /\ j < FirstOf(h, b + 1) => Before(2 * h, FirstOf(h, b), f, j)
<1>. DEFINE z == 2 * h
            first == FirstOf(h, b)
            after == FirstOf(h, b + 1)
<1>1. PICK p \in Nat, o \in 0 .. h - 1 : IsPlace(h, p, o, j)
  BY PlaceOf
<1>2. /\ Before(z, 0, 0, j) <=> (p < 0 \/ (p = 0 /\ o < 0))
      /\ Before(z, first, f, j) <=> (p < b \/ (p = b /\ o < f))
      /\ Before(z, first, f + 1, j) <=> (p < b \/ (p = b /\ o < f + 1))
      /\ Before(z, after, 0, j) <=> (p < b + 1 \/ (p = b + 1 /\ o < 0))
  <2>1. 0 \in Nat /\ f \in Nat /\ f + 1 \in Nat /\ b + 1 \in Nat
    OBVIOUS
  <2>2. FirstOf(h, 0) = 0
    BY FirstsAre
  <2>3. Before(z, FirstOf(h, 0), 0, j) <=> (p < 0 \/ (p = 0 /\ o < 0))
    BY <1>1, <2>1, BeforeIs
  <2>. QED  BY <1>1, <2>1, <2>2, <2>3, BeforeIs
<1>3. IsPlace(h, b, f, j) <=> p = b /\ o = f
  <2>1. ASSUME IsPlace(h, b, f, j) PROVE p = b /\ o = f
    <3>1. j % h = o /\ j - (j % z) = FirstOf(h, p)
      BY <1>1, PlaceIs
    <3>2. j % h = f /\ j - (j % z) = first
      BY <2>1, PlaceIs
    <3>3. FirstOf(h, p) = FirstOf(h, b) /\ o = f
      BY <3>1, <3>2
    <3>4. FirstOf(h, p) = FirstOf(h, b) <=> p = b
      BY FirstsAre, Zenon
    <3>. QED  BY <3>3, <3>4
  <2>. QED  BY <1>1, <2>1
<1>4. p > b => j >= after
  <2>. HAVE p > b
  <2>1. b + 1 \in Nat /\ (p = b + 1 \/ b + 1 < p)
    OBVIOUS
  <2>2. FirstOf(h, p) \in Nat /\ after \in Nat
    BY <2>1, FirstsAre
  <2>3. FirstOf(h, p) >= after
    <3>1. b + 1 < p => after < FirstOf(h, p)
      BY <2>1, FirstsAre
    <3>. QED  BY <2>1, <2>2, <3>1
  <2>4. j >= FirstOf(h, p)
    BY <1>1, <2>2 DEF IsPlace, EvenOf, OddOf
  <2>. QED  BY <2>2, <2>3, <2>4
<1>5. after \in Nat
  <2>1. b + 1 \in Nat
    OBVIOUS
  <2>. QED  BY <2>1, FirstsAre
<1>. HIDE DEF z, first, after
<1>6. ~Before(z, 0, 0, j)
  BY <1>2
<1>7. IsPlace(h, b, f, j) =>
        /\ ~Before(z, first, f, j) /\ Before(z, first, f + 1, j) /\ Before(z, after, 0, j)
  BY <1>2, <1>3
<1>8. ~IsPlace(h, b, f, j) =>
        /\ Before(z, first, f + 1, j) <=> Before(z, first, f, j)
        /\ f + 1 = h => (Before(z, after, 0, j) <=> Before(z, first, f, j))
        /\ f + 1 = h /\ j < after => Before(z, first, f, j)
  <2>. HAVE ~IsPlace(h, b, f, j)
  <2>1. ~(p = b /\ o = f)
    BY <1>3
  <2>2. Before(z, first, f + 1, j) <=> Before(z, first, f, j)
    BY <1>2, <2>1
  <2>3. f + 1 = h => (Before(z, after, 0, j) <=> Before(z, first, f, j))
    <3>. HAVE f + 1 = h
    <3>1. (p < b + 1 \/ (p = b + 1 /\ o < 0)) <=> (p < b \/ (p = b /\ o < f))
      BY <2>1
    <3>. QED  BY <1>2, <3>1
  <2>4. f + 1 = h /\ j < after => Before(z, first, f, j)
    <3>. HAVE f + 1 = h /\ j < after
    <3>1. p <= b
      BY <1>4, <1>5
    <3>2. p < b \/ (p = b /\ o < f)
      BY <2>1, <3>1
    <3>. QED  BY <1>2, <3>2
  <2>. QED  BY <2>2, <2>3, <2>4
<1>. QED  BY <1>6, <1>7, <1>8 DEF z, first, after

-----------------------------------------------------------------------------
(* The transform: blocks.                                                  *)

LEMMA BlocksAtFirst ==
  ASSUME fftIn \in [Indices -> Complex], NEW j \in Indices
  PROVE  Block(1, FftPoints, j) = fftIn[ReverseBits(j)]
<1>1. j \in Nat /\ j % 1 = 0 /\ j - 0 = j /\ FftPoints \in Nat
  BY PointsAre DEF Indices
<1>. DEFINE r == ReverseBits(j)
            f == Strided(FftPoints, r, 0)
<1>2. r \in Indices /\ r \in Nat
  BY ReverseIn DEF Indices
<1>3. InputAt(r) = fftIn[r] /\ fftIn[r] \in Complex
  BY <1>2 DEF InputAt
<1>. HIDE DEF r
<1>4. f[0] = ComplexTimes(InputAt(r + 0 * FftPoints), RootPower[(0 * FftPoints) * 0]) /\ f \in [Nat -> Complex]
  <2>1. 0 \in Nat
    OBVIOUS
  <2>. HIDE DEF f
  <2>2. Strided(FftPoints, r, 0)[0] = ComplexTimes(InputAt(r + 0 * FftPoints), RootPower[(0 * FftPoints) * 0])
    <3>1. TermIs(FftPoints, r, 0, 0)
      BY <1>1, <1>2, <2>1, StridedAt
    <3>. QED  BY <3>1, Zenon DEF TermIs
  <2>3. Strided(FftPoints, r, 0) \in [Nat -> Complex]
    BY <1>1, <1>2, <2>1, StridedIs, Zenon
  <2>. QED  BY <2>2, <2>3 DEF f
<1>5. r + 0 * FftPoints = r /\ (0 * FftPoints) * 0 = 0
  BY <1>1, <1>2
<1>6. f[0] = fftIn[r]
  <2>1. f[0] = ComplexTimes(InputAt(r), RootPower[0])
    BY <1>4, <1>5
  <2>2. ComplexTimes(fftIn[r], Unit) = fftIn[r]
    BY <1>3, UnitsAre, UnitLaws
  <2>. QED  BY <1>3, <2>1, <2>2, RootPowers
<1>. HIDE DEF f
<1>7. SumOf(f, 0) = Naught /\ SumOf(f, 0 + 1) = Add(SumOf(f, 0), f[0]) /\ 0 + 1 = 1
  BY <1>4, SumIs
<1>8. Add(Naught, f[0]) = f[0]
  BY <1>3, <1>6, AddLaws
<1>9. SumOf(f, 1) = fftIn[r]
  BY <1>6, <1>7, <1>8
<1>10. Block(1, FftPoints, j) = SumOf(f, 1)
  BY <1>1 DEF Block, Part, f, r
<1>. QED  BY <1>9, <1>10 DEF r

LEMMA BlocksAtLast ==
  ASSUME fftIn \in [Indices -> Complex], NEW j \in Indices
  PROVE  Block(FftPoints, 1, j) = Dft(j)
<1>1. FftPoints \in Nat \ {0} /\ j \in 0 .. FftPoints - 1 /\ j \in Int
  BY PointsAre DEF Indices
<1>2. j % FftPoints = j
  <2>1. j = FftPoints * 0 + j /\ 0 \in Int
    BY <1>1
  <2>. QED  BY <1>1, <2>1, DivModIs
<1>3. ReverseBits(0) = 0
  <2>1. FftLog2 \in Nat /\ PowerOfTwo[FftLog2] * 0 = 0
    BY FftAssumption, PowersOfTwo
  <2>2. Turned(0, FftLog2) = 0
    BY <2>1, ZerosShift
  <2>. QED  BY <2>2, ShiftsAre
<1>4. j - j = 0
  BY <1>1
<1>5. Block(FftPoints, 1, j) = Part(1, 0, j, FftPoints)
  BY <1>2, <1>3, <1>4 DEF Block
<1>. QED  BY <1>5, DftIs

\* A butterfly takes two blocks' places to those of the block of both.
LEMMA BlocksJoin ==
  ASSUME fftIn \in [Indices -> Complex], NEW s \in Nat, s < FftLog2,
         NEW p \in Nat, NEW o \in 0 .. PowerOfTwo[s] - 1
  PROVE  LET half == PowerOfTwo[s]
             dist == PowerOfTwo[FftLog2 - (s + 1)]
             even == (2 * half) * p + o
             odd == even + half
             turned == ComplexTimes(RootPower[o * dist], Block(half, 2 * dist, odd))
         IN /\ Block(2 * half, dist, even) = Add(Block(half, 2 * dist, even), turned)
            /\ Block(2 * half, dist, odd) = Sub(Block(half, 2 * dist, even), turned)
<1>. DEFINE half == PowerOfTwo[s]
            dist == PowerOfTwo[FftLog2 - (s + 1)]
            base == (2 * half) * p
            even == base + o
            odd == even + half
            r == ReverseBits(base)
<1>1. /\ half \in Nat \ {0} /\ dist \in Nat /\ (2 * half) * dist = FftPoints
      /\ o \in Nat /\ o \in 0 .. half - 1
  BY StageSizes
<1>2. ReverseBits(half * (2 * p + 1)) = ReverseBits(half * (2 * p)) + dist
  BY ReverseOdd
<1>3. r \in Nat
  <2>1. 2 * p \in Nat /\ s <= FftLog2
    BY FftAssumption
  <2>2. half * (2 * p) \in Nat
    BY <2>1, ZerosShift
  <2>3. ReverseBits(half * (2 * p)) \in Nat
    <3>. DEFINE v == half * (2 * p)
    <3>. HIDE DEF v
    <3>1. v \in Nat
      BY <2>2 DEF v
    <3>2. ReverseBits(v) \in Nat
      <4>1. FftLog2 \in Nat /\ FftLog2 <= FftLog2
        BY FftAssumption
      <4>2. ReverseBits(v) = Turned(v, FftLog2) /\ Turned(v, FftLog2) \in Nat
        BY <3>1, <4>1, ShiftsAre
      <4>. QED  BY <4>2
    <3>. QED  BY <3>2 DEF v
  <2>4. base = half * (2 * p)
    <3>. HIDE DEF half
    <3>. QED  BY <1>1
  <2>. QED  BY <2>3, <2>4
<1>. HIDE DEF half, dist, r
<1>4. /\ even % (2 * half) = o /\ odd % (2 * half) = o + half
      /\ even % half = o /\ odd % half = o /\ odd - o = half * (2 * p + 1) /\ base = half * (2 * p)
      /\ base \in Nat /\ even \in Nat /\ odd \in Nat
  BY <1>1, PairIs
<1>5. even - o = base /\ odd - (o + half) = base
  <2>. HIDE DEF base
  <2>. QED  BY <1>1, <1>4
<1>6. ReverseBits(odd - o) = r + dist
  BY <1>2, <1>4 DEF r
<1>. HIDE DEF base, even, odd
<1>7. /\ Block(2 * half, dist, even) = Part(dist, r, o, 2 * half)
      /\ Block(2 * half, dist, odd) = Part(dist, r, o + half, 2 * half)
      /\ Block(half, 2 * dist, even) = Part(2 * dist, r, o, half)
      /\ Block(half, 2 * dist, odd) = Part(2 * dist, r + dist, o, half)
  BY <1>4, <1>5, <1>6, Zenon DEF Block, r
<1>8. /\ Part(dist, r, o, 2 * half)
           = Add(Part(2 * dist, r, o, half),
                 ComplexTimes(RootPower[dist * o], Part(2 * dist, r + dist, o, half)))
      /\ Part(dist, r, o + half, 2 * half)
           = Sub(Part(2 * dist, r, o, half),
                 ComplexTimes(RootPower[dist * o], Part(2 * dist, r + dist, o, half)))
  <2>1. Crossed(dist, r, o, half)
    BY <1>1, <1>3, Butterflies
  <2>. QED  BY <2>1, Zenon DEF Crossed
<1>9. dist * o = o * dist
  BY <1>1
<1>. QED  BY <1>7, <1>8, <1>9 DEF half, dist, base, even, odd
-----------------------------------------------------------------------------
(* The transform: its steps.                                               *)

\* Blocks and the transform are of the inputs, which stay.
LEMMA InputsStay ==
  ASSUME fftIn' = fftIn
  PROVE  /\ \A size, dist, j : Block(size, dist, j)' = Block(size, dist, j)
         /\ \A k : Dft(k)' = Dft(k)
<1>1. ASSUME NEW size, NEW dist, NEW j
      PROVE  Block(size, dist, j)' = Block(size, dist, j)
  BY Zenon DEF Block, Part, Strided, InputAt
<1>2. ASSUME NEW k PROVE Dft(k)' = Dft(k)
  BY Zenon DEF Dft
<1>. QED  BY <1>1, <1>2

LEMMA FftInitInv == FftInit => FftInv
<1>. SUFFICES ASSUME FftInit PROVE FftInv
  OBVIOUS
<1>1. FftPoints \in Nat \ {0} /\ 0 \in Numbers
  BY PointsAre, FftAssumption DEF Numbers
<1>2. fftIn \in [Indices -> Complex]
  BY FftAssumption DEF FftInit
<1>3. [size |-> 0, base |-> 0, offset |-> 0] \in [size : 0 .. 2 * FftPoints, base : Nat, offset : Nat]
  BY <1>1
<1>. QED  BY <1>1, <1>2, <1>3 DEF FftInit, FftInv, FftTypes

LEMMA LoadStep == FftInv /\ FftLoad => FftInv'
<1>. SUFFICES ASSUME FftInv, FftLoad PROVE FftInv'
  OBVIOUS
<1>1. /\ FftTypes /\ fftPc = "load" /\ index = 0 /\ index' = 0 /\ fftPc' = "reverse"
      /\ fftRe' = InputRe /\ fftIm' = InputIm
      /\ UNCHANGED <<fftIn, loop, mismatches>>
  BY DEF FftInv, FftLoad
<1>2. \A j \in Indices : fftIn[j] \in Complex
  BY <1>1 DEF FftTypes
<1>3. FftTypes'
  <2>1. InputRe \in [Indices -> Numbers] /\ InputIm \in [Indices -> Numbers]
    BY <1>2 DEF InputRe, InputIm, Complex
  <2>. QED  BY <1>1, <2>1 DEF FftTypes
<1>4. Reversing'
  <2>. SUFFICES ASSUME NEW j \in Indices
                PROVE  Value(j)' = fftIn'[IF j < index' \/ ReverseBits(j) < index'
                                          THEN ReverseBits(j) ELSE j]
    BY DEF Reversing
  <2>1. ~(j < 0) /\ ~(ReverseBits(j) < 0)
    <3>1. ReverseBits(j) \in Indices
      BY ReverseIn
    <3>. QED  BY <3>1, PointsAre DEF Indices
  <2>2. Value(j)' = [re |-> fftIn[j].re, im |-> fftIn[j].im]
    BY <1>1 DEF Value, InputRe, InputIm
  <2>3. [re |-> fftIn[j].re, im |-> fftIn[j].im] = fftIn[j]
    BY <1>2 DEF Complex
  <2>. QED  BY <1>1, <2>1, <2>2, <2>3
<1>. QED  BY <1>1, <1>3, <1>4 DEF FftInv

LEMMA SwapsStep == FftInv /\ Swaps => FftInv'
<1>. SUFFICES ASSUME FftInv, Swaps PROVE FftInv'
  OBVIOUS
<1>0. PICK i, r : i = index /\ r = ReverseBits(index)
  OBVIOUS
<1>1. /\ FftTypes /\ fftPc = "reverse" /\ Reversing /\ i < FftPoints /\ index' = i + 1
      /\ UNCHANGED <<fftIn, fftPc, loop, mismatches>>
      /\ IF r > i THEN fftRe' = Swapped(fftRe, i, r) /\ fftIm' = Swapped(fftIm, i, r)
         ELSE UNCHANGED <<fftRe, fftIm>>
  BY <1>0 DEF FftInv, Swaps
<1>2. i \in Indices /\ i \in Nat /\ i + 1 \in 0 .. FftPoints
  BY <1>0, <1>1, PointsAre DEF FftTypes, Indices
<1>3. r \in Indices /\ r \in Nat /\ ReverseBits(r) = i /\ ReverseBits(i) = r
  BY <1>0, <1>2, ReverseIn, ReverseTwice DEF Indices
<1>4. FftTypes'
  BY <1>1, <1>2, <1>3, Zenon DEF FftTypes, Swapped
<1>5. Reversing'
  <2>. SUFFICES ASSUME NEW j \in Indices
                PROVE  Value(j)' = fftIn'[IF j < index' \/ ReverseBits(j) < index'
                                          THEN ReverseBits(j) ELSE j]
    BY DEF Reversing
  <2>. DEFINE v == ReverseBits(j)
  <2>1. j \in Nat /\ v \in Nat /\ (v = i => j = r)
    <3>1. v \in Indices /\ ReverseBits(v) = j
      BY ReverseIn, ReverseTwice
    <3>2. v = i => j = r
      BY <1>3, <3>1
    <3>. QED  BY <3>1, <3>2 DEF Indices
  <2>2. Value(j) = fftIn[IF j < i \/ v < i THEN v ELSE j]
    BY <1>0, <1>1 DEF Reversing
  <2>3. (j = i => v = r) /\ (j = r => v = i)
    BY <1>3
  <2>. HIDE DEF v
  <2>4. CASE j # i /\ j # r
    <3>1. Value(j)' = Value(j)
      BY <1>1, <1>2, <1>3, <2>4 DEF Value, Swapped, FftTypes
    <3>2. (j < i \/ v < i) <=> (j < index' \/ v < index')
      BY <1>1, <1>2, <2>1, <2>4
    <3>. QED  BY <1>1, <2>2, <3>1, <3>2 DEF v
  <2>5. CASE (j = i \/ j = r) /\ r > i
    <3>1. Value(i) = fftIn[i] /\ Value(r) = fftIn[r]
      <4>1. ~(i < i) /\ ~(r < i)
        BY <1>2, <1>3, <2>5
      <4>2. Value(i) = fftIn[IF i < i \/ r < i THEN r ELSE i]
        BY <1>0, <1>1, <1>2, <1>3 DEF Reversing
      <4>3. Value(r) = fftIn[IF r < i \/ i < i THEN i ELSE r]
        BY <1>0, <1>1, <1>3 DEF Reversing
      <4>. QED  BY <4>1, <4>2, <4>3
    <3>2. Value(i)' = Value(r) /\ Value(r)' = Value(i)
      <4>1. /\ fftRe' = Swapped(fftRe, i, r) /\ fftIm' = Swapped(fftIm, i, r) /\ i # r
        BY <1>1, <1>2, <1>3, <2>5
      <4>2. ASSUME NEW a \in [Indices -> Numbers]
            PROVE  Swapped(a, i, r)[i] = a[r] /\ Swapped(a, i, r)[r] = a[i]
        BY <1>2, <1>3, <4>1, Zenon DEF Swapped
      <4>. QED  BY <1>1, <4>1, <4>2 DEF Value, FftTypes
    <3>3. Value(j)' = fftIn[v]
      BY <2>3, <2>5, <3>1, <3>2
    <3>4. j < index' \/ v < index'
      BY <1>1, <1>2, <1>3, <2>3, <2>5
    <3>. QED  BY <1>1, <3>3, <3>4 DEF v
  <2>6. CASE (j = i \/ j = r) /\ ~(r > i)
    <3>1. Value(j)' = Value(j)
      BY <1>1, <2>6 DEF Value
    <3>2. Value(j) = fftIn[v]
      <4>1. j < i \/ v < i \/ v = j
        BY <1>2, <1>3, <2>3, <2>6
      <4>. QED  BY <2>2, <4>1
    <3>3. j < index' \/ v < index'
      BY <1>1, <1>2, <1>3, <2>3, <2>6
    <3>. QED  BY <1>1, <3>1, <3>2, <3>3 DEF v
  <2>. QED  BY <2>4, <2>5, <2>6
<1>. QED  BY <1>1, <1>4, <1>5 DEF FftInv

LEMMA TransformsStep == FftInv /\ Transforms => FftInv'
<1>. SUFFICES ASSUME FftInv, Transforms PROVE FftInv'
  OBVIOUS
<1>1. /\ FftTypes /\ Reversing /\ index = FftPoints /\ fftPc' = "transform"
      /\ loop' = [size |-> 2, base |-> 0, offset |-> 0]
      /\ UNCHANGED <<fftIn, fftRe, fftIm, index, mismatches>>
  BY DEF FftInv, Transforms
<1>2. FftPoints \in Nat \ {0}
  BY PointsAre
<1>3. FftTypes'
  <2>1. [size |-> 2, base |-> 0, offset |-> 0] \in [size : 0 .. 2 * FftPoints, base : Nat, offset : Nat]
    BY <1>2
  <2>. QED  BY <1>1, <2>1 DEF FftTypes
<1>4. \A j \in Indices : Value(j)' = Block(1, FftPoints, j)'
  <2>. TAKE j \in Indices
  <2>1. j < index
    BY <1>1, <1>2 DEF Indices
  <2>2. Value(j) = fftIn[ReverseBits(j)]
    BY <1>1, <2>1 DEF Reversing
  <2>3. Block(1, FftPoints, j) = fftIn[ReverseBits(j)]
    BY <1>1, BlocksAtFirst DEF FftTypes
  <2>4. Value(j)' = Value(j)
    BY <1>1 DEF Value
  <2>. QED  BY <1>1, <2>2, <2>3, <2>4, InputsStay
<1>5. CASE FftLog2 = 0
  <2>1. FftPoints = 1
    BY <1>5, FftAssumption, PowersOfTwo
  <2>2. AllDone'
    BY <1>4, <2>1 DEF AllDone
  <2>3. loop'.size = 2 * FftPoints
    BY <1>1, <2>1
  <2>. QED  BY <1>1, <1>3, <2>2, <2>3 DEF FftInv
<1>6. CASE FftLog2 # 0
  <2>1. 0 \in 0 .. FftLog2 - 1 /\ 0 \in Nat /\ 0 < FftLog2 /\ FftLog2 - 0 = FftLog2
    BY <1>6, FftAssumption
  <2>2. PowerOfTwo[0] = 1 /\ PowerOfTwo[FftLog2 - 0] = FftPoints
    BY <2>1, PowersOfTwo, FftAssumption
  <2>3. InStage(0)'
    <3>1. loop'.size = 2 * 1 /\ loop'.base = 0 /\ loop'.offset = 0 /\ 0 % loop'.size = 0
      BY <1>1
    <3>2. \A j \in Indices : ~Before(2 * 1, 0, 0, j)
      <4>. TAKE j \in Indices
      <4>1. 1 \in Nat \ {0} /\ 0 \in Nat /\ 0 \in 0 .. 1 - 1 /\ j \in Nat
        BY <1>2 DEF Indices
      <4>. QED  BY <4>1, BeforeNext
    <3>3. \A j \in Indices :
            Value(j)' = IF Before(2 * 1, loop'.base, loop'.offset, j)
                        THEN Block(2 * 1, PowerOfTwo[FftLog2 - (0 + 1)], j)'
                        ELSE Block(1, PowerOfTwo[FftLog2 - 0], j)'
      BY <1>4, <2>2, <3>1, <3>2
    <3>. QED  BY <1>2, <2>2, <3>1, <3>3 DEF InStage, Before
  <2>. QED  BY <1>1, <1>3, <2>1, <2>3 DEF FftInv
<1>. QED  BY <1>5, <1>6

LEMMA ComparesStep == FftInv /\ Compares => FftInv'
<1>. SUFFICES ASSUME FftInv, Compares PROVE FftInv'
  OBVIOUS
<1>1. /\ FftTypes /\ fftPc = "transform" /\ loop.size > FftPoints /\ fftPc' = "compare" /\ index' = 0
      /\ UNCHANGED <<fftIn, fftRe, fftIm, loop, mismatches>>
      /\ \/ \E s \in 0 .. FftLog2 - 1 : InStage(s)
         \/ loop.size = 2 * FftPoints /\ AllDone
  BY DEF FftInv, Compares
<1>2. FftPoints \in Nat \ {0}
  BY PointsAre
<1>3. FftTypes'
  BY <1>1, <1>2 DEF FftTypes
<1>4. AllDone
  <2>1. ASSUME NEW s \in 0 .. FftLog2 - 1, InStage(s) PROVE FALSE
    <3>. DEFINE h == PowerOfTwo[s]
                dist == PowerOfTwo[FftLog2 - (s + 1)]
    <3>1. h \in Nat \ {0} /\ dist \in Nat \ {0} /\ (2 * h) * dist = FftPoints
      <4>1. s \in Nat /\ s < FftLog2
        BY FftAssumption
      <4>. QED  BY <4>1, StageSizes
    <3>2. loop.size = 2 * h
      BY <2>1 DEF InStage
    <3>. HIDE DEF h, dist
    <3>3. (2 * h) * dist >= 2 * h
      <4>. DEFINE z == 2 * h
      <4>1. z \in Nat
        BY <3>1
      <4>. HIDE DEF z
      <4>2. z * dist >= z
        BY <3>1, <4>1
      <4>. QED  BY <4>2 DEF z
    <3>. QED  BY <1>1, <1>2, <3>1, <3>2, <3>3
  <2>. QED  BY <1>1, <2>1
<1>5. \A k \in Indices : Value(k)' = Dft(k)'
  <2>. TAKE k \in Indices
  <2>1. Value(k) = Dft(k)
    BY <1>1, <1>4, BlocksAtLast DEF AllDone, FftTypes
  <2>2. Value(k)' = Value(k)
    BY <1>1 DEF Value
  <2>. QED  BY <1>1, <2>1, <2>2, InputsStay
<1>. QED  BY <1>1, <1>3, <1>5 DEF FftInv

LEMMA EndSteps == FftInv /\ (CountsMismatch \/ FftReport \/ UNCHANGED fftVars) => FftInv'
<1>1. ASSUME FftInv, CountsMismatch PROVE FftInv'
  <2>1. /\ FftTypes /\ fftPc = "compare" /\ index < FftPoints /\ index' = index + 1
        /\ UNCHANGED <<fftIn, fftRe, fftIm, fftPc, loop>>
        /\ \A k \in Indices : Value(k) = Dft(k)
        /\ mismatches' = mismatches + IF /\ fftRe[index] = ReferenceRe[index]
                                         /\ fftIm[index] = ReferenceIm[index]
                                      THEN 0 ELSE 1
    BY <1>1 DEF FftInv, CountsMismatch
  <2>2. index \in Indices /\ index + 1 \in 0 .. FftPoints
    BY <2>1, PointsAre DEF FftTypes, Indices
  <2>3. fftRe[index] = Dft(index).re /\ fftIm[index] = Dft(index).im
    <3>1. [re |-> fftRe[index], im |-> fftIm[index]] = Dft(index)
      BY <2>1, <2>2 DEF Value
    <3>. DEFINE d == Dft(index)
    <3>. HIDE DEF d
    <3>2. [re |-> fftRe[index], im |-> fftIm[index]] = d
      BY <3>1 DEF d
    <3>3. fftRe[index] = d.re /\ fftIm[index] = d.im
      BY <3>2
    <3>. QED  BY <3>3 DEF d
  <2>4. fftRe[index] = ReferenceRe[index] /\ fftIm[index] = ReferenceIm[index]
    BY <2>2, <2>3, Zenon DEF ReferenceRe, ReferenceIm
  <2>5. mismatches' = 0
    BY <2>1, <2>4 DEF FftTypes
  <2>6. \A k \in Indices : Value(k)' = Dft(k)'
    <3>1. \A k : Value(k)' = Value(k)
      BY <2>1 DEF Value
    <3>. QED  BY <2>1, <3>1, InputsStay, Zenon
  <2>7. FftTypes'
    BY <2>1, <2>2, <2>5 DEF FftTypes
  <2>. QED  BY <2>1, <2>6, <2>7 DEF FftInv
<1>2. ASSUME FftInv, FftReport PROVE FftInv'
  <2>1. /\ FftTypes /\ UNCHANGED <<fftIn, fftRe, fftIm, index, loop, mismatches>>
        /\ fftPc' = "pass" /\ \A k \in Indices : Value(k) = Dft(k)
    BY <1>2 DEF FftInv, FftReport, FftTypes
  <2>2. \A k \in Indices : Value(k)' = Dft(k)'
    <3>1. \A k : Value(k)' = Value(k)
      BY <2>1 DEF Value
    <3>. QED  BY <2>1, <3>1, InputsStay, Zenon
  <2>3. FftTypes'
    BY <2>1 DEF FftTypes
  <2>. QED  BY <2>1, <2>2, <2>3 DEF FftInv
<1>3. ASSUME FftInv, UNCHANGED fftVars PROVE FftInv'
  <2>1. UNCHANGED <<fftIn, fftRe, fftIm, fftPc, index, loop, mismatches>>
    BY <1>3 DEF fftVars
  <2>2. \A j : Value(j)' = Value(j)
    BY <2>1 DEF Value
  <2>3. \A size, dist, j : Block(size, dist, j)' = Block(size, dist, j)
    BY <2>1, InputsStay, Zenon
  <2>4. \A k : Dft(k)' = Dft(k)
    BY <2>1, InputsStay, Zenon
  <2>5. FftTypes' /\ (Reversing => Reversing') /\ (AllDone => AllDone')
    BY <1>3, <2>1, <2>2, <2>3 DEF FftInv, FftTypes, Reversing, AllDone
  <2>6. ASSUME NEW s \in 0 .. FftLog2 - 1 PROVE InStage(s) => InStage(s)'
    BY <2>1, <2>2, <2>3 DEF InStage, Before
  <2>. QED  BY <1>3, <2>1, <2>2, <2>4, <2>5, <2>6 DEF FftInv
<1>. QED  BY <1>1, <1>2, <1>3
-----------------------------------------------------------------------------
(* The transform: the butterfly.                                           *)

\* What the loops stand at in a stage: the block b and the offset f in it.
Stands(s, h, dist, b, f) ==
  /\ s \in Nat /\ s < FftLog2 /\ h = PowerOfTwo[s] /\ dist = PowerOfTwo[FftLog2 - (s + 1)]
  /\ PowerOfTwo[s + 1] = 2 * h /\ PowerOfTwo[FftLog2 - s] = 2 * dist /\ (2 * h) * dist = FftPoints
  /\ h \in Nat \ {0} /\ dist \in Nat \ {0} /\ b \in 0 .. dist - 1 /\ f \in 0 .. h - 1
  /\ loop.size = 2 * h /\ loop.base = FirstOf(h, b) /\ loop.offset = f

LEMMA StandsIn ==
  ASSUME FftTypes, NEW s \in 0 .. FftLog2 - 1, InStage(s)
  PROVE  \E h, dist, b, f : Stands(s, h, dist, b, f)
<1>. DEFINE h == PowerOfTwo[s]
            dist == PowerOfTwo[FftLog2 - (s + 1)]
            f == loop.offset
            z == 2 * h
            b == loop.base \div z
<1>1. /\ s \in Nat /\ s < FftLog2 /\ PowerOfTwo[s + 1] = 2 * h /\ PowerOfTwo[FftLog2 - s] = 2 * dist
      /\ z * dist = FftPoints /\ h \in Nat \ {0} /\ dist \in Nat \ {0}
  <2>1. s \in Nat /\ s < FftLog2
    BY FftAssumption
  <2>. QED  BY <2>1, StageSizes
<1>2. /\ loop.size = z /\ loop.base < FftPoints /\ loop.base % z = 0 /\ f < h
      /\ loop.base \in Nat /\ f \in Nat
  BY DEF InStage, FftTypes
<1>. HIDE DEF h, dist, f
<1>3. z \in Nat \ {0} /\ loop.base \in Int /\ f \in 0 .. h - 1
  BY <1>1, <1>2
<1>. HIDE DEF z
<1>4. b \in Int /\ loop.base = z * b + (loop.base % z)
  BY <1>3, DivMod
<1>. HIDE DEF b
<1>5. loop.base = z * b
  BY <1>2, <1>3, <1>4
<1>6. b >= 0 /\ b < dist
  <2>1. ASSUME b < 0 PROVE FALSE
    <3>1. z * b <= z * (-1) /\ z * (-1) = -z
      BY <1>3, <1>4, <2>1
    <3>. QED  BY <1>2, <1>3, <1>5, <3>1
  <2>2. ASSUME b >= dist PROVE FALSE
    <3>1. z * b >= z * dist
      BY <1>1, <1>3, <1>4, <2>2
    <3>. QED  BY <1>1, <1>2, <1>5, <3>1, PointsAre
  <2>. QED  BY <1>1, <1>4, <2>1, <2>2
<1>7. loop.base = FirstOf(h, b)
  BY <1>5 DEF FirstOf, z
<1>8. Stands(s, h, dist, b, f)
  <2>1. b \in 0 .. dist - 1
    BY <1>1, <1>4, <1>6
  <2>. QED  BY <1>1, <1>2, <1>3, <1>7, <2>1 DEF Stands, h, dist, f, z
<1>. QED  BY <1>8

\* The places of the butterfly, and of its factor in the table.
LEMMA ButterflyPlaces ==
  ASSUME NEW s, NEW h, NEW dist, NEW b, NEW f, Stands(s, h, dist, b, f)
  PROVE  LET even == EvenOf(h, b, f)
             odd == OddOf(h, b, f)
         IN /\ loop.base + loop.offset = even /\ even + loop.size \div 2 = odd
            /\ loop.offset * (FftPoints \div loop.size) = f * dist
            /\ even \in Indices /\ odd \in Indices /\ even # odd /\ f * dist \in Indices
            /\ loop.size \div 2 = h /\ b \in Nat
            /\ FirstOf(h, b + 1) = FirstOf(h, b) + loop.size
            /\ FirstOf(h, b + 1) \in Nat /\ FirstOf(h, b + 1) % loop.size = 0
            /\ FirstOf(h, b + 1) <= FftPoints
<1>. DEFINE even == EvenOf(h, b, f)
            odd == OddOf(h, b, f)
            z == 2 * h
            after == FirstOf(h, b + 1)
<1>1. /\ h \in Nat \ {0} /\ dist \in Nat \ {0} /\ b \in 0 .. dist - 1 /\ f \in 0 .. h - 1
      /\ loop.size = z /\ loop.base = FirstOf(h, b) /\ loop.offset = f /\ z * dist = FftPoints
  BY DEF Stands
<1>2. z \in Nat \ {0} /\ z \div 2 = h /\ b \in Nat /\ b + 1 \in Nat /\ f \in Nat /\ h \in Nat
  BY <1>1
<1>3. loop.base + loop.offset = even /\ even + h = odd
  BY <1>1 DEF EvenOf, OddOf
<1>4. FftPoints \div z = dist
  <2>1. z \in Nat \ {0} /\ FftPoints \in Int /\ dist \in Int /\ 0 \in 0 .. z - 1
    BY <1>1, <1>2, PointsAre
  <2>. HIDE DEF z
  <2>2. FftPoints = z * dist + 0
    BY <1>1, <2>1
  <2>. QED  BY <2>1, <2>2, DivModIs
<1>5. /\ after \in Nat /\ FirstOf(h, b) \in Nat /\ after = FirstOf(h, b) + z /\ after = z * (b + 1)
  BY <1>1, <1>2, FirstsAre DEF FirstOf
<1>6. after <= FftPoints
  <2>1. b + 1 <= dist /\ b + 1 \in Nat
    BY <1>1
  <2>. HIDE DEF z
  <2>2. z * (b + 1) <= z * dist
    BY <1>1, <1>2, <2>1
  <2>. QED  BY <1>1, <1>5, <2>2
<1>7. after % z = 0
  <2>1. z \in Nat \ {0} /\ after \in Int /\ b + 1 \in Int /\ 0 \in 0 .. z - 1
    BY <1>2, <1>5
  <2>. HIDE DEF z, after
  <2>2. after = z * (b + 1) + 0
    BY <1>5, <2>1
  <2>. QED  BY <2>1, <2>2, DivModIs
<1>8. even \in Indices /\ odd \in Indices /\ even # odd
  <2>1. even = FirstOf(h, b) + f /\ odd = (FirstOf(h, b) + f) + h
    BY DEF EvenOf, OddOf
  <2>2. after = FirstOf(h, b) + (2 * h)
    BY <1>5
  <2>. HIDE DEF even, odd, after, z
  <2>3. FftPoints \in Nat
    BY PointsAre
  <2>. QED  BY <1>1, <1>2, <1>5, <1>6, <2>1, <2>2, <2>3 DEF Indices
<1>9. f * dist \in Indices
  <2>1. f * dist \in Nat /\ h * dist \in Nat /\ FftPoints = 2 * (h * dist)
    BY <1>1
  <2>2. f * dist < h * dist
    <3>1. (h - f) * dist > 0 /\ (h - f) * dist = h * dist - f * dist
      <4>1. h - f \in Nat \ {0} /\ h \in Int /\ f \in Int
        BY <1>1
      <4>2. (h - f) * dist > 0
        <5>. DEFINE d == h - f
        <5>. HIDE DEF d
        <5>1. d \in Nat \ {0}
          BY <4>1 DEF d
        <5>2. d * dist > 0
          BY <1>1, <5>1
        <5>. QED  BY <5>2 DEF d
      <4>3. (h - f) * dist = h * dist - f * dist
        BY <1>1, <4>1
      <4>. QED  BY <4>2, <4>3
    <3>. QED  BY <2>1, <3>1
  <2>. QED  BY <2>1, <2>2 DEF Indices
<1>. QED  BY <1>1, <1>2, <1>3, <1>4, <1>5, <1>6, <1>7, <1>8, <1>9

LEMMA PlacesJoin ==
  ASSUME fftIn \in [Indices -> Complex],
         NEW s, NEW h, NEW dist, NEW b, NEW f, Stands(s, h, dist, b, f)
  PROVE  LET even == EvenOf(h, b, f)
             odd == OddOf(h, b, f)
             turned == ComplexTimes(RootPower[f * dist], Block(h, 2 * dist, odd))
         IN /\ Block(2 * h, dist, even) = Add(Block(h, 2 * dist, even), turned)
            /\ Block(2 * h, dist, odd) = Sub(Block(h, 2 * dist, even), turned)
<1>1. /\ s \in Nat /\ s < FftLog2 /\ h = PowerOfTwo[s] /\ dist = PowerOfTwo[FftLog2 - (s + 1)]
      /\ b \in Nat /\ f \in 0 .. PowerOfTwo[s] - 1
  BY DEF Stands
<1>2. EvenOf(h, b, f) = (2 * h) * b + f /\ OddOf(h, b, f) = ((2 * h) * b + f) + h
  BY DEF EvenOf, OddOf, FirstOf
<1>3. LET half == PowerOfTwo[s]
          stride == PowerOfTwo[FftLog2 - (s + 1)]
          even == (2 * half) * b + f
          odd == even + half
          turned == ComplexTimes(RootPower[f * stride], Block(half, 2 * stride, odd))
      IN /\ Block(2 * half, stride, even) = Add(Block(half, 2 * stride, even), turned)
         /\ Block(2 * half, stride, odd) = Sub(Block(half, 2 * stride, even), turned)
  BY <1>1, BlocksJoin
<1>. QED  BY <1>1, <1>2, <1>3, Zenon

\* What the butterfly writes.
LEMMA ButterflyWrites ==
  ASSUME FftTypes, Butterfly, NEW s, NEW h, NEW dist, NEW b, NEW f, Stands(s, h, dist, b, f)
  PROVE  LET even == EvenOf(h, b, f)
             odd == OddOf(h, b, f)
             turned == ComplexTimes(RootPower[f * dist], Value(odd))
         IN /\ fftRe' \in [Indices -> Numbers] /\ fftIm' \in [Indices -> Numbers]
            /\ Value(even)' = Add(Value(even), turned) /\ Value(odd)' = Sub(Value(even), turned)
            /\ \A j \in Indices : j # even /\ j # odd => Value(j)' = Value(j)
<1>. DEFINE even == EvenOf(h, b, f)
            odd == OddOf(h, b, f)
            tw == f * dist
            re == Minus(Times(RootPower[tw].re, fftRe[odd]), Times(RootPower[tw].im, fftIm[odd]))
            im == Plus(Times(RootPower[tw].re, fftIm[odd]), Times(RootPower[tw].im, fftRe[odd]))
<1>1. /\ loop.base + loop.offset = even /\ even + loop.size \div 2 = odd
      /\ loop.offset * (FftPoints \div loop.size) = tw
      /\ even \in Indices /\ odd \in Indices /\ even # odd /\ tw \in Indices
  BY ButterflyPlaces
<1>2. TwiddleRe[tw] = RootPower[tw].re /\ TwiddleIm[tw] = RootPower[tw].im
  BY <1>1, Zenon DEF TwiddleRe, TwiddleIm
<1>3. /\ fftRe' = [fftRe EXCEPT ![even] = Plus(@, re), ![odd] = Minus(fftRe[even], re)]
      /\ fftIm' = [fftIm EXCEPT ![even] = Plus(@, im), ![odd] = Minus(fftIm[even], im)]
  <2>. HIDE DEF even, odd, tw
  <2>1. LET x == loop.base + loop.offset
            y == x + loop.size \div 2
            twiddle == loop.offset * (FftPoints \div loop.size)
            tempRe == Minus(Times(TwiddleRe[twiddle], fftRe[y]), Times(TwiddleIm[twiddle], fftIm[y]))
            tempIm == Plus(Times(TwiddleRe[twiddle], fftIm[y]), Times(TwiddleIm[twiddle], fftRe[y]))
        IN /\ fftRe' = [fftRe EXCEPT ![x] = Plus(@, tempRe), ![y] = Minus(fftRe[x], tempRe)]
           /\ fftIm' = [fftIm EXCEPT ![x] = Plus(@, tempIm), ![y] = Minus(fftIm[x], tempIm)]
    BY Zenon DEF Butterfly
  <2>. QED  BY <1>1, <1>2, <2>1, Zenon
<1>4. ComplexTimes(RootPower[tw], Value(odd)) = [re |-> re, im |-> im]
  BY DEF ComplexTimes, Value
<1>5. /\ fftRe \in [Indices -> Numbers] /\ fftIm \in [Indices -> Numbers]
      /\ \A a, c : a \in Int /\ c \in Int => Plus(a, c) \in Numbers /\ Minus(a, c) \in Numbers
                                             /\ Times(a, c) \in Numbers
      /\ Numbers \subseteq Int
  <2>1. ASSUME NEW a \in Int PROVE a % Modulus \in Numbers
    BY FftAssumption, DivMod DEF Numbers
  <2>2. ASSUME NEW a \in Int, NEW c \in Int PROVE a + c \in Int /\ a - c \in Int /\ a * c \in Int
    OBVIOUS
  <2>. QED  BY <2>1, <2>2 DEF FftTypes, Plus, Minus, Times, Numbers
<1>6. re \in Int /\ im \in Int
  <2>1. RootPower[tw] \in Complex
    BY <1>1, RootPowers DEF Indices
  <2>2. RootPower[tw].re \in Int /\ RootPower[tw].im \in Int /\ fftRe[odd] \in Int /\ fftIm[odd] \in Int
    BY <1>1, <1>5, <2>1 DEF Complex
  <2>. HIDE DEF even, odd, tw
  <2>. QED  BY <1>5, <2>2
<1>. HIDE DEF even, odd, tw, re, im
<1>7. /\ Plus(fftRe[even], re) \in Numbers /\ Minus(fftRe[even], re) \in Numbers
      /\ Plus(fftIm[even], im) \in Numbers /\ Minus(fftIm[even], im) \in Numbers
  <2>1. fftRe[even] \in Int /\ fftIm[even] \in Int
    BY <1>1, <1>5
  <2>. QED  BY <1>5, <1>6, <2>1
<1>8. fftRe' \in [Indices -> Numbers] /\ fftIm' \in [Indices -> Numbers]
  BY <1>1, <1>3, <1>5, <1>7
<1>9. /\ fftRe'[even] = Plus(fftRe[even], re) /\ fftRe'[odd] = Minus(fftRe[even], re)
      /\ fftIm'[even] = Plus(fftIm[even], im) /\ fftIm'[odd] = Minus(fftIm[even], im)
      /\ \A j \in Indices : j # even /\ j # odd => fftRe'[j] = fftRe[j] /\ fftIm'[j] = fftIm[j]
  BY <1>1, <1>3, <1>5
<1>10. Value(even)' = Add(Value(even), [re |-> re, im |-> im])
       /\ Value(odd)' = Sub(Value(even), [re |-> re, im |-> im])
  <2>1. Value(even)' = [re |-> fftRe'[even], im |-> fftIm'[even]]
        /\ Value(odd)' = [re |-> fftRe'[odd], im |-> fftIm'[odd]]
    BY DEF Value, even, odd
  <2>. QED  BY <1>9, <2>1 DEF Value, Add, Sub
<1>11. \A j \in Indices : j # even /\ j # odd => Value(j)' = Value(j)
  BY <1>9 DEF Value
<1>. QED  BY <1>4, <1>8, <1>10, <1>11 DEF even, odd, tw

\* So the places of the butterfly go from the blocks to the one of both.
LEMMA ButterflyMoves ==
  ASSUME FftTypes, Butterfly, NEW s, NEW h, NEW dist, NEW b, NEW f, Stands(s, h, dist, b, f), InStage(s)
  PROVE  \A j \in Indices :
           Value(j)' = IF Before(2 * h, FirstOf(h, b), f, j) \/ IsPlace(h, b, f, j)
                       THEN Block(2 * h, dist, j)' ELSE Block(h, 2 * dist, j)'
<1>. DEFINE even == EvenOf(h, b, f)
            odd == OddOf(h, b, f)
            turned == ComplexTimes(RootPower[f * dist], Value(odd))
<1>1. /\ h \in Nat \ {0} /\ b \in Nat /\ f \in 0 .. h - 1 /\ fftIn' = fftIn
      /\ fftIn \in [Indices -> Complex] /\ even \in Indices /\ odd \in Indices
  BY ButterflyPlaces DEF Stands, Butterfly, FftTypes
<1>2. /\ Value(even)' = Add(Value(even), turned) /\ Value(odd)' = Sub(Value(even), turned)
      /\ \A j \in Indices : j # even /\ j # odd => Value(j)' = Value(j)
  BY ButterflyWrites
<1>3. \A j \in Indices : Value(j) = IF Before(2 * h, FirstOf(h, b), f, j)
                                    THEN Block(2 * h, dist, j) ELSE Block(h, 2 * dist, j)
  <2>1. /\ h = PowerOfTwo[s] /\ dist = PowerOfTwo[FftLog2 - (s + 1)] /\ PowerOfTwo[FftLog2 - s] = 2 * dist
        /\ loop.base = FirstOf(h, b) /\ loop.offset = f
    BY DEF Stands
  <2>2. \A j \in Indices :
          Value(j) = IF Before(2 * PowerOfTwo[s], loop.base, loop.offset, j)
                     THEN Block(2 * PowerOfTwo[s], PowerOfTwo[FftLog2 - (s + 1)], j)
                     ELSE Block(PowerOfTwo[s], PowerOfTwo[FftLog2 - s], j)
    BY DEF InStage
  <2>. QED  BY <2>1, <2>2, Zenon
<1>4. ~Before(2 * h, FirstOf(h, b), f, even) /\ ~Before(2 * h, FirstOf(h, b), f, odd)
  <2>1. even \in Nat /\ odd \in Nat /\ IsPlace(h, b, f, even) /\ IsPlace(h, b, f, odd)
    BY <1>1, PointsAre DEF Indices, IsPlace
  <2>. HIDE DEF even, odd
  <2>. QED  BY <1>1, <2>1, BeforeNext
<1>5. Value(even) = Block(h, 2 * dist, even) /\ Value(odd) = Block(h, 2 * dist, odd)
  BY <1>1, <1>3, <1>4, Zenon
<1>6. Value(even)' = Block(2 * h, dist, even) /\ Value(odd)' = Block(2 * h, dist, odd)
  <2>1. LET factor == ComplexTimes(RootPower[f * dist], Block(h, 2 * dist, odd))
        IN /\ Block(2 * h, dist, even) = Add(Block(h, 2 * dist, even), factor)
           /\ Block(2 * h, dist, odd) = Sub(Block(h, 2 * dist, even), factor)
    BY <1>1, PlacesJoin
  <2>2. turned = ComplexTimes(RootPower[f * dist], Block(h, 2 * dist, odd))
    BY <1>5
  <2>3. Value(even)' = Add(Block(h, 2 * dist, even), turned)
        /\ Value(odd)' = Sub(Block(h, 2 * dist, even), turned)
    BY <1>2, <1>5, Zenon
  <2>. QED  BY <2>1, <2>2, <2>3, Zenon
<1>7. \A size, stride, j : Block(size, stride, j)' = Block(size, stride, j)
  BY <1>1, InputsStay, Zenon
<1>8. ASSUME NEW j \in Indices
      PROVE  Value(j)' = IF Before(2 * h, FirstOf(h, b), f, j) \/ IsPlace(h, b, f, j)
                         THEN Block(2 * h, dist, j)' ELSE Block(h, 2 * dist, j)'
  <2>1. CASE j = even
    <3>1. IsPlace(h, b, f, j)
      BY <2>1 DEF IsPlace
    <3>2. Value(j)' = Block(2 * h, dist, j)
      BY <1>6, <2>1
    <3>. QED  BY <1>7, <3>1, <3>2, Zenon
  <2>2. CASE j = odd
    <3>1. IsPlace(h, b, f, j)
      BY <2>2 DEF IsPlace
    <3>2. Value(j)' = Block(2 * h, dist, j)
      BY <1>6, <2>2
    <3>. QED  BY <1>7, <3>1, <3>2, Zenon
  <2>3. CASE j # even /\ j # odd
    <3>1. ~IsPlace(h, b, f, j)
      BY <2>3 DEF IsPlace
    <3>2. Value(j)' = Value(j)
      BY <1>2, <2>3
    <3>. QED  BY <1>3, <1>7, <3>1, <3>2, Zenon
  <2>. QED  BY <2>1, <2>2, <2>3
<1>. QED  BY <1>8

\* The next iteration, the next block and the next stage.
LEMMA ButterflyStep == FftInv /\ Butterfly => FftInv'
<1>. SUFFICES ASSUME FftInv, Butterfly PROVE FftInv'
  OBVIOUS
<1>1. /\ FftTypes /\ fftPc = "transform" /\ loop.size <= FftPoints /\ loop' = NextLoop
      /\ UNCHANGED <<fftIn, fftPc, index, mismatches>>
      /\ \/ \E s \in 0 .. FftLog2 - 1 : InStage(s)
         \/ loop.size = 2 * FftPoints /\ AllDone
  BY DEF FftInv, Butterfly
<1>2. FftPoints \in Nat \ {0} /\ FftLog2 \in Nat
  BY PointsAre, FftAssumption
<1>3. PICK s \in 0 .. FftLog2 - 1 : InStage(s)
  BY <1>1, <1>2
<1>4. PICK h, dist, b, f : Stands(s, h, dist, b, f)
  BY <1>1, <1>3, StandsIn
<1>. DEFINE first == FirstOf(h, b)
            after == FirstOf(h, b + 1)
<1>5. /\ h \in Nat \ {0} /\ dist \in Nat \ {0} /\ b \in Nat /\ f \in 0 .. h - 1
      /\ s \in Nat /\ s < FftLog2 /\ h = PowerOfTwo[s] /\ dist = PowerOfTwo[FftLog2 - (s + 1)]
      /\ PowerOfTwo[s + 1] = 2 * h /\ PowerOfTwo[FftLog2 - s] = 2 * dist /\ (2 * h) * dist = FftPoints
      /\ loop.size = 2 * h /\ loop.base = first /\ loop.offset = f /\ loop.size \div 2 = h
      /\ after = first + loop.size /\ after \in Nat /\ after % loop.size = 0 /\ after <= FftPoints
      /\ first < FftPoints /\ first % loop.size = 0
  <2>1. /\ h \in Nat \ {0} /\ dist \in Nat \ {0} /\ f \in 0 .. h - 1
        /\ s \in Nat /\ s < FftLog2 /\ h = PowerOfTwo[s] /\ dist = PowerOfTwo[FftLog2 - (s + 1)]
        /\ PowerOfTwo[s + 1] = 2 * h /\ PowerOfTwo[FftLog2 - s] = 2 * dist /\ (2 * h) * dist = FftPoints
        /\ loop.size = 2 * h /\ loop.base = FirstOf(h, b) /\ loop.offset = f
    BY <1>4, Zenon DEF Stands
  <2>2. /\ loop.size \div 2 = h /\ b \in Nat /\ FirstOf(h, b + 1) = FirstOf(h, b) + loop.size
        /\ FirstOf(h, b + 1) \in Nat /\ FirstOf(h, b + 1) % loop.size = 0
        /\ FirstOf(h, b + 1) <= FftPoints
    BY <1>4, ButterflyPlaces
  <2>3. loop.base < FftPoints /\ loop.base % loop.size = 0
    BY <1>3, Zenon DEF InStage
  <2>. QED  BY <2>1, <2>2, <2>3, Zenon
<1>6. fftRe' \in [Indices -> Numbers] /\ fftIm' \in [Indices -> Numbers]
  BY <1>1, <1>4, ButterflyWrites
<1>7. \A j \in Indices :
        Value(j)' = IF Before(2 * h, first, f, j) \/ IsPlace(h, b, f, j)
                    THEN Block(2 * h, dist, j)' ELSE Block(h, 2 * dist, j)'
  BY <1>1, <1>3, <1>4, ButterflyMoves
<1>8. ASSUME NEW j \in Indices
      PROVE  /\ Before(2 * h, first, f + 1, j) <=> Before(2 * h, first, f, j) \/ IsPlace(h, b, f, j)
             /\ f + 1 = h => (Before(2 * h, after, 0, j)
                              <=> Before(2 * h, first, f, j) \/ IsPlace(h, b, f, j))
             /\ f + 1 = h /\ j < after => Before(2 * h, first, f, j) \/ IsPlace(h, b, f, j)
  <2>1. j \in Nat
    BY <1>2 DEF Indices
  <2>2. /\ IsPlace(h, b, f, j) =>
             /\ Before(2 * h, FirstOf(h, b), f + 1, j) /\ Before(2 * h, FirstOf(h, b + 1), 0, j)
        /\ ~IsPlace(h, b, f, j) =>
             /\ Before(2 * h, FirstOf(h, b), f + 1, j) <=> Before(2 * h, FirstOf(h, b), f, j)
             /\ f + 1 = h => (Before(2 * h, FirstOf(h, b + 1), 0, j)
                               <=> Before(2 * h, FirstOf(h, b), f, j))
             /\ f + 1 = h /\ j < FirstOf(h, b + 1) => Before(2 * h, FirstOf(h, b), f, j)
    <3>1. h \in Nat \ {0} /\ b \in Nat /\ f \in 0 .. h - 1
      BY <1>5, Zenon
    <3>. QED  BY <2>1, <3>1, BeforeNext
  <2>. QED  BY <2>2, Zenon
<1>9. ASSUME loop' \in [size : 0 .. 2 * FftPoints, base : Nat, offset : Nat] PROVE FftTypes'
  BY <1>1, <1>6, <1>9 DEF FftTypes
<1>10. loop \in [size : 0 .. 2 * FftPoints, base : Nat, offset : Nat]
  BY <1>1 DEF FftTypes
<1>. HIDE DEF first, after
<1>11. CASE f + 1 < h
  <2>1. loop' = [loop EXCEPT !.offset = f + 1]
    BY <1>1, <1>5, <1>11 DEF NextLoop
  <2>2. loop'.size = 2 * h /\ loop'.base = first /\ loop'.offset = f + 1
        /\ loop' \in [size : 0 .. 2 * FftPoints, base : Nat, offset : Nat]
    BY <1>5, <1>10, <2>1
  <2>3. \A j \in Indices :
          Value(j)' = IF Before(2 * h, loop'.base, loop'.offset, j)
                      THEN Block(2 * h, dist, j)' ELSE Block(h, 2 * dist, j)'
    BY <1>7, <1>8, <2>2
  <2>4. InStage(s)'
    BY <1>5, <1>11, <2>2, <2>3 DEF InStage, Before
  <2>. QED  BY <1>1, <1>9, <2>2, <2>4 DEF FftInv
<1>12. CASE f + 1 = h /\ after < FftPoints
  <2>1. loop' = [loop EXCEPT !.offset = 0, !.base = after]
    BY <1>1, <1>5, <1>12 DEF NextLoop
  <2>2. loop'.size = 2 * h /\ loop'.base = after /\ loop'.offset = 0
        /\ loop' \in [size : 0 .. 2 * FftPoints, base : Nat, offset : Nat]
    BY <1>5, <1>10, <2>1
  <2>3. \A j \in Indices :
          Value(j)' = IF Before(2 * h, loop'.base, loop'.offset, j)
                      THEN Block(2 * h, dist, j)' ELSE Block(h, 2 * dist, j)'
    BY <1>7, <1>8, <1>12, <2>2
  <2>4. InStage(s)'
    BY <1>5, <1>12, <2>2, <2>3 DEF InStage, Before
  <2>. QED  BY <1>1, <1>9, <2>2, <2>4 DEF FftInv
<1>13. CASE f + 1 = h /\ ~(after < FftPoints)
  <2>1. loop' = [size |-> 2 * (2 * h), base |-> 0, offset |-> 0]
    BY <1>1, <1>5, <1>13 DEF NextLoop
  <2>2. 2 * h \in Nat \ {0} /\ 2 * h <= FftPoints
    BY <1>1, <1>5
  <2>3. loop' \in [size : 0 .. 2 * FftPoints, base : Nat, offset : Nat]
    BY <1>2, <2>1, <2>2
  <2>4. \A j \in Indices : Value(j)' = Block(2 * h, dist, j)'
    <3>. TAKE j \in Indices
    <3>1. j < after
      BY <1>2, <1>5, <1>13 DEF Indices
    <3>. QED  BY <1>7, <1>8, <1>13, <3>1
  <2>5. CASE s + 1 = FftLog2
    <3>1. FftLog2 - (s + 1) = 0
      BY <1>2, <2>5
    <3>2. dist = 1 /\ 2 * h = FftPoints
      BY <1>5, <2>5, <3>1, FftAssumption, PowersOfTwo
    <3>3. AllDone' /\ loop'.size = 2 * FftPoints
      BY <2>1, <2>4, <3>2 DEF AllDone
    <3>. QED  BY <1>1, <1>9, <2>3, <3>3 DEF FftInv
  <2>6. CASE s + 1 # FftLog2
    <3>. DEFINE k == 2 * h
    <3>1. s + 1 \in 0 .. FftLog2 - 1 /\ k = PowerOfTwo[s + 1] /\ dist = PowerOfTwo[FftLog2 - (s + 1)]
          /\ k \in Nat \ {0}
      BY <1>2, <1>5, <2>6
    <3>2. loop'.size = 2 * k /\ loop'.base = 0 /\ loop'.offset = 0 /\ 0 % (2 * k) = 0
      BY <2>1, <3>1
    <3>3. \A j \in Indices : ~Before(2 * k, 0, 0, j)
      <4>. TAKE j \in Indices
      <4>. HIDE DEF k
      <4>1. 0 \in Nat /\ 0 \in 0 .. k - 1 /\ j \in Nat
        BY <1>2, <3>1 DEF Indices
      <4>. QED  BY <3>1, <4>1, BeforeNext
    <3>. HIDE DEF k
    <3>4. \A j \in Indices :
            Value(j)' = IF Before(2 * k, loop'.base, loop'.offset, j)
                        THEN Block(2 * k, PowerOfTwo[FftLog2 - ((s + 1) + 1)], j)'
                        ELSE Block(k, dist, j)'
      BY <2>4, <3>2, <3>3 DEF k
    <3>5. InStage(s + 1)'
      BY <1>2, <3>1, <3>2, <3>4 DEF InStage, Before
    <3>. QED  BY <1>1, <1>9, <2>3, <3>1, <3>5 DEF FftInv
  <2>. QED  BY <2>5, <2>6
<1>14. f + 1 < h \/ f + 1 = h
  <2>1. h \in Nat \ {0} /\ f \in 0 .. h - 1
    BY <1>5, Zenon
  <2>. QED  BY <2>1
<1>. QED  BY <1>11, <1>12, <1>13, <1>14
-----------------------------------------------------------------------------
(* The transform: what holds of it.                                        *)

LEMMA FftKeeps == FftInv /\ [FftNext]_fftVars => FftInv'
<1>. SUFFICES ASSUME FftInv, [FftNext]_fftVars PROVE FftInv'
  OBVIOUS
<1>1. CASE FftLoad
  BY <1>1, LoadStep
<1>2. CASE Swaps
  BY <1>2, SwapsStep
<1>3. CASE Transforms
  BY <1>3, TransformsStep
<1>4. CASE Butterfly
  BY <1>4, ButterflyStep
<1>5. CASE Compares
  BY <1>5, ComparesStep
<1>6. CASE CountsMismatch \/ FftReport \/ UNCHANGED fftVars
  BY <1>6, EndSteps
<1>. QED  BY <1>1, <1>2, <1>3, <1>4, <1>5, <1>6 DEF FftNext

LEMMA FftInvariant == FftSpec => []FftInv
<1>1. FftInit => FftInv
  BY FftInitInv
<1>2. FftInv /\ [FftNext]_fftVars => FftInv'
  BY FftKeeps
<1>. QED  BY <1>1, <1>2, PTL DEF FftSpec

(* The arrays keep reduced numbers, and index, size and mismatch_count the *)
(* ranges of the loops (sw/examples/fpu_fft/fft_main.inc).                 *)
THEOREM TransformTypes == FftSpec => []FftTypeOK
<1>1. FftInv => FftTypeOK
  BY PointsAre DEF FftInv, FftTypes, FftTypeOK
<1>. QED  BY <1>1, FftInvariant, PTL

(* fft reads and writes no place outside its arrays and tables, in the     *)
(* permutation as in the butterflies, for every length (fft_main.inc:67-90)*)
THEOREM TransformInBounds == FftSpec => []FftInBounds
<1>1. FftInv => FftInBounds
  <2>. SUFFICES ASSUME FftInv PROVE FftInBounds
    OBVIOUS
  <2>1. FftTypes /\ FftPoints \in Nat \ {0}
    BY PointsAre DEF FftInv
  <2>2. index < FftPoints => ReverseBits(index) \in Indices
    <3>. HAVE index < FftPoints
    <3>1. index \in Indices
      BY <2>1 DEF FftTypes, Indices
    <3>. QED  BY <3>1, ReverseIn
  <2>3. ASSUME fftPc = "transform", loop.size <= FftPoints
        PROVE  /\ loop.base + loop.offset \in Indices
               /\ (loop.base + loop.offset) + loop.size \div 2 \in Indices
               /\ loop.offset * (FftPoints \div loop.size) \in Indices
    <3>1. PICK s \in 0 .. FftLog2 - 1 : InStage(s)
      BY <2>1, <2>3 DEF FftInv
    <3>2. PICK h, dist, b, f : Stands(s, h, dist, b, f)
      BY <2>1, <3>1, StandsIn
    <3>3. LET even == EvenOf(h, b, f)
              odd == OddOf(h, b, f)
          IN /\ loop.base + loop.offset = even /\ even + loop.size \div 2 = odd
             /\ loop.offset * (FftPoints \div loop.size) = f * dist
             /\ even \in Indices /\ odd \in Indices /\ f * dist \in Indices
      BY <3>2, ButterflyPlaces
    <3>. QED  BY <3>3, Zenon
  <2>. QED  BY <2>2, <2>3 DEF FftInBounds
<1>. QED  BY <1>1, FftInvariant, PTL

(* For every length that is a power of two (fpu_fft has 128 points,        *)
(* fpu_fft1024 1024), every input and every arithmetic in which half a     *)
(* turn is -1: when fft has ended the arrays hold the discrete Fourier     *)
(* transform of the input, although each butterfly overwrites its operands *)
(* (fft_main.inc:62-106).                                                  *)
THEOREM TransformIsDft == FftSpec => []FftIsDft
<1>1. FftInv => FftIsDft
  <2>. SUFFICES ASSUME FftInv, fftPc \in {"compare", "pass", "fail"}, NEW k \in Indices
                PROVE  [re |-> fftRe[k], im |-> fftIm[k]] = Dft(k)
    BY DEF FftIsDft
  <2>1. fftPc \in {"compare", "pass"} /\ \A j \in Indices : Value(j) = Dft(j)
    BY DEF FftInv, FftTypes
  <2>. QED  BY <2>1, Zenon DEF Value
<1>. QED  BY <1>1, FftInvariant, PTL

(* So main, which compares the arrays with the reference, never reports a  *)
(* failure (fft_main.inc:133-150).                                         *)
THEOREM TransformPasses == FftSpec => [](fftPc # "fail")
<1>1. FftInv => fftPc # "fail"
  BY DEF FftInv, FftTypes
<1>. QED  BY <1>1, FftInvariant, PTL
=============================================================================
