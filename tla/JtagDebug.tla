----------------------------- MODULE JtagDebug -----------------------------
(***************************************************************************)
(* External debug (rtl/soc/debug) with the boot window behind it, as       *)
(* sys_ctrl puts them together: the JTAG DTM in the clock domain of TCK,   *)
(* the crossing to the system clock, the debug module, a hart, and a host  *)
(* that makes the accesses of a script as the JTAG agent of the testbench  *)
(* does: a scan, a wait, and a scan of a NOP that brings the answer.       *)
(*                                                                         *)
(* An edge of TCK and an edge of the clock are separate steps in any       *)
(* order.  A scan is seen at its Capture-DR and its Update-DR; the edges   *)
(* on which it shifts are among those that leave the host where it is.     *)
(* The data of a request are words and sets of bits.                       *)
(***************************************************************************)
EXTENDS BootSubsystem

CONSTANTS Scripts,       \* the sequences of accesses of hosts, by name
          ScriptsOf(_),  \* the scripts that may run in a boot mode
          ClkWait, TckWait,  \* edges of either clock between the two scans
          MaxResets,     \* resets of the TAP or of the board
          ResetTogether  \* whether a reset of the board resets the TAP too

ASSUME JtagAssumption ==
  /\ {ClkWait, TckWait, MaxResets} \subseteq Nat
  /\ ResetTogether \in BOOLEAN
  /\ \A mode \in BootModes : ScriptsOf(mode) \subseteq DOMAIN Scripts

\* A host asks for something: it sends NOPs only to fetch answers.
ASSUME ScriptsAssumption ==
  \A s \in DOMAIN Scripts :
    /\ Len(Scripts[s]) \in Nat
    /\ \A k \in 1 .. Len(Scripts[s]) : Scripts[s][k].request.op \in {"read", "write"}

VARIABLES
  dtm,      \* jtag_dtm: request, its toggle, and the answer it has taken
  cdc,      \* dmi_cdc: its state, the request it passes on, its answer
  dm,       \* debug_module_min
  hart,     \* whether it has to halt and is halted, and the register x5
  host,     \* script, access, phase, edges still to wait, what it was told
  ledger,   \* the host's last request, how often and how it was answered
  resets    \* resets so far

linkVars == <<dtm, cdc, dm, hart, host, ledger, resets>>
jtagVars == <<bootVars, linkVars>>

Request(op, reg, word, bits) == [op |-> op, reg |-> reg, word |-> word, bits |-> bits]
Nop(reg) == Request("nop", reg, Zero, {})
Answer(op, word, bits) == [op |-> op, word |-> word, bits |-> bits]
NoAnswer == Answer("ok", Zero, {})

-----------------------------------------------------------------------------
(* The debug module.  Hart "running" or "halted"; a halt takes its time.   *)

DmAtReset == [active |-> FALSE, haltreq |-> FALSE, resumeack |-> FALSE,
              havereset |-> TRUE, data0 |-> Zero, cmderr |-> "none", resume |-> FALSE]
HartAtReset == [pending |-> FALSE, halted |-> FALSE, x5 |-> Zero]

DmStatus ==
  (IF hart.halted THEN {"halted"} ELSE {"running"})
  \cup (IF dm.resumeack THEN {"resumeack"} ELSE {})
  \cup (IF dm.havereset THEN {"havereset"} ELSE {})

DebugAnswer(r) ==
  IF r.op # "read" THEN NoAnswer
  ELSE CASE r.reg = "data0" -> Answer("ok", dm.data0, {})
         [] r.reg = "dmcontrol" ->
              Answer("ok", Zero, (IF dm.haltreq THEN {"haltreq"} ELSE {})
                                 \cup (IF dm.active THEN {"dmactive"} ELSE {}))
         [] r.reg = "dmstatus" -> Answer("ok", Zero, DmStatus)
         [] r.reg = "abstractcs" -> Answer("ok", Zero, {dm.cmderr})
         [] r.reg = "command" -> NoAnswer
         [] OTHER -> Answer("error", Zero, {})

\* dmcontrol: inactive clears the module but for the sticky reset status.
Controlled(bits) ==
  IF "dmactive" \notin bits THEN [DmAtReset EXCEPT !.havereset = dm.havereset]
  ELSE [dm EXCEPT !.active = TRUE, !.resume = "resumereq" \in bits,
          !.havereset = @ /\ "ackhavereset" \notin bits,
          !.haltreq = (@ \/ "haltreq" \in bits) /\ "resumereq" \notin bits,
          !.resumeack = (@ /\ "haltreq" \notin bits) \/ "resumereq" \in bits]

\* An abstract command, done at once: the error it ends with.
CommandError(bits) ==
  CASE "supported" \notin bits -> "notsup"
    [] ~(dm.active /\ hart.halted) /\ "supported" \in bits -> "haltresume"
    [] dm.active /\ hart.halted /\ "supported" \in bits /\ "x5" \notin bits -> "exception"
    [] OTHER -> "none"

Commanded(bits) ==
  IF dm.cmderr # "none" THEN dm
  ELSE [dm EXCEPT !.cmderr = CommandError(bits),
          !.data0 = IF CommandError(bits) = "none" /\ "write" \notin bits
                      THEN hart.x5 ELSE @]

DmWritten(r) ==
  CASE r.reg = "data0" -> [dm EXCEPT !.data0 = r.word]
    [] r.reg = "dmcontrol" -> Controlled(r.bits)
    [] r.reg = "abstractcs" -> IF r.bits # {} THEN [dm EXCEPT !.cmderr = "none"] ELSE dm
    [] r.reg = "command" -> Commanded(r.bits)
    [] OTHER -> dm

\* A clock edge with the request r; the hart halts when it has drained.
DmClock(r, drained) ==
  LET mine == r.op = "write" /\ ~BootSelected(r)
      quietDm == [dm EXCEPT !.resume = FALSE]
      enters == hart.pending /\ drained
      leaves == hart.halted /\ dm.resume
      next == IF mine THEN [DmWritten(r) EXCEPT
                              !.resume = r.reg = "dmcontrol" /\ @] ELSE quietDm
  IN /\ dm' = [next EXCEPT !.haltreq = @ /\ ~hart.halted]
     /\ hart' = [pending |-> /\ hart.pending \/ (dm.haltreq /\ ~hart.halted)
                             /\ ~enters /\ ~leaves,
                 halted |-> enters \/ (hart.halted /\ ~leaves),
                 x5 |-> IF /\ mine /\ r.reg = "command" /\ "write" \in r.bits
                           /\ dm.cmderr = "none" /\ CommandError(r.bits) = "none"
                          THEN dm.data0 ELSE hart.x5]

-----------------------------------------------------------------------------
(* The crossing, on the side of the system clock.                          *)

CdcAtReset == [state |-> "idle", meta |-> FALSE, sync |-> FALSE, seen |-> FALSE,
               valid |-> FALSE, req |-> Nop("none"), toggle |-> FALSE, answer |-> NoAnswer]

\* The request that the debug side sees in this cycle.
Visible == IF cdc.valid THEN cdc.req ELSE Nop("none")

Told == IF BootSelected(cdc.req) THEN BootAnswer(cdc.req) ELSE DebugAnswer(cdc.req)

\* Wrong: a NOP needs no answer.
RespondsToOps == cdc.valid /\ cdc.req.op # "nop"

\* Every request is answered in its cycle.
Responds == cdc.valid

CdcClock ==
  LET sampled == [cdc EXCEPT !.meta = dtm.toggle, !.sync = cdc.meta, !.valid = FALSE]
      new == cdc.sync # cdc.seen
  IN cdc' = CASE cdc.state = "idle" /\ new ->
                   [sampled EXCEPT !.seen = cdc.sync, !.req = dtm.req, !.state = "issue"]
              [] cdc.state = "issue" ->
                   [sampled EXCEPT !.valid = TRUE, !.state = "respond"]
              [] cdc.state = "respond" /\ Responds ->
                   [sampled EXCEPT !.answer = Told, !.toggle = ~@, !.state = "idle"]
              [] OTHER -> sampled

\* What the history notes of a request that is performed.
Noted ==
  IF Visible.op = "nop" THEN ledger
  ELSE [ledger EXCEPT !.alien = @ \/ Visible # ledger.asked \/ ledger.times > 0,
                      !.times = 1, !.answer = Told]

ClkEdge(drained, b) ==
  /\ BootClock(DmiCommand(Visible), b) /\ Arrives(b)
  /\ DmClock(Visible, drained)
  /\ CdcClock
  /\ ledger' = Noted
  /\ host' = IF host.phase \in {"clk", "settle"} /\ host.wait > 0
               THEN [host EXCEPT !.wait = @ - 1] ELSE host
  /\ UNCHANGED <<bootMode, dtm, resets>>

-----------------------------------------------------------------------------
(* The DTM, on the side of TCK, and the host that drives it.               *)

\* Wrong: a reset of the TAP clears the toggle and leaves the request.
DtmResetKeepsRequest ==
  [toggle |-> FALSE, req |-> dtm.req, meta |-> FALSE, sync |-> FALSE, seen |-> FALSE,
   answer |-> NoAnswer]

DtmReset ==
  [toggle |-> FALSE, req |-> Nop("none"), meta |-> FALSE, sync |-> FALSE, seen |-> FALSE,
   answer |-> NoAnswer]

\* Every edge of TCK looks for an answer.
DtmLooks ==
  [dtm EXCEPT !.meta = cdc.toggle, !.sync = dtm.meta, !.seen = dtm.sync,
              !.answer = IF dtm.sync # dtm.seen THEN cdc.answer ELSE @]

\* Update-DR: the request, and a toggle unless it is a NOP.
DtmUpdate(r) == [DtmLooks EXCEPT !.req = r,
                                 !.toggle = IF r.op # "nop" THEN ~@ ELSE @]

Ended == host.access > Len(Scripts[host.script])
Access == Scripts[host.script][host.access]

\* A read that is repeated until it shows a bit.
Satisfied == Access.until \subseteq host.told.bits

Phase(name, wait) == [host EXCEPT !.phase = name, !.wait = wait]

HostUpdate ==
  /\ host.phase = "ready" /\ ~Ended
  /\ dtm' = DtmUpdate(Access.request)
  /\ host' = Phase("clk", ClkWait)
  /\ ledger' = [asked |-> Access.request, times |-> 0, answer |-> NoAnswer,
                alien |-> ledger.alien]

\* The wait: edges of the clock, then edges of TCK, the last one Capture-DR.
HostIdles ==
  /\ \/ host.phase = "clk" /\ host.wait = 0 /\ host' = Phase("tck", TckWait)
     \/ host.phase = "tck" /\ host.wait > 0 /\ host' = Phase("tck", host.wait - 1)
     \/ /\ host.phase = "tck" /\ host.wait = 0
        /\ host' = [Phase("told", 0) EXCEPT !.told = dtm.answer]
     \/ host.phase = "settle" /\ host.wait = 0 /\ host' = Phase("ready", 0)
  /\ dtm' = DtmLooks /\ UNCHANGED ledger

\* The NOP is scanned in; the next access, or the same once more.
HostNop ==
  /\ host.phase = "told"
  /\ dtm' = DtmUpdate(Nop(Access.request.reg))
  /\ host' = [Phase("ready", 0) EXCEPT !.access = IF Satisfied THEN @ + 1 ELSE @]
  /\ UNCHANGED ledger

HostStep == HostUpdate \/ HostIdles \/ HostNop

TckEdge ==
  /\ HostStep \/ (dtm' = DtmLooks /\ UNCHANGED <<host, ledger>>)
  /\ UNCHANGED <<bootVars, cdc, dm, hart, resets>>

-----------------------------------------------------------------------------
(* Resets.  The host begins its session again, after a pause.              *)

Restarted == [host EXCEPT !.phase = "settle", !.wait = ClkWait, !.told = NoAnswer,
                          !.access = IF Ended THEN @ ELSE 1]

TapReset ==
  /\ resets < MaxResets /\ resets' = resets + 1
  /\ dtm' = DtmReset /\ host' = Restarted
  /\ UNCHANGED <<bootVars, cdc, dm, hart, ledger>>

BoardReset ==
  /\ resets < MaxResets /\ resets' = resets + 1
  /\ BootReset
  /\ cdc' = CdcAtReset /\ dm' = DmAtReset /\ hart' = HartAtReset
  /\ dtm' = IF ResetTogether THEN DtmReset ELSE dtm
  /\ host' = [Restarted EXCEPT !.access = 1]
  /\ ledger' = [asked |-> Nop("none"), times |-> 0, answer |-> NoAnswer, alien |-> ledger.alien]

JtagInit ==
  /\ BootInit
  /\ dtm = [toggle |-> FALSE, req |-> Nop("none"), meta |-> FALSE, sync |-> FALSE,
            seen |-> FALSE, answer |-> NoAnswer]
  /\ cdc = CdcAtReset /\ dm = DmAtReset /\ hart = HartAtReset
  /\ \E s \in ScriptsOf(bootMode) :
       host = [script |-> s, access |-> 1, phase |-> "ready", wait |-> 0, told |-> NoAnswer]
  /\ ledger = [asked |-> Nop("none"), times |-> 0, answer |-> NoAnswer, alien |-> FALSE]
  /\ resets = 0

JtagNext ==
  \/ \E drained \in BOOLEAN, b \in Bytes : ClkEdge(drained, b)
  \/ TckEdge
  \/ TapReset
  \/ BoardReset

\* The clock runs, the host and the loader go on, the hart drains.
JtagFairness ==
  /\ WF_jtagVars(ClkEdge(TRUE, NoByte))
  /\ WF_jtagVars(\E b \in Bytes \ {NoByte} : line.left # <<>> /\ ClkEdge(TRUE, b))
  /\ WF_jtagVars(HostStep /\ TckEdge)

JtagSpec == JtagInit /\ [][JtagNext]_jtagVars /\ JtagFairness

-----------------------------------------------------------------------------
(* Type invariant.                                                         *)
JtagTypeOK ==
  /\ BootTypeOK
  /\ cdc.state \in {"idle", "issue", "respond"} /\ ledger.times \in 0 .. 1
  /\ host.phase \in {"ready", "clk", "tck", "told", "settle"}
  /\ dm.cmderr \in {"none", "notsup", "haltresume", "exception"}
  /\ host.access \in 1 .. Len(Scripts[host.script]) + 1

(* debug-1.0-minimal.md:17, "JTAG DTM with DMI": what is performed is what *)
(* the host asked for and is performed once, although either side of the   *)
(* crossing may be reset under a request and toggles may get lost; and     *)
(* what the host is told is the answer to its own last request.            *)
AnswersMatch ==
  /\ ~ledger.alien
  /\ host.phase = "told" => ledger.times = 1 /\ host.told = ledger.answer

(* A host that waits for the hart to halt, to run, or for the release of   *)
(* fetch gets there, after any resets; and so does the loader on the UART. *)
SessionsEnd == <>[](Ended /\ line.left = <<>> /\ (bootMode = "uart" => boot.released))
=============================================================================
