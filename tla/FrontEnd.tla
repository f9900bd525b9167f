------------------------------ MODULE FrontEnd ------------------------------
(***************************************************************************)
(* The instruction side of the core: the fetch stage, the predictor in ID, *)
(* the ID/EX, EX/MEM and MEM/WB registers as far as control flow goes, the *)
(* redirects EX resolves, serialised control events (interrupt entry, MRET,*)
(* WFI), sleep, and halting and resuming for an external debugger.         *)
(*                                                                         *)
(* golden is what a machine that executes one instruction at a time would  *)
(* do next; EX is where an instruction takes effect, so golden moves when  *)
(* EX accepts one.  One step is one clock.                                 *)
(***************************************************************************)
EXTENDS IfStage

CONSTANTS
  Kind,         \* what the instruction at a halfword does
  Targets,      \* where the jump or branch at a halfword may go
  Mtvec,        \* the trap vector
  DebuggerPcs,  \* the addresses a debugger writes to DPC
  BootWrites    \* the boot port writes the instruction memory while the core runs

Kinds == {"plain", "branch", "jump", "return", "fence", "wfi", "enable", "mret"}
Fall(h) == Plus(h, SizeAt(h))

ASSUME KindAssumption ==
  /\ Kind \in [Halves -> Kinds] /\ Targets \in [Halves -> SUBSET Halves]
  /\ \A h \in Halves :
       Kind[h] \in {"branch", "jump", "return"} => Targets[h] # {} /\ Fall(h) \notin Targets[h]
\* The target of a jump is part of its code, and neither FENCE.I nor WFI has a
\* 16-bit encoding.
ASSUME FormatAssumption ==
  \A h \in Halves :
    /\ Kind[h] = "jump" => \E t \in Halves : Targets[h] = {t}
    /\ Kind[h] \in {"fence", "wfi"} => h \notin Compressed
ASSUME VectorAssumption == Mtvec \in Halves /\ DebuggerPcs \subseteq Halves
ASSUME BootWritesAssumption == BootWrites \in BOOLEAN

VARIABLES
  ex,       \* ID/EX: {} or {[pc, code, guess]}; guess is {} or the predicted successor
  mem,      \* EX/MEM: {} or {[event, epc]}, event being control_source
  wb,       \* MEM/WB, likewise
  csr,      \* mepc, mstatus.MIE, mstatus.MPIE, dpc
  mode,     \* fetch_enable_i, debug_halt_pending_q, debug_halted_q, wfi_sleep_q,
            \* control_serialize_q
  golden    \* what should execute next, and where MRET should return to

coreVars == <<ex, mem, wb, csr, mode>>
feVars == <<ifVars, coreVars, golden>>

Events == {"none", "trap", "mret", "wfi"}
FeInit ==
  /\ IfInit
  /\ ex = {} /\ mem = {} /\ wb = {}
  /\ csr = [mepc |-> 0, mie |-> FALSE, mpie |-> FALSE, dpc |-> 0]
  /\ mode = [fetch |-> FALSE, halting |-> FALSE, halted |-> FALSE,
             asleep |-> FALSE, serial |-> FALSE]
  /\ golden = [pc |-> BootAddr, epc |-> 0]

-----------------------------------------------------------------------------
(* The inputs of a cycle.  stall is who holds the back end ("none", "ex": a*)
(* multi-cycle operation, "mem": a data access), replay a load-use bubble, *)
(* busy the instruction memory serving its data or boot port.              *)

Drained == ifid = {} /\ ex = {} /\ mem = {} /\ wb = {}

\* A data access occupies the instruction memory in a cycle in which its own
\* load or store holds the pipeline; a halt request stays up until the hart has
\* halted (haltreq_q of the debug module), and the debugger acts on a halted hart
\* long after it saw it halt.
Plain(S) == \E p \in S : p.event = "none"
When(b) == IF b THEN BOOLEAN ELSE {FALSE}

Inputs ==
  {i \in [stall   : {"none"} \cup {s \in {"ex"} : ex # {}} \cup {s \in {"mem"} : Plain(mem)},
          replay  : When(ifid # {} /\ (ex # {} \/ Plain(mem))),
          busy    : When(BootWrites \/ Plain(mem)),
          irq     : BOOLEAN,
          halt    : IF mode.halting THEN {TRUE} ELSE When(~mode.halted),
          resume  : When(mode.halted /\ Drained),
          dpc     : IF mode.halted /\ Drained THEN Opt(DebuggerPcs) ELSE {{}},
          release : When(~mode.fetch)] :
     /\ i.busy => BootWrites \/ i.stall = "mem"
     /\ i.resume => i.dpc = {}}

-----------------------------------------------------------------------------
(* EX.                                                                     *)

\* The instructions EX accepts in this cycle (none or one).
Accepted(i) == IF i.stall = "none" THEN ex ELSE {}

Interrupted(i) == i.irq /\ csr.mie /\ ~mode.halted

\* The control event of an accepted instruction; MRET in Debug Mode is illegal.
EventOf(p, i) ==
  CASE Interrupted(i) -> "trap"
    [] ~Interrupted(i) /\ Kind[p.pc] = "mret" -> IF mode.halted THEN "trap" ELSE "mret"
    [] ~Interrupted(i) /\ Kind[p.pc] = "wfi" -> "wfi"
    [] OTHER -> "none"

Event(i) == \E p \in Accepted(i) : EventOf(p, i) # "none"

\* Where an instruction may go when it completes.
Successors(h) ==
  CASE Kind[h] = "branch" -> Targets[h] \cup {Fall(h)}
    [] Kind[h] \in {"jump", "return"} -> Targets[h]
    [] OTHER -> {Fall(h)}

\* The successor the front end follows after p.
Followed(p) == IF p.guess = {} THEN Fall(p.pc) ELSE Only(p.guess)

\* {} or the target of the redirect EX raises for p, when p goes to next.
ExRedirect(p, next, i) ==
  CASE EventOf(p, i) = "trap" -> {Mtvec}
    [] EventOf(p, i) = "mret" -> {csr.mepc}
    [] EventOf(p, i) = "wfi" -> {Plus(p.pc, 2)}
    [] EventOf(p, i) = "none" /\ Kind[p.pc] = "fence" -> {Plus(p.pc, 2)}
    [] OTHER -> {next} \ {Followed(p)}

\* A trap outranks the resume redirect, which outranks the rest.
BackRedirect(next, i) ==
  LET raised == UNION {ExRedirect(p, next, i) : p \in Accepted(i)}
      trap   == \E p \in Accepted(i) : EventOf(p, i) \in {"trap", "mret"}
  IN  IF i.resume /\ ~trap THEN {csr.dpc} ELSE raised

-----------------------------------------------------------------------------
(* ID and the pipeline control.                                            *)

Running == mode.fetch /\ ~(mode.halting \/ mode.halted \/ mode.asleep \/ mode.serial)

\* The guesses the predictor can make for the instruction in ID: the BHT may say
\* anything, the return stack may be empty or hold any return address.
Guesses(h) ==
  CASE Kind[h] = "jump"   -> {Targets[h]}
    [] Kind[h] = "branch" -> Opt(Successors(h)) \ {{}}
    [] Kind[h] = "return" -> Opt(Targets[h])
    [] OTHER -> {{}}

GuessesNow(i) ==
  IF Running /\ i.stall = "none" /\ ~i.replay
  THEN UNION {Guesses(p.pc) : p \in ifid} \cup (IF ifid = {} THEN {{}} ELSE {})
  ELSE {{}}

IdRedirect(guess) == UNION {guess \ {Fall(p.pc)} : p \in ifid}

FetchInputs(i, guess, next) ==
  LET run  == Running /\ ~Event(i)
      back == BackRedirect(next, i)
  IN  [run      |-> run,
       ready    |-> ~i.busy,
       advance  |-> i.stall = "none" /\ ~i.replay /\ ~FetchWait(run, ~i.busy),
       redirect |-> IF back # {} THEN back ELSE IdRedirect(guess)]

\* ID/EX: a redirect or a bubble empties it, a stall holds it.
IdEx(i, guess, back) ==
  ex' = IF back # {} \/ (i.replay /\ i.stall = "none") THEN {}
        ELSE IF i.stall # "none" THEN ex
        ELSE {[pc |-> p.pc, code |-> p.code, guess |-> guess] : p \in ifid}

\* EX/MEM and MEM/WB.  MEM/WB loads every cycle; a waiting access is no packet.
ExMemWb(i) ==
  /\ mem' = IF i.stall # "none" THEN mem
            ELSE {LET e == EventOf(p, i)
                  IN  [event |-> e, epc |-> IF e = "trap" THEN p.pc ELSE 0] : p \in ex}
  /\ wb' = IF i.stall = "mem" THEN {} ELSE mem

-----------------------------------------------------------------------------
(* Commit, sleep and debug run state.                                      *)

Commits(e) == \E p \in wb : p.event = e
Empty(i) == /\ Drained /\ i.stall # "mem"
            /\ ~FetchWait(Running /\ ~Event(i), ~i.busy)
Enters(i) == mode.halting /\ Empty(i)

\* Debug entry and debugger writes outrank a trap, a return, and a CSR write.
Csr(i) ==
  csr' =
    IF Enters(i) THEN [csr EXCEPT !.dpc = pc]
    ELSE IF i.dpc # {} THEN [csr EXCEPT !.dpc = Only(i.dpc)]
    ELSE IF i.resume THEN [csr EXCEPT !.dpc = 0]
    ELSE IF Commits("trap")
    THEN [csr EXCEPT !.mepc = Only(wb).epc, !.mpie = csr.mie, !.mie = FALSE]
    ELSE IF Commits("mret") THEN [csr EXCEPT !.mie = csr.mpie, !.mpie = TRUE]
    ELSE IF \E p \in Accepted(i) : Kind[p.pc] = "enable" /\ EventOf(p, i) = "none"
    THEN [csr EXCEPT !.mie = TRUE]
    ELSE csr

Wakes(i) == i.irq \/ i.halt \/ i.resume

\* (A slip: a committed WFI leaves the serialisation on.)
ModeStaysSerial(i) ==
  LET commit == Commits("trap") \/ Commits("mret")
  IN  mode' = [fetch   |-> mode.fetch \/ i.release,
               halting |-> ~Enters(i) /\ ~i.resume /\ (mode.halting \/ i.halt),
               halted  |-> Enters(i) \/ (mode.halted /\ ~i.resume),
               asleep  |-> ~Wakes(i) /\ (mode.asleep \/ Commits("wfi")),
               serial  |-> ~commit /\ (mode.serial \/ Event(i))]

Mode(i) ==
  LET commit == \E e \in Events \ {"none"} : Commits(e)
  IN  mode' = [fetch   |-> mode.fetch \/ i.release,
               halting |-> ~Enters(i) /\ ~i.resume /\ (mode.halting \/ i.halt),
               halted  |-> Enters(i) \/ (mode.halted /\ ~i.resume),
               asleep  |-> ~Wakes(i) /\ (mode.asleep \/ Commits("wfi")),
               serial  |-> ~commit /\ (mode.serial \/ Event(i))]

-----------------------------------------------------------------------------
(* The reference machine.                                                  *)

Golden(i, next) ==
  LET step(p) == CASE EventOf(p, i) = "trap" -> [pc |-> Mtvec, epc |-> golden.pc]
                   [] EventOf(p, i) = "mret" -> [golden EXCEPT !.pc = golden.epc]
                   [] OTHER -> [golden EXCEPT !.pc = next]
  IN  golden' = IF i.resume THEN [golden EXCEPT !.pc = csr.dpc]
                ELSE IF Accepted(i) = {} THEN golden
                ELSE step(Only(Accepted(i)))

-----------------------------------------------------------------------------
(* The clock.                                                              *)

Clock(i) ==
  /\ \E guess \in GuessesNow(i),
        next \in IF Accepted(i) = {} THEN {pc} ELSE Successors(Only(ex).pc) :
       /\ IfClock(FetchInputs(i, guess, next))
       /\ IdEx(i, guess, BackRedirect(next, i))
       /\ Golden(i, next)
  /\ ExMemWb(i) /\ Csr(i) /\ Mode(i)

FeNext == \E i \in Inputs : Clock(i)

\* A cycle in which nothing holds the pipeline, and one in which moreover nothing
\* comes from outside.
Free(i) == i.stall = "none" /\ ~i.replay /\ ~i.busy
Quiet(i) == /\ Free(i) /\ ~(i.irq \/ i.resume \/ i.release) /\ i.dpc = {}
            /\ i.halt => mode.halting

FreeClock == \E i \in Inputs : Free(i) /\ Clock(i)
QuietClock == \E i \in Inputs : Quiet(i) /\ Clock(i)

\* Stalls and bubbles end: while the core could move by itself, it is not held for
\* ever.  Nothing from outside is promised, an interrupt and a request included.
Fairness == []<>~(ENABLED <<QuietClock>>_feVars) \/ []<><<FreeClock>>_feVars

FeSpec == FeInit /\ [][FeNext]_feVars /\ Fairness

-----------------------------------------------------------------------------
(* Properties.                                                             *)

\* Every register keeps its range.
FeTypeOK ==
  /\ IfTypeOK
  /\ IsOpt(ex, [pc : Halves, code : Codes, guess : Opt(Halves)])
  /\ IsOpt(mem, [event : Events, epc : Halves])
  /\ IsOpt(wb, [event : Events, epc : Halves])
  /\ csr \in [mepc : Halves, mie : BOOLEAN, mpie : BOOLEAN, dpc : Halves]
  /\ mode \in [fetch : BOOLEAN, halting : BOOLEAN, halted : BOOLEAN,
               asleep : BOOLEAN, serial : BOOLEAN]
  /\ golden \in [pc : Halves, epc : Halves]

\* What reaches EX is the next instruction of the program, cut from the right
\* halfwords: none is lost, repeated, run on a wrong path or torn by prefetching,
\* prediction, redirects that wait for fetch to be allowed, stalls, instruction
\* memory contention, interrupts, sleep, or a halt and a resume at DPC.
ExecutedInOrder ==
  \A p \in ex : p.pc = golden.pc /\ p.code = CodeAt(golden.pc)

\* While the core runs, fetch feeds EX again and again: no redirect, buffer or
\* control event leaves the front end waiting for something that never comes.
FetchProgress == []<>(ex # {} \/ ~mode.fetch \/ mode.halting \/ mode.halted \/ mode.asleep)

\* A halt request drains the pipeline and halts the hart, asleep or not.
HaltCompletes == mode.halting ~> mode.halted

\* No order of redirects, traps, sleeps and halt requests leaves the core
\* neither fetching nor halted.
FrontEndLives == FetchProgress /\ HaltCompletes

\* "An external halt enters Debug Mode only after all in-flight instructions and
\* memory responses drain" (riscv_core.sv): no instruction is in the pipeline of
\* a halted hart.
HaltDrains == mode.halted => Drained

\* "When the pipeline drains, pc_q holds the address of the next instruction that
\* would have been fetched -- exactly what the Debug spec expects in DPC"
\* (if_stage.sv), for an entry that found nothing on its way to IF/ID.
DpcIsNext ==
  [][~mode.halted /\ mode'.halted /\ ifid' = {} => csr'.dpc = golden'.pc]_feVars

\* "An IMEM DBus or boot transaction stalls instruction fetch until that
\* transaction completes" (memory architecture specification): such a transaction
\* delays the program and does nothing else to it.
ContentionOnlyStalls == ExecutedInOrder
=============================================================================
