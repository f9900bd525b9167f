---------------------------- MODULE MCBareMetal ----------------------------
(* All images; digits to the base four, a clock that carries twice and a   *)
(* tick every two of its steps.  Or, when no image sleeps, the transform   *)
(* of the arithmetic examples, with eight points over the 49 complex       *)
(* numbers modulo 7, of impulses, or none, in the real and imaginary part. *)
(* Or, when no program is modelled, the System SRAM with any requests of   *)
(* the core and of the DMA channel: two banks, words 0 and 2 in the first  *)
(* and word 1 in the second; stores go to word 0 and change it once, words *)
(* 1 and 2 keep values that tell them apart.                               *)
EXTENDS BareMetal, Fft, SystemSram

MCInputs == {[j \in 0 .. 7 |-> [re |-> IF j = k THEN 1 ELSE 0,
                                im |-> IF j = l THEN 2 ELSE 0]] : k, l \in 0 .. 8}
MCRoot == [re |-> 2, im |-> 5]

MCAddrs == {0, 1, 2}
MCData == {0, 1, 2}
MCInitMem == [a \in MCAddrs |-> a]
MCStores == {<<0, 1>>}

AtRest ==
  /\ image = "none" /\ pc = [main |-> "pass", handler |-> "none"]
  /\ asleep = FALSE /\ mie = FALSE
  /\ mtime = MaxTime /\ cmp = [hi |-> Base - 1, lo |-> Base - 1]
  /\ read = [hi |-> 0, lo |-> 0]
  /\ deadline = Base * Base - 1 /\ asked = 0
  /\ counted = 0 /\ last = 0 /\ shown = 0
  /\ channel = "idle" /\ pending = FALSE /\ completion = FALSE

NotLoaded ==
  /\ fftIn = [k \in Indices |-> [re |-> 0, im |-> 0]]
  /\ fftRe = [k \in Indices |-> 0] /\ fftIm = [k \in Indices |-> 0]
  /\ fftPc = "none" /\ index = 0
  /\ loop = [size |-> 0, base |-> 0, offset |-> 0] /\ mismatches = 0

\* No program runs beside the masters of System SRAM, and the other way round.
NoProgram == image = "none" /\ fftPc = "none"

MCInit == Init /\ \/ ImageInit /\ NotLoaded
                  \/ AtRest /\ FftInit
                  \/ AtRest /\ NotLoaded

MCNext == \/ ImageNext /\ UNCHANGED <<fftVars, vars>>
          \/ FftNext /\ UNCHANGED <<imageVars, vars>>
          \/ NoProgram /\ Clock /\ UNCHANGED <<imageVars, fftVars>>

MCSpec == /\ MCInit /\ [][MCNext]_<<imageVars, fftVars, vars>>
          /\ ImageFairness /\ WF_vars(NoProgram /\ Clock)
=============================================================================
