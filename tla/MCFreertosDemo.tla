--------------------------- MODULE MCFreertosDemo ---------------------------
(* The qualification image, with two polled and two interrupt-driven bytes;*)
(* or, when its tasks have ended, a program over the drivers' own calls,   *)
(* with two priorities and two thresholds.                                 *)
EXTENDS FreertosDemo, Bsp

AtRest ==
  /\ pc = [t \in Tasks |-> "end"] /\ wait = [t \in Tasks |-> "deleted"]
  /\ notified = FALSE /\ events = 0 /\ mutex = "none"
  /\ armed = FALSE /\ sliced = FALSE
  /\ done = Tasks /\ copy = [t \in Tasks |-> {}] /\ recorded = Tasks
  /\ spi = [busy |-> FALSE, done |-> FALSE, irqEn |-> FALSE, data |-> 0]
  /\ async = [active |-> FALSE, index |-> 0] /\ asyncDone = FALSE /\ rx = <<>>
  /\ timer = FALSE /\ irqs = {} /\ fault = FALSE /\ passed = TRUE

MCInit == BspInit /\ IF program = "none" THEN Init ELSE AtRest

MCNext == \/ Next /\ UNCHANGED bspVars
          \/ BspNext /\ UNCHANGED vars

MCSpec == MCInit /\ [][MCNext]_<<vars, bspVars>> /\ Fairness /\ BspFairness
=============================================================================
