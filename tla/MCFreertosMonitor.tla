------------------------- MODULE MCFreertosMonitor -------------------------
(* The monitor with every command, three keys typed and a queue of two.    *)
EXTENDS FreertosMonitor
=============================================================================
