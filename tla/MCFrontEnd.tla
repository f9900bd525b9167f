----------------------------- MODULE MCFrontEnd -----------------------------
(***************************************************************************)
(* A program of sixteen halfwords.  32-bit instructions start on both kinds*)
(* of halfword, so they are fetched whole, cut across two words, and chained*)
(* one across the next; branches and jumps land on every kind of start; the*)
(* trap handler is an MRET at the end of the memory.                       *)
(*                                                                         *)
(*    0 C enable     1 W plain      3 C branch 7   4 W branch 1            *)
(*    6 C return 1 9 7 W wfi        9 W fence     11 C plain               *)
(*   12 W jump 0    14 W mret                                              *)
(***************************************************************************)
EXTENDS FrontEnd

MCCompressed == {0, 2, 3, 6, 8, 11}

MCKind == [h \in Halves |->
  CASE h = 0 -> "enable" [] h \in {3, 4} -> "branch" [] h = 6 -> "return"
    [] h = 7 -> "wfi" [] h = 9 -> "fence" [] h = 12 -> "jump" [] h = 14 -> "mret"
    [] OTHER -> "plain"]

MCTargets == [h \in Halves |->
  CASE h = 3 -> {7} [] h = 4 -> {1} [] h = 6 -> {1, 9} [] h = 12 -> {0}
    [] OTHER -> {}]

=============================================================================
