---------------------------- MODULE MCDmaSystem ----------------------------
(***************************************************************************)
(* A small System SRAM: three descriptors at 64, 96 and 128, and twelve    *)
(* payload words from 160 to 204.  Word 200 may answer with an error, and  *)
(* so may the second descriptor.                                           *)
(***************************************************************************)
EXTENDS DmaSystem, TLC

Words == {64 + 4 * i : i \in 0 .. 35}
MCDescAddrs == {64, 96, 128}
\* Descriptor mode starts at the first descriptor, or is refused.
MCHeads == {64, 0}

Inc == 24   \* SRC_INC | DST_INC
D(next, src, dst, len, ctrl) ==
  [next |-> next, src |-> src, dst |-> dst, len |-> len, ctrl |-> ctrl]

\* The first descriptor links on, ends, is malformed (END with a successor), or
\* links back to itself.  The second links on to the third; both are given
\* from the start.
MCTemplates ==
  (64 :> {D(96, 160, 180, 8, Inc + 2), D(0, 164, 196, 8, Inc + 4),
          D(96, 160, 180, 8, Inc + 4), D(64, 160, 180, 4, Inc + 2)}) @@
  (96 :> {}) @@ (128 :> {})

MCMemory ==
  (96 :> 128 @@ 100 :> 168 @@ 104 :> 188 @@ 108 :> 4 @@ 112 :> Inc + 1 @@
   132 :> 172 @@ 136 :> 192 @@ 140 :> 4 @@ 144 :> Inc + 7)
  @@ [w \in Words |-> IF w < 160 THEN 0 ELSE w]

\* A copy, and a byte stream of five bytes.
MCTransfers ==
  {[src |-> 160, dst |-> 184, len |-> 8],
   [src |-> 164, dst |-> 4,   len |-> 5]}

\* A chain whose first and third descriptor raise an event.
MCChain == (64 :> {D(96, 160, 180, 8, Inc + 2)}) @@ (96 :> {}) @@ (128 :> {})

MCErrWords == {200, 96, 112, 120}

=============================================================================
