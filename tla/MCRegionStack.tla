------------------------- MODULE MCRegionStack -------------------------
(* A TLC instance of RegionStack alone: one thread, two regions of one key each,
   stacks of two frames, so that a third begin overflows. *)
EXTENDS RegionStack, TLC
CONSTANTS t1, a1, b1, A, B

One == {t1}
TwoKeys == {a1, b1}
TwoNames == (a1 :> A) @@ (b1 :> B)
=============================================================================
