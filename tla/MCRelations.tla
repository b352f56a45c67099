--------------------------- MODULE MCRelations ---------------------------
(* TLC instances of RegionStack with its reader Relations.  One thread: region A
   with two keys (two values of its state) and region B; stacks of two frames, so
   that a third begin overflows; a trace of three records, so that a fourth is
   dropped.  Two threads: a key each of two regions, stacks of three frames, so that
   one end closes several. *)
EXTENDS Relations, TLC
CONSTANTS t1, t2, a1, a2, b1, A, B

One == {t1}
Pair == {t1, t2}
ThreeKeys == {a1, a2, b1}
TwoKeys == {a1, b1}
Names == (a1 :> A) @@ (a2 :> A) @@ (b1 :> B)
TwoNames == (a1 :> A) @@ (b1 :> B)
Values == (a1 :> 1) @@ (a2 :> 3) @@ (b1 :> 5)
=============================================================================
