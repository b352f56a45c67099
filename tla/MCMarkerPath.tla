-------------------------- MODULE MCMarkerPath --------------------------
(* TLC instances of MarkerPath: two threads, two keys.  Frames two deep where
   the leader's innermost key must change while it stays in a region, one
   deep for the two counterexamples. *)
EXTENDS MarkerPathInvariant
CONSTANTS t1, t2, a, b

Pair == {t1, t2}
One  == {t1}
TwoKeys == {a, b}
=============================================================================
