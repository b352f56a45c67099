-------------------------- MODULE MCLateAttach --------------------------
(* TLC instances of LateAttach: two threads of three begins each, so that a
   begin can be lost below one that is seen, and one more can follow. *)
EXTENDS LateAttach
CONSTANTS t1, t2

Pair == {t1, t2}
=============================================================================
