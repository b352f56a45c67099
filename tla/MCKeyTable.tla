--------------------------- MODULE MCKeyTable ---------------------------
(* TLC instances of KeyTable: two threads; region A with two combinations of
   the same hash, region L whose name is too long, all in one entry of the
   fast cache; a budget of one key per region, one entry of region_keys and
   three arrays for the six that could be asked for. *)
EXTENDS KeyTable, TLC
CONSTANTS t1, t2, a1, a2, l, A, L

Pair == {t1, t2}
Apart == [t \in Pair |-> t]
Three == {a1, a2, l}
RegionNames == (a1 :> A) @@ (a2 :> A) @@ (l :> L)
Hashes == (a1 :> 1) @@ (a2 :> 1) @@ (l :> 2)
OneCell == [c \in Three |-> 1]
LongOnes == {L}
Swap == Permutations(Pair) \cup Permutations({a1, a2})
=============================================================================
