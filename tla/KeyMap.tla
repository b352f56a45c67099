----------------------------- MODULE KeyMap -----------------------------
(***************************************************************************)
(* What the keys of client/drperf.c promise the result reader: each        *)
(* combination a begin call names is counted under one key, its own or the *)
(* bucket of its region, for the whole run and for every thread, and no    *)
(* two keys have the same name.  KeyTable, with its two caches per thread, *)
(* its lock and its budget, implements this.                               *)
(***************************************************************************)
EXTENDS Naturals, Sequences

CONSTANTS Threads, Combos, RegionOf, NoName

VARIABLES
  names,   \* the names of the keys made, in the order in which they were made
  map,     \* map[c]: the name under which combination c is counted
  got      \* got[t]: the key the last begin of t got, 0 for none

Init ==
  /\ names = <<>>
  /\ map = [c \in Combos |-> NoName]
  /\ got = [t \in Threads |-> 0]

MayBeNamed(c) == IF map[c] = NoName THEN {c, RegionOf[c]} ELSE {map[c]}

\* A begin of thread t that names c: the key of that name, made if there is
\* none yet.
Ask(t, c) ==
  \E n \in MayBeNamed(c) :
    /\ map' = [map EXCEPT ![c] = n]
    /\ \/ \E k \in 1..Len(names) :
            names[k] = n /\ names' = names /\ got' = [got EXCEPT ![t] = k]
       \/ /\ \A k \in 1..Len(names) : names[k] # n
          /\ names' = Append(names, n)
          /\ got' = [got EXCEPT ![t] = Len(names) + 1]

Next == \E t \in Threads, c \in Combos : Ask(t, c)

Spec == Init /\ [][Next]_<<names, map, got>>
=============================================================================
