---------------------------- MODULE ExitReport ----------------------------
(***************************************************************************)
(* What client/drperf.c makes of the counts of a process when it exits:    *)
(* write_key folds the slots of a key into sums per module and per symbol  *)
(* and lists the largest symbols.  A block gets a symbol from the debug    *)
(* information, or the nearest one before it, through a table in which     *)
(* symbols met before are found again; all keys share the table.           *)
(*                                                                         *)
(* The process has one thread when this runs, so the report is a function  *)
(* of the state in which Exit left the counters.                           *)
(***************************************************************************)
EXTENDS BlockCounts, SequencesExt

CONSTANTS
  Located,  \* drsym_lookup_address: [name, start, end] for a module's name and an
            \* offset, or NoSymbol
  Listing,  \* drsym_enumerate_symbols_ex: a module's symbols in any order
  TopCap,   \* opt_top
  NoSymbol

ASSUME TopAssumption == TopCap \in Nat \ {0}

\* What debug information gives; a module's file begins with its header, so no symbol
\* starts at offset 0, which stands for none in sym_t.
SymbolInfo == [name : STRING, start : Nat \ {0}, end : Nat]
ASSUME DebugAssumption ==
  /\ Offsets \subseteq Nat /\ NoSymbol \notin SymbolInfo
  /\ \A f \in Files \ Generated :
       /\ \A o \in Offsets : Located[NameOf[f]][o] \in SymbolInfo \cup {NoSymbol}
       /\ NameOf[f] \in DOMAIN Listing /\ Listing[NameOf[f]] \in Seq(SymbolInfo)

-----------------------------------------------------------------------------
(***************************************************************************)
(* sym_index_for_slot                                                      *)
(***************************************************************************)
\* msym_cmp: a listing in the order of the offsets; qsort leaves equal ones in any.
Sorts(order, symbols) ==
  LET all == 1..Len(symbols)
  IN  /\ {order[i] : i \in all} = all
      /\ \A i, j \in all : i < j => symbols[order[i]].start <= symbols[order[j]].start
Sorted(symbols) ==
  LET order == CHOOSE g \in [1..Len(symbols) -> 1..Len(symbols)] : Sorts(g, symbols)
  IN  [i \in 1..Len(symbols) |-> symbols[order[i]]]
ModSyms == [n \in DOMAIN Listing |-> Sorted(Listing[n])]

\* nearest_symbol: the bisection is over after as many rounds as there are symbols.
Nearest(n, o) ==
  LET syms == ModSyms[n]
      halve(b, i) ==
        LET mid == (b[1] + b[2] + 1) \div 2
        IN  IF b[1] >= b[2] THEN b
            ELSE IF syms[mid].start <= o THEN <<mid, b[2]>> ELSE <<b[1], mid - 1>>
      found == FoldLeft(halve, <<1, Len(syms)>>, [i \in 1..Len(syms) |-> i])
  IN  IF syms = <<>> \/ syms[1].start > o THEN NoSymbol ELSE syms[found[1]]

\* A symbol of the report; unsure is the "+?" after its name.
Entry(mod, start, name, unsure) ==
  [mod |-> mod, start |-> start, name |-> name, unsure |-> unsure]

Described(p, s) ==
  LET at   == slots[p][s]
      mod  == modules[p][at.mod]
      o    == at.pc[2]
      info == Located[mod][o]
      near == Nearest(mod, o)
  IN  IF at.mod = NoPlace THEN Entry(NoPlace, 0, "<no module>", FALSE)
      ELSE IF info # NoSymbol
           THEN Entry(at.mod, info.start, info.name, info.end > info.start /\ o >= info.end)
      ELSE IF near # NoSymbol THEN Entry(at.mod, near.start, near.name, TRUE)
      ELSE Entry(at.mod, 0, "<no symbol>", FALSE)

\* kbuf: the string by which a symbol met before is found.
KeyOf_bug(e) == <<e.mod, IF e.start = 0 THEN <<e.name, e.unsure>> ELSE <<>>>>
KeyOf(e) == <<e.mod, e.start, IF e.start = 0 THEN <<e.name, e.unsure>> ELSE <<>>>>

\* One slot of a key, in the loop of write_key: an entry for it unless it has one, an old
\* one if there is one of its key.  of is slot_sym, with 0 for no entry.
Ask(p, k, s, acc) ==
  LET e == Described(p, s)
      known == {i \in 1..Len(acc.syms) : KeyOf(acc.syms[i]) = KeyOf(e)}
      n == IF known # {} THEN CHOOSE i \in known : TRUE ELSE Len(acc.syms) + 1
  IN  IF s \notin Listed(p, k) \/ acc.of[s] # 0 THEN acc
      ELSE [syms |-> IF known # {} THEN acc.syms ELSE Append(acc.syms, e),
            of   |-> [acc.of EXCEPT ![s] = n]]

\* The loop over the slots of a key, and the one over the keys.
AskAll(p, k, acc) ==
  LET ask(a, s) == Ask(p, k, s, a)
  IN  FoldLeft(ask, acc, [s \in 1..Len(slots[p]) |-> s])
Symbolize(p) ==
  LET key(a, i) == AskAll(p, keys[p][i], a)
  IN  FoldLeft(key, [syms |-> <<>>, of |-> [s \in 1..Len(slots[p]) |-> 0]],
               [i \in 1..Len(keys[p]) |-> i])

-----------------------------------------------------------------------------
(***************************************************************************)
(* write_key                                                               *)
(***************************************************************************)
\* sym_sum, after the loop over the slots of key k: the sum of every symbol.
SumsBy(all, p, k) ==
  [i \in 1..Len(all.syms) |->
     SumFunction([s \in {u \in Listed(p, k) : all.of[u] = i} |-> vec[p][k][s]])]
SymSums(p, k) == SumsBy(Symbolize(p), p, k)

\* topn_insert: from the end, past the entries that are smaller.
Passes_bug(c, d) == c > d
Passes(c, d) == c < d
TopInsert(top, i, n) ==
  LET kept == IF Len(top) < TopCap THEN Len(top) ELSE TopCap - 1
      stay == {j \in 1..kept : ~Passes(top[j].count, n)}
      at == IF stay = {} THEN 1 ELSE Max(stay) + 1
  IN  IF Len(top) = TopCap /\ n <= top[TopCap].count THEN top
      ELSE [j \in 1..kept + 1 |-> IF j < at THEN top[j]
                                  ELSE IF j = at THEN [idx |-> i, count |-> n] ELSE top[j - 1]]

TopOf(sums) ==
  LET insert(top, i) == IF sums[i] = 0 THEN top ELSE TopInsert(top, i, sums[i])
  IN  FoldLeft(insert, <<>>, [i \in 1..Len(sums) |-> i])

-----------------------------------------------------------------------------
Reported == {m \in Processes \X (1..Cardinality(Keys)) :
               now > m[1] /\ m[2] <= Len(keys[m[1]])}

\* What the debug information says of a block when no other was asked for: the
\* symbol it lies in, else the last that starts at or before it.
Home(p, s) ==
  LET at == slots[p][s]
      mod == modules[p][at.mod]
      before == {i \in 1..Len(Listing[mod]) : Listing[mod][i].start <= at.pc[2]}
      start == IF Located[mod][at.pc[2]] # NoSymbol THEN Located[mod][at.pc[2]].start
               ELSE IF before = {} THEN -1
               ELSE Max({Listing[mod][i].start : i \in before})
  IN  IF at.mod = NoPlace THEN <<NoPlace, 0>> ELSE <<at.mod, start>>

\* Symbols and sums in which the sum of a block's symbol is what the blocks of its home ran.
SumsAt(of, sums, p, k) ==
  \A s \in Listed(p, k) :
    sums[of[s]] = SumFunction([u \in {t \in Listed(p, k) : Home(p, t) = Home(p, s)} |-> vec[p][k][u]])

\* What a key's report gives a function is what its blocks ran, although a slot gets
\* the entry of whatever slot first asked for one of its key, under another region.
SymbolsExact ==
  \A m \in Reported :
    LET k == keys[m[1]][m[2]]
    IN  SumsAt(Symbolize(m[1]).of, SymSums(m[1], k), m[1], k)

\* What it is for a list to be the largest entries of sums.
Largest(sums, top) ==
  LET all == {i \in 1..Len(sums) : sums[i] # 0}
      shown == {top[j].idx : j \in 1..Len(top)}
  IN  /\ Len(top) = Min({TopCap, Cardinality(all)}) /\ Cardinality(shown) = Len(top)
      /\ \A j \in 1..Len(top) : top[j].count = sums[top[j].idx]
      /\ \A i, j \in 1..Len(top) : i < j => top[i].count >= top[j].count
      /\ \A i \in all \ shown, j \in 1..Len(top) : sums[i] <= top[j].count
LargestOf(sums) == Largest(sums, TopOf(sums))

\* The list of a key's symbols is its largest: sorted, and complete when it has room.
TopIsLargest == \A m \in Reported : LargestOf(SymSums(m[1], keys[m[1]][m[2]]))
=============================================================================
