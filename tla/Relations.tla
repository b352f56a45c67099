---------------------------- MODULE Relations ----------------------------
(***************************************************************************)
(* What lib/runner.py makes of the trace of a process for the relations    *)
(* between states: at every trigger, in the order the markers fired, how   *)
(* often each region was entered before and the sum and last of its state, *)
(* over the triggers that began before and over those that ended before.   *)
(*                                                                         *)
(* A region has one declared state.  The reader walks two orders of the    *)
(* records at once, that of their begins and, with a pointer that only     *)
(* moves forward, that of their ends; SPEC.md has sets.  The state of a    *)
(* region is then sought as a sum of features with small coefficients,     *)
(* over columns of which constant ones and copies are dropped.             *)
(***************************************************************************)
EXTENDS RegionStack, SequencesExt, Ordering

CONSTANTS
  ValueOf,   \* the value of a key's declared state
  MaxTerms   \* exact_relations' max_terms

ASSUME ValuesAssumption == \A k \in Keys : ValueOf[k] \in Int
ASSUME TermsAssumption == MaxTerms \in Nat \ {0}
ASSUME KeysAssumption == IsFiniteSet(Keys)

RegionAt(r) == RegionOf[r.key]
Value(r) == ValueOf[r.key]

\* write_trace and load_traces_all: the records of all threads
Written == UNION {trace[t] : t \in Threads}

\* The order of their begins, and that of their ends, of equal ones that of their begins.
FiredBefore(r) == {p \in Written : p.seq < r.seq}
EndedBefore(r) == {p \in Written : p.end < r.end \/ (p.end = r.end /\ p.seq < r.seq)}

\* relation_lines sorts them by begin, ...
Fired_bug == InOrder([r \in Written |-> EndedBefore(r)])
Fired == InOrder([r \in Written |-> FiredBefore(r)])

\* ... feature_rows, stably, by end.
Ended == InOrder([r \in Written |-> EndedBefore(r)])

\* The loop of feature_rows: the features of trigger r, then r itself.  The pointer
\* into Ended stops at the first trigger that had not ended when r began.
Passed(ended, ei, r) ==
  LET ahead == {i \in ei + 1..Len(ended) : ended[i].end >= r.seq}
  IN  IF ahead = {} THEN Len(ended) ELSE Min(ahead) - 1

Walk(ended, acc, r) ==
  LET ei == Passed(ended, acc.ei, r)
      gone(x) == {i \in acc.ei + 1..ei : RegionAt(ended[i]) = x}
      cumend == [x \in Regions |->
                   acc.cumend[x] + SumFunction([i \in gone(x) |-> Value(ended[i])])]
  IN  [ei     |-> ei,
       rows   |-> Append(acc.rows, [count |-> acc.count, cum |-> acc.cum,
                                    cumend |-> cumend, last |-> acc.last]),
       count  |-> [acc.count EXCEPT ![RegionAt(r)] = @ + 1],
       cum    |-> [acc.cum EXCEPT ![RegionAt(r)] = @ + Value(r)],
       cumend |-> cumend,
       last   |-> [acc.last EXCEPT ![RegionAt(r)] = Value(r)]]

Nothing == [x \in Regions |-> 0]
Rows ==
  LET ended == Ended
      walk(acc, r) == Walk(ended, acc, r)
  IN  FoldLeft(walk, [ei |-> 0, rows |-> <<>>, count |-> Nothing, cum |-> Nothing,
                      cumend |-> Nothing, last |-> Nothing], Fired).rows

\* SPEC.md, Relationships: for a trigger r and every region x, count, cum and last are
\* over {r' : b(r') < b(r)} and cumend over {r' : e(r') < b(r)}.
FeatureAt(row, r) ==
  \A x \in Regions :
    LET of(S)  == {p \in S : RegionAt(p) = x}
        sum(S) == SumFunction([p \in S |-> Value(p)])
        began  == of({p \in Written : p.seq < r.seq})
        over   == of({p \in Written : p.end < r.seq})
    IN  row.count[x] = Cardinality(began) /\ row.cum[x] = sum(began)
        /\ row.cumend[x] = sum(over)
        /\ row.last[x] =
             IF began = {} THEN 0
             ELSE Value(CHOOSE p \in began : \A q \in began : q.seq <= p.seq)

\* The features of every trigger are those of SPEC.md, whichever threads the triggers
\* are of and however their frames were closed.
FeaturesAreSpec ==
  LET fired == Fired
      rows  == Rows
  IN  \A i \in 1..Len(fired) : FeatureAt(rows[i], fired[i])

-----------------------------------------------------------------------------
(***************************************************************************)
(* dedupe_columns and exact_relations, for the state of region r.          *)
(***************************************************************************)
\* The rows of r: its triggers' features and their own state, y.
Targets(r) ==
  LET fired == Fired
      rows  == Rows
  IN  [i \in {j \in 1..Len(fired) : RegionAt(fired[j]) = r} |->
         [f |-> rows[i], y |-> Value(fired[i])]]

\* The columns, in the order of their names.
Order == SetToSeq(Regions)
Features == <<"count", "cum", "cumend", "last">>
Column(target, n) == [i \in DOMAIN target |-> target[i].f[Features[n[2]]][Order[n[1]]]]
Columns == (1..Len(Order)) \X (1..4)
Earlier(m, n) == m[1] < n[1] \/ (m[1] = n[1] /\ m[2] < n[2])

Varies(col) == \E i, j \in DOMAIN col : col[i] # col[j]
Same_bug(c, d) == \E i \in DOMAIN c : c[i] = d[i]
Same(c, d) == c = d

\* dedupe_columns: of equal columns the first is kept, the others are its aliases.
Keep(col) ==
  {n \in Columns : Varies(col[n]) /\ \A m \in Columns : Earlier(m, n) => ~Same(col[m], col[n])}
Aliases(col, n) == {m \in Columns : Earlier(n, m) /\ Same(col[n], col[m])}

Coefs == {1, -1, 2, -2}
\* What is left of y, taking from it the columns of cs so many times.
Left(target, col, cs) ==
  {target[i].y - SumFunction([n \in DOMAIN cs |-> cs[n] * col[n][i]]) : i \in DOMAIN target}
Holds(target, col, cs) == Cardinality(Left(target, col, cs)) = 1
Sums(names, k) == UNION {[c -> Coefs] : c \in kSubset(k, names)}

\* exact_relations: all with the smallest number of terms there is one for.
Exact(target, col) ==
  LET exact(k) == {cs \in Sums(Keep(col), k) : Holds(target, col, cs)}
      some     == {k \in 1..MaxTerms : exact(k) # {}}
  IN  IF some = {} THEN {} ELSE exact(Min(some))

\* A relation as it is printed, with any term read as one of its aliases.
Readings(col, cs) ==
  {[m \in {g[n] : n \in DOMAIN cs} |-> cs[CHOOSE n \in DOMAIN cs : g[n] = m]] :
     g \in {h \in [DOMAIN cs -> Columns] :
              \A n \in DOMAIN cs : h[n] \in {n} \cup Aliases(col, n)}}

\* A relation that is printed holds at every trigger, by whichever of the names
\* given for its terms (README.md, SPEC.md R1); and if the state is a sum of different
\* features, kept or not, then one is found: dropping columns loses none.
RelationsExact ==
  alive = {} /\ AllIdle =>
    \A r \in Regions :
      LET target == Targets(r)
          col    == [n \in Columns |-> Column(target, n)]
          found  == Exact(target, col)
          apart(cs) == \A m, n \in DOMAIN cs : m # n => col[m] # col[n]
      IN  Varies([i \in DOMAIN target |-> target[i].y]) =>
            /\ \A cs \in found : \A alt \in Readings(col, cs) : Holds(target, col, alt)
            /\ (\E k \in 1..MaxTerms : \E cs \in Sums(Columns, k) :
                  apart(cs) /\ Holds(target, col, cs))
                 => found # {}
=============================================================================
