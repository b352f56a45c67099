---------------------------- MODULE RegionSwitch ----------------------------
(***************************************************************************)
(* bin/perfmark-regions, which takes the region blocks out of a Python     *)
(* file (turn_off) and puts them back in (turn_on), a block at a time.     *)
(*                                                                         *)
(* A file is a sequence of lines.  A line is indented by so many levels    *)
(* and is a statement, the header of some block, the header of a region,   *)
(* the line on which a region's header ends, or one of the comments that   *)
(* turn_off leaves.  A region's header ends on its own line, on the next   *)
(* one, or is followed by more text on its line, such as a comment.        *)
(* Regions that turn_off refuses to touch are blocks like any other.       *)
(***************************************************************************)
EXTENDS Naturals, SequencesExt

CONSTANTS
  MaxLines, \* bound: lines of the file
  MaxLevel  \* bound: levels of indentation

VARIABLES
  original, \* the file as written
  file,     \* the file
  text,     \* the lines main works on
  phase,    \* "edit", "off", "on" or "end"
  skipped   \* lines of the regions turn_off gave up
vars == <<original, file, text, phase, skipped>>

Kinds == {"code", "block", "region", "open", "noted", "close"}
Line(level, kind) == [level |-> level, kind |-> kind, was |-> <<>>]
END(level) == Line(level, "end")
OFF(level, line) == [level |-> level, kind |-> "off", was |-> line]

Headers == {"region", "open", "noted"} \* region headers
Comment(line) == line.kind \in {"off", "end"}
Ending == {"block", "region", "close"} \* lines whose text ends with a colon
Colon(line) == line.kind \in Ending \/ (line.kind = "off" /\ line.was.kind \in Ending)

\* ast.parse: a block is indented by a level and holds a statement.
Follows(l, m) ==
  /\ (l.kind = "open") = (m.kind = "close")
  /\ IF l.kind = "code" THEN m.level <= l.level
     ELSE m.level = IF l.kind = "close" THEN l.level ELSE l.level + 1
Parses(s) ==
  LET live == SelectSeq(s, LAMBDA l : ~Comment(l))
  IN  /\ live # <<>> => live[1].level = 0 /\ Last(live).kind = "code"
      /\ \A i \in 1..Len(live) - 1 : Follows(live[i], live[i + 1])

-----------------------------------------------------------------------------
(***************************************************************************)
(* turn_off                                                                *)
(***************************************************************************)
Untouched(s) == {i \in 1..Len(s) : s[i].kind \in Headers /\ <<i, s[i].level>> \notin skipped}
\* ast.walk: outer blocks first.
Target(s) ==
  CHOOSE i \in Untouched(s) : \A j \in Untouched(s) :
    s[i].level < s[j].level \/ (s[i].level = s[j].level /\ i <= j)

\* The last line of the statements in the block.
BodyEnd(s, i) ==
  Max({j \in i..Len(s) : ~Comment(s[j]) /\ \A k \in i + 1..j : s[k].level > s[i].level})
\* The first line from the header on that ends with a colon; the header when none does.
HeadEnd(s, i) ==
  LET ends == {j \in i..Len(s) : Colon(s[j])} IN IF ends = {} THEN i - 1 ELSE Min(ends)

Off(s, i) ==
  LET pad  == s[i].level
      head == [j \in 1..HeadEnd(s, i) - i + 1 |->
                 LET l == s[i + j - 1]
                 IN  OFF(pad, [l EXCEPT !.level = IF @ >= pad THEN @ - pad ELSE 0])]
      body == SubSeq(s, HeadEnd(s, i) + 1, BodyEnd(s, i))
  IN  SubSeq(s, 1, i - 1) \o head
        \o [j \in 1..Len(body) |-> [body[j] EXCEPT !.level = @ - 1]]
        \o <<END(pad)>> \o SubSeq(s, BodyEnd(s, i) + 1, Len(s))
Indented(s, i) == \A j \in HeadEnd(s, i) + 1..BodyEnd(s, i) : s[j].level > s[i].level

OffStep ==
  /\ phase = "off" /\ Parses(text) /\ Untouched(text) # {}
  /\ LET i == Target(text)
     IN  IF Indented(text, i)
         THEN text' = Off(text, i) /\ UNCHANGED skipped
         ELSE skipped' = skipped \cup {<<i, text[i].level>>} /\ UNCHANGED text
  /\ UNCHANGED <<original, file, phase>>

-----------------------------------------------------------------------------
(***************************************************************************)
(* turn_on                                                                 *)
(***************************************************************************)
Offs(s) == {i \in 1..Len(s) : s[i].kind = "off"}

\* The lines up to the END that closes what i opens, by counting.
On(s, i) ==
  LET past == {j \in i..Len(s) : s[j].kind # "off"}
      from == IF past = {} THEN Len(s) + 1 ELSE Min(past)
      depth(j) == Cardinality({k \in from..j - 1 : s[k].kind = "off"})
                    - Cardinality({k \in from..j - 1 : s[k].kind = "end"})
      ends == {j \in from..Len(s) : s[j].kind = "end" /\ depth(j) = 0}
      to   == IF ends = {} THEN Len(s) + 1 ELSE Min(ends)
  IN  SubSeq(s, 1, i - 1)
        \o [j \in 1..from - i |->
              [s[i + j - 1].was EXCEPT !.level = @ + s[i].level]]
        \o [j \in 1..to - from |-> [s[from + j - 1] EXCEPT !.level = @ + 1]]
        \o SubSeq(s, to + 1, Len(s))

OnStep ==
  /\ phase = "on" /\ Offs(text) # {}
  /\ text' = On(text, Min(Offs(text)))
  /\ UNCHANGED <<original, file, phase, skipped>>

-----------------------------------------------------------------------------
(***************************************************************************)
(* main: a file that no longer parses is not written.                      *)
(***************************************************************************)
Ended(next) ==
  /\ phase' = next
  /\ file' = IF Parses(text) THEN text ELSE file
  /\ text' = file'
  /\ skipped' = {}
  /\ UNCHANGED original

OffEnd == phase = "off" /\ (Parses(text) => Untouched(text) = {}) /\ Ended("on")
OnEnd  == phase = "on" /\ Offs(text) = {} /\ Ended("end")

\* The author writes the file, a line at a time, and then turns its regions off and on.
Write(line) ==
  /\ phase = "edit" /\ Len(text) < MaxLines
  /\ line.kind \in {"code", "close"} \/ line.level < MaxLevel
  /\ IF text = <<>> THEN line.level = 0 /\ line.kind # "close" ELSE Follows(Last(text), line)
  /\ text' = Append(text, line)
  /\ UNCHANGED <<original, file, phase, skipped>>
Save ==
  /\ phase = "edit" /\ Parses(text)
  /\ original' = text /\ file' = text /\ phase' = "off"
  /\ UNCHANGED <<text, skipped>>

Init ==
  /\ original = <<>> /\ file = <<>> /\ text = <<>> /\ phase = "edit" /\ skipped = {}

Next ==
  \/ \E level \in 0..MaxLevel, kind \in Kinds : Write(Line(level, kind))
  \/ Save \/ OffStep \/ OffEnd \/ OnStep \/ OnEnd
  \/ (phase = "end" \/ (phase = "edit" /\ Len(text) = MaxLines)) /\ UNCHANGED vars

Spec == Init /\ [][Next]_vars

-----------------------------------------------------------------------------
\* bin/perfmark-regions:23-24: off followed by on reproduces the file.
RoundTrip == phase = "end" => file = original
=============================================================================
