------------------------------ MODULE Snippets ------------------------------
(***************************************************************************)
(* Cutting text to size: snippet.go, and Render of snapshot.go which cuts  *)
(* a session snapshot to a token budget.                                   *)
(*                                                                         *)
(* A text is a sequence of bytes of four classes: "w" a letter, " " a      *)
(* space, "n" another white space and "." a sentence end.  Offsets are     *)
(* Go's: byte i of text c is At(c, i), from 0.  A cut is a pair            *)
(* <<start, end>>, empty when start = end.                                 *)
(***************************************************************************)
EXTENDS Integers, Sequences, FiniteSets, SequencesExt

CONSTANT SentenceRange   \* sentenceSearchRange, how far a cut looks for a sentence end

ASSUME SentenceRangeAssumption == SentenceRange \in Nat

At(c, i) == c[i + 1]

isSentenceEnd(c, i) == At(c, i) = "."

isWordBoundary(c, i) == i <= 0 \/ i >= Len(c) \/ At(c, i - 1) = " " \/ At(c, i) = " "

LOCAL Least(S, default) == IF S = {} THEN default ELSE Min(S)
LOCAL Greatest(S, default) == IF S = {} THEN default ELSE Max(S)
LOCAL Lower(a, b) == IF a < b THEN a ELSE b
LOCAL Higher(a, b) == IF a > b THEN a ELSE b

\* The start of the cut, moved forward: behind a sentence end close by, else
\* to the next word boundary and over the spaces there.
TrimStartOf(c, start, end) ==
  LET limit == Lower(start + SentenceRange, end)
      ends == {i \in start..(limit - 1): isSentenceEnd(c, i) /\ i + 1 < Len(c) /\ At(c, i + 1) = " "}
      word == Least({j \in start..(end - 1): isWordBoundary(c, j)}, end)
  IN CASE start <= 0 -> start
       [] start > 0 /\ ends # {} -> Min(ends) + 2
       [] OTHER -> Least({j \in word..(end - 1): At(c, j) # " "}, end)

\* Mutant of TrimEndOf: one byte past the sentence end.
TrimEndPast(c, start, end) ==
  LET ends == {i \in Higher(end - SentenceRange, start)..(end - 1): isSentenceEnd(c, i)}
  IN CASE end >= Len(c) -> end
       [] end < Len(c) /\ ends # {} -> Max(ends) + 2
       [] OTHER -> Greatest({j \in (start + 1)..end: isWordBoundary(c, j)}, Lower(start, end))

\* The end of the cut, moved back: onto a sentence end close by, else to a
\* word boundary.
TrimEndOf(c, start, end) ==
  LET ends == {i \in Higher(end - SentenceRange, start)..(end - 1): isSentenceEnd(c, i)}
  IN CASE end >= Len(c) -> end
       [] end < Len(c) /\ ends # {} -> Max(ends) + 1
       [] OTHER -> Greatest({j \in (start + 1)..end: isWordBoundary(c, j)}, Lower(start, end))

trimToWordBoundary(c, start, end) ==
  IF start <= 0 /\ end >= Len(c) THEN <<0, Len(c)>>
  ELSE LET s == TrimStartOf(c, start, end)
           e == TrimEndOf(c, s, end)
           t == Greatest({j \in (s + 1)..e: At(c, j - 1) # " "}, s)
       IN IF s >= e THEN <<s, s>> ELSE <<s, t>>

\* The window of some match that touches most matches; the first of them.
densestClusterCenter(positions, window) ==
  LET Touches(p, q) == q[1] < p[1] + window /\ q[2] > p[1]
      Inside(p, q) == q[1] >= p[1] /\ q[2] <= p[1] + window
      Count(i) == Cardinality({k \in 1..Len(positions):
                    Inside(positions[i], positions[k]) \/ Touches(positions[i], positions[k])})
      best == CHOOSE i \in 1..Len(positions):
                /\ \A k \in 1..Len(positions): Count(k) <= Count(i)
                /\ \A k \in 1..(i - 1): Count(k) < Count(i)
  IN positions[best][1] + window \div 2

\* A match clipped to the text.
Clipped(c, p) == <<Higher(p[1], 0), Lower(p[2], Len(c))>>

ExtractSnippet(c, positions, max) ==
  LET valid == SelectSeq([i \in 1..Len(positions) |-> Clipped(c, positions[i])],
                         LAMBDA p: p[1] < Len(c) /\ p[2] > p[1])
      center == IF Len(valid) = 1 THEN (valid[1][1] + valid[1][2]) \div 2
                ELSE densestClusterCenter(valid, max)
      from == center - (max \div 2)
      start == IF from < 0 THEN 0
               ELSE IF from + max > Len(c) THEN Higher(Len(c) - max, 0) ELSE from
  IN CASE Len(c) <= max -> <<0, Len(c)>>
       [] Len(c) > max /\ valid = <<>> -> trimToWordBoundary(c, 0, max)
       [] OTHER -> trimToWordBoundary(c, start, Lower(start + max, Len(c)))

\* One token per four bytes, rounded up.
EstimateTokens(n) == (n + 3) \div 4

\* How many bytes of the text stay: up to the last white space within the
\* budget, or the whole budget when there is none after the first byte.
TrimToTokenBudget(c, maxTokens) ==
  LET maxBytes == 4 * maxTokens
      spaces == {j \in 1..maxBytes: At(c, j) \in {" ", "n"}}
  IN CASE maxTokens <= 0 -> 0
       [] maxTokens > 0 /\ Len(c) <= maxBytes -> Len(c)
       [] OTHER -> IF spaces = {} THEN maxBytes ELSE Max(spaces)

\* What the first of some texts cost, by their lengths.
Costs(lens) ==
  LET cost[n \in 0..Len(lens)] == IF n = 0 THEN 0 ELSE cost[n - 1] + EstimateTokens(lens[n])
  IN cost

(***************************************************************************)
(* Render: sections in priority order while they fit the budget, the first *)
(* that does not fit trimmed and the last one written.  The result is the  *)
(* number of bytes written of each section.                                *)
(***************************************************************************)
Render(sections, maxTokens) ==
  LET used == Costs([i \in 1..Len(sections) |-> Len(sections[i])])
      whole == IF maxTokens <= 0 THEN Len(sections)
               ELSE Max({n \in 0..Len(sections): \A k \in 1..n: used[k] <= maxTokens})
      rest == IF whole = Len(sections) THEN 0
              ELSE TrimToTokenBudget(sections[whole + 1], maxTokens - used[whole])
  IN [i \in 1..(IF rest = 0 THEN whole ELSE whole + 1) |->
        IF i <= whole THEN Len(sections[i]) ELSE rest]

=============================================================================
