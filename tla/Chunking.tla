------------------------------ MODULE Chunking ------------------------------
(***************************************************************************)
(* How the library cuts a document into chunks: chunk.go, for the plain    *)
(* text and the markdown formats.                                          *)
(*                                                                         *)
(* A plain text document is the sequence of its paragraphs, what           *)
(* strings.Split(content, "\n\n") returns; a paragraph is a record         *)
(* [key, len, fence]: who it is, its bytes once TrimSpace has run (0 for a *)
(* blank one) and whether it holds a ``` somewhere.  A markdown document   *)
(* is the sequence of its lines [kind, lvl, n]: a heading of some level,   *)
(* "bare" when it has no text, a text, which a "tick" has ``` in the       *)
(* middle of, a blank line or a ``` fence, with its bytes.  Blank lines    *)
(* have no bytes, no line has trailing white space, and headings are the   *)
(* ones that begin with #.                                                 *)
(*                                                                         *)
(* The text of a chunk is a sequence of pieces <<key, from, to>>, the      *)
(* bytes from..to-1 of that paragraph, joined by the two-byte separator.   *)
(***************************************************************************)
EXTENDS Integers, Sequences, FiniteSets, SequencesExt

\* len("\n\n")
Separator == 2

\* The bytes of pieces once they are joined.
Joined(pieces) ==
  IF pieces = <<>> THEN 0
  ELSE FoldLeft(LAMBDA acc, p: acc + p[3] - p[2], 0, pieces) + Separator * (Len(pieces) - 1)

Chunk(pieces, start, path, type) ==
  [pieces |-> pieces, start |-> start, end |-> start + Joined(pieces),
   path |-> path, type |-> type]

\* A paragraph longer than a chunk, cut every max bytes.
ForceSplit(p, start, max) ==
  [k \in 1..((p.len + max - 1) \div max) |->
     Chunk(<<<<p.key, (k - 1) * max, IF k * max > p.len THEN p.len ELSE k * max>>>>,
           start + (k - 1) * max, <<>>, "prose")]

\* The paragraph held back so far becomes a chunk.
Flush(s) ==
  [s EXCEPT !.out = Append(@, Chunk(s.cur, s.start, <<>>, "prose")), !.cur = <<>>]

(***************************************************************************)
(* The loop that chunkPlainText and splitOnParagraphs share: paragraphs    *)
(* are held back and joined while they fit into max bytes, a longer one is *)
(* cut, or kept whole when it holds a ```.  gap[i] is what the code adds   *)
(* to its offset after paragraph i besides the paragraph's own bytes.      *)
(***************************************************************************)
Pack(paras, max, gap) ==
  LET Step(s, i) ==
        LET p == paras[i]
            full == s.cur # <<>> /\ Joined(s.cur) + Separator + p.len > max
            t == IF full THEN Flush(s) ELSE s
            whole == <<p.key, 0, p.len>>
        IN CASE p.len = 0 -> [s EXCEPT !.offset = @ + gap[i]]
             [] p.len # 0 /\ t.cur = <<>> /\ p.len > max /\ ~p.fence ->
                  [t EXCEPT !.out = @ \o ForceSplit(p, t.offset, max),
                            !.offset = @ + p.len + gap[i], !.start = t.offset]
             [] p.len # 0 /\ t.cur = <<>> /\ (p.len <= max \/ p.fence) ->
                  [t EXCEPT !.cur = <<whole>>, !.start = t.offset,
                            !.offset = @ + p.len + gap[i]]
             [] OTHER ->
                  [t EXCEPT !.cur = Append(@, whole),
                            !.offset = @ + Separator + p.len + gap[i]]
      s == FoldLeft(Step, [cur |-> <<>>, offset |-> 0, start |-> 0, out |-> <<>>],
                    [i \in 1..Len(paras) |-> i])
  IN IF s.cur = <<>> THEN s.out ELSE Flush(s).out

chunkPlainText(paras, max) ==
  Pack([i \in 1..Len(paras) |-> [paras[i] EXCEPT !.fence = FALSE]], max,
       [i \in 1..Len(paras) |-> IF i < Len(paras) THEN Separator ELSE 0])

-----------------------------------------------------------------------------
(* Markdown. *)

Blank(l) == l.kind = "blank"

\* Inside a fenced block before line i: an odd number of fences from line a on.
InFence(lines, a, i) == Cardinality({j \in a..(i - 1): lines[j].kind = "fence"}) % 2 = 1

\* The bytes of lines a..b joined by newlines.
Bytes(lines, a, b) ==
  IF b < a THEN 0
  ELSE FoldLeft(LAMBDA acc, i: acc + lines[i].n + 1, -1, [k \in 1..(b - a + 1) |-> a + k - 1])

\* TrimRight and TrimSpace of a range of lines: the blank ones at its ends go.
TrimEnd(lines, a, b) ==
  LET full == {i \in a..b: ~Blank(lines[i])} IN IF full = {} THEN a - 1 ELSE Max(full)
TrimStart(lines, a, b) ==
  LET full == {i \in a..b: ~Blank(lines[i])} IN IF full = {} THEN b + 1 ELSE Min(full)

\* The headings goldmark reports: a heading line inside a fence is code.
Headings(lines) ==
  SelectSeq([i \in 1..Len(lines) |-> i],
            LAMBDA i: lines[i].kind \in {"head", "bare"} /\ ~InFence(lines, 1, i))

\* The line at which the code takes a heading to begin: goldmark reports no
\* lines of a heading without text, whose position then stays 0.
Position(lines, h) == IF lines[h].kind = "bare" THEN 1 ELSE h

\* The stack of open headings once heading h has been pushed: everything from
\* the innermost heading of its level or above on is popped.
PushHeading(lines, stack, h) ==
  LET parents == {k \in 1..Len(stack): lines[stack[k]].lvl < lines[h].lvl}
  IN Append(SubSeq(stack, 1, IF parents = {} THEN 0 ELSE Max(parents)), h)

\* "code" when more than half of the bytes lie on lines inside fences.
detectContentType(lines, a, b) ==
  LET code == {i \in a..b: lines[i].kind # "fence" /\ InFence(lines, a, i)}
      codeBytes == FoldLeft(LAMBDA acc, i: IF i \in code THEN acc + lines[i].n + 1 ELSE acc,
                            0, [k \in 1..(b - a + 1) |-> a + k - 1])
  IN IF 2 * codeBytes > Bytes(lines, a, b) THEN "code" ELSE "prose"

Section(lines, a, b, path) ==
  LET e == TrimEnd(lines, a, b)
  IN [first |-> a, last |-> e, path |-> path, type |-> detectContentType(lines, a, e)]

\* The section of the k-th heading runs to the position of the next one.
SectionEnd(lines, hs, k) == IF k < Len(hs) THEN Position(lines, hs[k + 1]) - 1 ELSE Len(lines)

\* Slicing the source panics where the next position lies before.
SlicePanics(lines) ==
  LET hs == Headings(lines)
  IN \E k \in 1..Len(hs): SectionEnd(lines, hs, k) + 1 < Position(lines, hs[k])

\* One section per heading, unless it is empty, and the text before the first
\* position when there is some.
extractSections(lines) ==
  LET hs == Headings(lines)
      stacks == FoldLeft(LAMBDA acc, h:
                           Append(acc, PushHeading(lines, IF acc = <<>> THEN <<>> ELSE Last(acc), h)),
                         <<>>, hs)
      sections == [k \in 1..Len(hs) |->
                     Section(lines, Position(lines, hs[k]), SectionEnd(lines, hs, k), stacks[k])]
      before == IF hs = <<>> THEN 0 ELSE Position(lines, hs[1]) - 1
  IN (IF TrimEnd(lines, 1, before) > 0 THEN <<Section(lines, 1, before, <<>>)>> ELSE <<>>)
       \o SelectSeq(sections, LAMBDA sec: sec.last >= sec.first)

\* A paragraph made of the lines a..b.
LinePara(lines, a, b) ==
  [key |-> <<a, b>>, len |-> Bytes(lines, a, b),
   fence |-> \E i \in a..b: lines[i].kind \in {"fence", "tick"}]

(***************************************************************************)
(* splitPreservingCodeBlocks: a part ends at the second of two blank lines *)
(* outside fences; the first one is part of the text and then trimmed.  A  *)
(* blank line is skipped while the part is empty.                          *)
(***************************************************************************)
splitPreservingCodeBlocks(lines, a, b) ==
  LET Step(s, i) ==
        LET inFence == IF lines[i].kind = "fence" THEN ~s.inFence ELSE s.inFence
            empty == Blank(lines[i])
        IN IF ~inFence /\ empty /\ s.prevEmpty
           THEN [parts |-> IF s.cur = <<>> THEN s.parts
                           ELSE Append(s.parts, LinePara(lines, s.cur[1], TrimEnd(lines, s.cur[1], Last(s.cur)))),
                 cur |-> <<>>, inFence |-> inFence, prevEmpty |-> FALSE]
           ELSE [parts |-> s.parts,
                 cur |-> IF s.cur # <<>> \/ ~empty THEN Append(s.cur, i) ELSE s.cur,
                 inFence |-> inFence, prevEmpty |-> empty]
      s == FoldLeft(Step, [parts |-> <<>>, cur |-> <<>>, inFence |-> FALSE, prevEmpty |-> FALSE],
                    [k \in 1..(b - a + 1) |-> a + k - 1])
  IN IF s.cur = <<>> THEN s.parts
     ELSE Append(s.parts, LinePara(lines, s.cur[1], TrimEnd(lines, s.cur[1], Last(s.cur))))

splitOnParagraphs(lines, sec, max) ==
  LET parts == splitPreservingCodeBlocks(lines, sec.first, sec.last)
  IN Pack(parts, max, [i \in 1..Len(parts) |-> 0])

\* strings.Split(content, "\n\n") of a document given by its lines: a blank
\* line separates unless its newline belongs to the separator before it.
Paragraphs(lines) ==
  LET n == Len(lines)
      Take(S, j) == IF Blank(lines[j]) /\ j - 1 \notin S THEN S \cup {j} ELSE S
      seps == FoldLeft(Take, {}, [k \in 1..(IF n > 2 THEN n - 2 ELSE 0) |-> k + 1])
      cuts == <<0>> \o SetToSortSeq(seps, <) \o <<n + 1>>
  IN [k \in 1..(Len(cuts) - 1) |->
        LET a == cuts[k] + 1
            b == cuts[k + 1] - 1
        IN LinePara(lines, TrimStart(lines, a, b), TrimEnd(lines, a, b))]

\* The byte at which line a starts.
LineStart(lines, a) == IF a = 1 THEN 0 ELSE Bytes(lines, 1, a - 1) + 1

chunkMarkdown(lines, max) ==
  LET sections == extractSections(lines)
      ChunksOf(sec) ==
        LET at == LineStart(lines, sec.first)
            whole == <<sec.first, sec.last>>
            size == Bytes(lines, sec.first, sec.last)
        IN IF size <= max
           THEN <<Chunk(<<<<whole, 0, size>>>>, at, sec.path, sec.type)>>
           ELSE LET sub == splitOnParagraphs(lines, sec, max)
                IN [k \in 1..Len(sub) |-> [sub[k] EXCEPT !.start = @ + at, !.end = @ + at,
                                                         !.path = sec.path, !.type = sec.type]]
  IN IF sections = <<>> THEN chunkPlainText(Paragraphs(lines), max)
     ELSE FoldLeft(LAMBDA acc, sec: acc \o ChunksOf(sec), <<>>, sections)

=============================================================================
