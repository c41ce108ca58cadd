---------------------------- MODULE LibraryCalls ----------------------------
(***************************************************************************)
(* The library's pure exported functions as calls: ChunkContent on a       *)
(* document of some format, and ExtractSnippet and TrimToTokenBudget on a  *)
(* text.  A call is asked and then answered; what the answers promise is   *)
(* compared with reference definitions.                                    *)
(***************************************************************************)
EXTENDS Chunking, StructuredChunks, Snippets

VARIABLE call   \* [op, doc, max, pos, pc, out]: the call, its arguments, its answer

NoCall == [op |-> "none", pc |-> "done"]

\* ChunkContent by format.  Structured content that does not parse is cut as
\* plain text; "bad" stands for it, with the paragraphs of its text.
ChunkContent(op, doc, max) ==
  CASE op \in {"text", "bad"} -> chunkPlainText(doc, max)
    [] op = "markdown" -> chunkMarkdown(doc, max)
    [] op = "json" -> chunkJSON(doc, max)
    [] op = "yaml" -> chunkYAML(doc, max)

AnswerOf(c) ==
  CASE c.op = "snippet" -> ExtractSnippet(c.doc, c.pos, c.max)
    [] c.op = "trim" -> TrimToTokenBudget(c.doc, c.max)
    [] OTHER -> ChunkContent(c.op, c.doc, c.max)

Panics(c) == c.op = "markdown" /\ SlicePanics(c.doc)

Answer ==
  /\ call.pc = "asked"
  /\ call' = IF Panics(call) THEN [call EXCEPT !.pc = "panicked"]
             ELSE [call EXCEPT !.pc = "done", !.out = AnswerOf(call)]

Answered(ops) == call.pc = "done" /\ call.op \in ops

-----------------------------------------------------------------------------
(* What a plain text or markdown document holds, and what chunks hold.     *)

\* The pieces of the chunks in order.
Pieces(chunks) == FoldLeft(LAMBDA acc, c: acc \o c.pieces, <<>>, chunks)

\* The pieces cut at the paragraphs' whole ranges: consecutive, from 0 to len.
CoversInOrder(pieces, paras) ==
  LET full == SelectSeq(paras, LAMBDA p: p.len > 0)
      Glue(acc, x) == IF acc # <<>> /\ Last(acc)[1] = x[1] /\ Last(acc)[3] = x[2]
                      THEN Append(Front(acc), <<x[1], Last(acc)[2], x[3]>>)
                      ELSE Append(acc, x)
  IN FoldLeft(Glue, <<>>, pieces) = [i \in 1..Len(full) |-> <<full[i].key, 0, full[i].len>>]

\* The lines a chunk of a markdown document touches.
LinesOf(c) == UNION {p[1][1]..p[1][2]: p \in ToSet(c.pieces)}

\* The fenced blocks of a document: the line ranges from an opening fence to
\* its closing one, or to the end.
Fences(lines) ==
  {<<a, b>> \in (1..Len(lines)) \X (1..Len(lines)):
     /\ a < b /\ lines[a].kind = "fence" /\ ~InFence(lines, 1, a)
     /\ lines[b].kind = "fence" /\ \A j \in (a + 1)..(b - 1): lines[j].kind # "fence"}

\* The headings that enclose line h's section: the nearest heading above of
\* each level that no heading of that level or higher has closed since.
Ancestors(lines, h) ==
  LET hs == ToSet(Headings(lines))
  IN {g \in hs: g <= h /\ \A j \in hs: j > g /\ j <= h => lines[j].lvl > lines[g].lvl}

\* Neighbours: headings with none between them.
Follows(lines, g, h) ==
  LET hs == ToSet(Headings(lines)) IN g \in hs /\ h \in hs /\ g < h /\ hs \cap (g + 1)..(h - 1) = {}

\* Where line i is filed: a heading without text takes everything before it.
Filed(lines, i) ==
  LET hs == ToSet(Headings(lines))
      bare == {h \in hs: lines[h].kind = "bare"}
  IN IF bare # {} /\ ~\E h \in hs: Max(bare) < h /\ h <= i THEN Max(bare) ELSE i

(***************************************************************************)
(* ChunkContent loses nothing and repeats nothing of plain text and        *)
(* markdown.  Plain text: the chunks hold every paragraph in full, in      *)
(* order, in chunks of at most max bytes.  Markdown: the call panics just  *)
(* when a heading without text comes next after a heading with text that   *)
(* is not at the very start.  Otherwise every line that is not blank lies  *)
(* in some chunk, chunks of different paragraphs share no line, each chunk *)
(* is filed under exactly the headings that enclose it, or enclose the     *)
(* last heading without text where its line lies before that one's end, a  *)
(* fenced block is never split, and only a chunk with a ``` in it may      *)
(* exceed max bytes.                                                       *)
(***************************************************************************)
ChunksCoverTheText ==
  /\ call.pc # "asked" /\ call.op = "markdown" =>
       (call.pc = "panicked" <=>
          \E g \in 2..Len(call.doc): \E h \in 1..Len(call.doc):
            Follows(call.doc, g, h) /\ call.doc[g].kind = "head" /\ call.doc[h].kind = "bare")
  /\ Answered({"text", "bad"}) =>
       /\ CoversInOrder(Pieces(call.out), call.doc)
       /\ \A i \in 1..Len(call.out): Joined(call.out[i].pieces) <= call.max
  /\ Answered({"markdown"}) =>
       LET doc == call.doc
           out == call.out
           full == {i \in 1..Len(doc): ~Blank(doc[i])}
           Holds(i, c) == i \in LinesOf(c)
       IN /\ full \subseteq UNION {LinesOf(out[k]): k \in 1..Len(out)}
          /\ \A k, m \in 1..Len(out): k < m =>
               \/ Max(LinesOf(out[k])) < Min(LinesOf(out[m]))
               \/ out[k].pieces[1][1] = out[m].pieces[1][1] /\ out[k].pieces[1][3] <= out[m].pieces[1][2]
          /\ Headings(doc) # <<>> =>
               \A k \in 1..Len(out):
                 /\ ToSet(out[k].path) = Ancestors(doc, Filed(doc, Min(LinesOf(out[k]))))
                 /\ \A f \in Fences(doc):
                      f[1] \in LinesOf(out[k]) <=> f[2] \in LinesOf(out[k])
                 /\ Joined(out[k].pieces) > call.max =>
                      \E i \in LinesOf(out[k]): doc[i].kind \in {"fence", "tick"}

-----------------------------------------------------------------------------
RECURSIVE LeafPaths(_)

\* The places of a value's leaves; an empty container is a leaf.
LeafPaths(v) ==
  IF ~Splittable(v) THEN {<<>>}
  ELSE UNION {LET step == IF v.tag = "map" THEN k ELSE <<"idx", k - 1>>
              IN {<<step>> \o p: p \in LeafPaths(v.of[k])}: k \in DOMAIN v.of}

\* The value at a place.
ValueAt(v, path) ==
  FoldLeft(LAMBDA w, step: w.of[IF step[1] = "idx" THEN step[2] + 1 ELSE step], v, path)

\* The elements a chunk stands for: of its range those JSON has a text for.
InRange(doc, c) ==
  SetToSortSeq({i \in c.label[1]..c.label[2]: Marshals(ValueAt(doc, c.path).of[i + 1])}, <)

\* A chunk holds what its place in the document says.
HoldsItsPlace(doc, c) ==
  IF c.label = <<>> THEN c.items = <<ValueAt(doc, c.path)>>
  ELSE c.items = [i \in 1..Len(InRange(doc, c)) |-> ValueAt(doc, c.path).of[InRange(doc, c)[i] + 1]]

\* The leaves of a chunk.
Held(doc, c) ==
  IF c.label = <<>> THEN {c.path \o p: p \in LeafPaths(c.items[1])}
  ELSE UNION {{c.path \o <<<<"idx", InRange(doc, c)[i]>>>> \o p: p \in LeafPaths(c.items[i])}:
                i \in 1..Len(c.items)}

\* The entries or elements of a document that JSON has no text for, and the
\* leaves that are kept: the others', or all when none is left.
Lost(doc) == IF Splittable(doc) THEN {k \in DOMAIN doc.of: ~Marshals(doc.of[k])} ELSE {}
KeptLeaves(doc) ==
  IF ~Splittable(doc) \/ Lost(doc) = DOMAIN doc.of THEN LeafPaths(doc)
  ELSE {p \in LeafPaths(doc): (IF p[1][1] = "idx" THEN p[1][2] + 1 ELSE p[1]) \notin Lost(doc)}

(***************************************************************************)
(* The chunks of a JSON or YAML document hold each of its leaves once,     *)
(* under the path and the array range it really comes from, except those   *)
(* below a top-level entry or element with a value JSON has no text for    *)
(* anywhere in it: such a part is lost whole, unless all of them are such  *)
(* and the document stays in one piece.  Only that piece and a single      *)
(* value with no parts may exceed max bytes.                               *)
(***************************************************************************)
ChunksPartitionTheTree ==
  Answered({"json", "yaml"}) =>
    LET doc == IF call.op = "yaml" THEN normalizeYAML(call.doc) ELSE call.doc
    IN /\ \A c \in call.out: HoldsItsPlace(doc, c)
       /\ UNION {Held(doc, c): c \in call.out} = KeptLeaves(doc)
       /\ \A c, d \in call.out: c # d => Held(doc, c) \cap Held(doc, d) = {}
       /\ \A c \in call.out: c.size > call.max =>
            Len(c.items) = 1 /\ (~Splittable(c.items[1]) \/ (c.path = <<>> /\ Lost(doc) = DOMAIN doc.of))

-----------------------------------------------------------------------------
\* The longest run of letters and sentence ends.
LongestWord(c) ==
  Max({0} \cup {b - a: <<a, b>> \in {<<x, y>> \in (0..Len(c)) \X (0..Len(c)):
                          x < y /\ \A i \in x..(y - 1): At(c, i) # " "}})

(***************************************************************************)
(* A snippet is a piece of the text of at most max bytes that neither      *)
(* begins nor ends with a word cut in two, unless at a sentence end; and   *)
(* the only match lies in it when the window is wide next to the words and *)
(* to the search for a sentence end.  A trim to a token budget costs at    *)
(* most the budget, and cuts a word only when it has no white space to cut *)
(* at.                                                                     *)
(***************************************************************************)
CutsStayInBounds ==
  /\ Answered({"snippet"}) =>
       LET c == call.doc
           s == call.out[1]
           e == call.out[2]
           reach == 2 + (IF SentenceRange > LongestWord(c) THEN SentenceRange ELSE LongestWord(c))
           wide == \A i \in 1..Len(call.pos):
                     /\ call.max \div 2 >= reach + call.pos[i][2] - call.pos[i][1]
                     /\ \A j \in call.pos[i][1]..(call.pos[i][2] - 1): At(c, j) # " "
       IN /\ s <= e /\ e - s <= call.max /\ e <= Len(c)
          /\ s < e => /\ isWordBoundary(c, s)
                      /\ isWordBoundary(c, e) \/ isSentenceEnd(c, e - 1)
          /\ Len(call.pos) = 1 /\ wide => s <= call.pos[1][1] /\ call.pos[1][2] <= e
  /\ Answered({"trim"}) =>
       /\ EstimateTokens(call.out) <= call.max
       /\ call.out < Len(call.doc) /\ call.out > 0 =>
            \/ At(call.doc, call.out) \in {" ", "n"}
            \/ call.out = 4 * call.max /\ \A j \in 1..call.out: At(call.doc, j) \notin {" ", "n"}

=============================================================================
