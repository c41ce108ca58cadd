----------------------------- MODULE MCLibrary -----------------------------
(***************************************************************************)
(* The gist library for model checking.  The parts of the library share no *)
(* state, so one behaviour exercises one of them: a pure call, a session   *)
(* with its snapshot, the executor, or a Gist instance whose batch runs    *)
(* beside one search, named by part, and one Stats call.  The documents    *)
(* the instance indexes are cut by the model of ChunkContent.              *)
(***************************************************************************)
EXTENDS LibraryCalls, GistLibrary, SessionSnapshot, Executor

VARIABLE part   \* the part of the library this behaviour exercises

mcVars == <<part, call, libVars, sessVars, execVars>>

-----------------------------------------------------------------------------
(* Documents. *)

\* Plain text of at most three paragraphs of up to five bytes.
MCTexts ==
  UNION {[1..n -> 0..5]: n \in 1..3}
AsParas(lens) ==
  [i \in 1..Len(lens) |-> [key |-> i, len |-> lens[i], fence |-> FALSE]]

\* Markdown of at most five lines; with headings that have no text and lines
\* with a ``` inside, of at most four.
MCLines ==
  {[kind |-> "head", lvl |-> 1, n |-> 3], [kind |-> "head", lvl |-> 2, n |-> 4],
   [kind |-> "text", lvl |-> 0, n |-> 5], [kind |-> "blank", lvl |-> 0, n |-> 0],
   [kind |-> "fence", lvl |-> 0, n |-> 3]}
MCOddLines ==
  {[kind |-> "bare", lvl |-> 1, n |-> 1], [kind |-> "bare", lvl |-> 2, n |-> 2],
   [kind |-> "tick", lvl |-> 0, n |-> 7]}
MCMarkdown == UNION {[1..n -> MCLines]: n \in 1..5} \cup UNION {[1..n -> MCLines \cup MCOddLines]: n \in 1..4}

\* Longer markdown: an oversized section with a fenced block and two parts.
Line(kind, lvl, n) == [kind |-> kind, lvl |-> lvl, n |-> n]
MCLong ==
  {<<Line("head", 1, 3), Line("text", 0, 9), Line("blank", 0, 0), Line("blank", 0, 0)>>
     \o mid \o <<Line("blank", 0, 0), Line("blank", 0, 0), Line("text", 0, 4)>>:
   mid \in {<<Line("fence", 0, 3), Line("blank", 0, 0), Line("head", 2, 4), Line("fence", 0, 3)>>,
            <<Line("text", 0, 4), Line("head", 2, 4), Line("text", 0, 5)>>,
            <<Line("tick", 0, 14), Line("blank", 0, 0), Line("text", 0, 13)>>,
            <<Line("bare", 2, 2), Line("text", 0, 5)>>,
            <<Line("head", 3, 5), Line("text", 0, 3), Line("head", 2, 4)>>}}

Leaf(n) == [tag |-> "leaf", n |-> n]
Key(k) == <<"str", k>>
Flat == {Leaf(1), Leaf(7), [tag |-> "map", of |-> <<>>]}
Arrays(S) == {Arr(s): s \in UNION {[1..n -> S]: n \in 0..3}}
Maps(S) == {[tag |-> "map", of |-> f]: f \in [{Key("a"), Key("b")} -> S]}
OneKey(v) == [tag |-> "map", of |-> [k \in {Key("c")} |-> v]]
Nan == [tag |-> "nan", n |-> 4]
Nested == Flat \cup {Arr(<<Leaf(1), Leaf(7), Leaf(1)>>), Arr(<<Leaf(1), Leaf(1)>>),
                     [tag |-> "map", of |-> [k \in {Key("a"), Key("b")} |-> Leaf(3)]]}
MCTrees == Flat \cup Arrays(Nested) \cup Maps(Nested)
             \cup Maps({Leaf(1), Arr(<<Leaf(2), Arr(<<Leaf(4), Leaf(4), Leaf(4)>>)>>)})
MCYaml == {[tag |-> "map", of |-> [k \in {<<"raw", "1">>, Key("b")} |->
              IF k = Key("b") THEN v ELSE [tag |-> "map", of |-> [j \in {<<"raw", "2">>} |-> v]]]]:
           v \in Nested}
MCUnwritable ==
  Arrays({Leaf(1), Leaf(7), Nan, Arr(<<Leaf(1), Nan>>)})
    \cup Maps({Leaf(1), Nan, Arr(<<Leaf(7), Nan>>), Arr(<<Leaf(1), Leaf(7), Leaf(1)>>), OneKey(Nan)})

\* Texts of ten or thirteen bytes in words of at most three letters.
MCClasses == {"w", " ", "."}
MCShort == {t \in [1..7 -> MCClasses]: t[1] = "w"}
MCWide == {<<"w", "w", " ">> \o t \o <<" ", "w", "w", " ", "w", ".", " ">>: t \in [1..5 -> MCClasses]}

Ask(op, doc, max, pos) ==
  [op |-> op, doc |-> doc, max |-> max, pos |-> pos, pc |-> "asked", out |-> <<>>]

MCCalls ==
  {Ask(op, AsParas(t), m, <<>>): op \in {"text", "bad"}, t \in MCTexts, m \in {3, 9}}
  \cup {Ask("markdown", d, m, <<>>): d \in MCMarkdown, m \in {6, 14}}
  \cup {Ask("markdown", d, m, <<>>): d \in MCLong, m \in {6, 12, 40}}
  \cup {Ask("json", d, m, <<>>): d \in MCTrees, m \in {6, 12}}
  \cup {Ask("yaml", d, m, <<>>): d \in MCYaml \cup MCUnwritable, m \in {6, 12}}
  \cup {Ask("snippet", t, 5, p): t \in MCShort, p \in {<<>>, <<<<4, 5>>>>, <<<<1, 2>>, <<5, 12>>>>}}
  \cup {Ask("snippet", t, 14, <<<<a, a + 2>>>>): t \in MCWide, a \in 0..13}
  \cup {Ask("trim", t, m, <<>>): t \in MCShort, m \in 0..3}

-----------------------------------------------------------------------------
(* The instance: a document of two chunks and one of one chunk. *)

MCDocs == <<AsParas(<<4, 5>>), AsParas(<<2, 0, 4>>)>>

\* The words of a paragraph, by item and paragraph; words are numbers in
\* alphabetical order.
MCWords == <<<<{1}, {2, 3}>>, <<{1, 4}, {}, {2}>>>>

MCDocChunks ==
  <<<<[words |-> {1}, size |-> 4], [words |-> {2, 3}, size |-> 5]>>,
    <<[words |-> {1, 2, 4}, size |-> 8]>>>>

\* They are what ChunkContent makes of the documents.
ASSUME MCChunksAssumption ==
  \A i \in 1..Items:
    LET cs == ChunkContent("text", MCDocs[i], 8)
    IN MCDocChunks[i] = [k \in 1..Len(cs) |->
         [words |-> UNION {MCWords[i][p[1]]: p \in ToSet(cs[k].pieces)},
          size |-> Joined(cs[k].pieces)]]

Query(words, inside, near, filter, limit, budget) ==
  [words |-> words, inside |-> inside,
   dist |-> [w \in 1..5 |-> IF w \in near THEN w % 3 ELSE 5],
   filter |-> filter, limit |-> limit, budget |-> budget]

MCLabels == <<"x", "y">>

\* Two words, a fragment of a word within one source, and a misspelt word.
MCSearchers ==
  [s \in {"words", "part", "typo"} |->
     CASE s = "words" -> Query({1, 2}, {}, {}, NoLabel, 2, 2)
       [] s = "part" -> Query({}, {2}, {}, "x", 5, 3)
       [] OTHER -> Query({}, {}, {1, 2}, NoLabel, 1, 0)]

-----------------------------------------------------------------------------
(* Executions: one allowed, one with a denied pattern, one that starts with
   a command that is not on the list, one without an interpreter. *)

Snippet(denied, shell, first, lang) ==
  [denied |-> denied, shell |-> shell, first |-> first, lang |-> lang]
MCRuns ==
  [r \in 1..4 |-> CASE r = 1 -> Snippet(FALSE, TRUE, "ls", "sh")
                    [] r = 2 -> Snippet(TRUE, FALSE, "x", "python")
                    [] r = 3 -> Snippet(FALSE, FALSE, "x", "python")
                    [] OTHER -> Snippet(FALSE, FALSE, "x", "node")]

-----------------------------------------------------------------------------
MCInit ==
  /\ part \in {"calls", "session", "executor"} \cup SearchIds
  /\ IF part = "calls" THEN call \in MCCalls ELSE call = NoCall
  /\ \E b \in IF part \in SearchIds THEN {"memory", "postgres"} ELSE {"memory"}:
       LibInit(b, IF part = "words" THEN 1 ELSE 2)
  /\ SessInit
  /\ ExecInit

CallStep == part = "calls" /\ Answer /\ UNCHANGED <<part, libVars, sessVars, execVars>>
LibStep == part \in SearchIds /\ (LibNext({part}) \/ (part = "part" /\ StatsNext)) /\ UNCHANGED <<part, call, sessVars, execVars>>
SessStep == part = "session" /\ SessNext /\ UNCHANGED <<part, call, libVars, execVars>>
ExecStep == part = "executor" /\ ExecNext /\ UNCHANGED <<part, call, libVars, sessVars>>

MCNext == CallStep \/ LibStep \/ SessStep \/ ExecStep

\* Every goroutine of the batch keeps running.
MCFairness ==
  \A i \in ItemIds: WF_mcVars(part \in SearchIds /\ IndexStep(i) /\ UNCHANGED <<part, call, sessVars, execVars>>)

MCSpec == MCInit /\ [][MCNext]_mcVars /\ MCFairness

\* Cutting accounts for all of the text: each part is in the chunks once and
\* under its place, but for the documents that panic and the YAML parts that
\* JSON cannot write, which are exactly those named here; snippets and trims
\* stay in their bounds (chunk.go, chunk_json.go, chunk_yaml.go, snippet.go).
ChunksAccountForText == ChunksCoverTheText /\ ChunksPartitionTheTree /\ CutsStayInBounds

\* Calls end: an execution without a file or a process left behind, a batch
\* with a result or an error for each item (Execute, BatchIndex).
CallsEndClean == [][RunsLeaveNothingBehind']_execVars /\ BatchCompletes

=============================================================================
