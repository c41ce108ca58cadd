---------------------------- MODULE GistLibrary ----------------------------
(***************************************************************************)
(* A Gist instance (gist.go, search.go, fuzzy.go) over its Store           *)
(* (store_memory.go or store_postgres.go): one BatchIndex call whose items *)
(* run in a bounded pool of goroutines, concurrent Search calls, one Stats *)
(* call, and Close at any moment.  Every call to the store is a step of    *)
(* its own; the memory store takes its mutex for each, PostgreSQL runs     *)
(* each statement by itself and may fail it.                               *)
(*                                                                         *)
(* Counters of the instance are kept as the set of calls they have counted *)
(* (an addition per call), and the identity of a chunk is its item and its *)
(* place in the document.                                                  *)
(***************************************************************************)
EXTENDS Integers, Sequences, FiniteSets, SequencesExt

CONSTANTS
  Items,        \* the number of items of the batch
  DocChunks,    \* item -> the chunks ChunkContent returns: [words, size]
  Labels,       \* item -> its source label
  Searchers,    \* search calls -> [words, inside, dist, filter, limit, budget]
  Vocabulary,   \* every word
  SnippetLen,   \* the longest snippet, in bytes
  NoLabel,      \* no source filter; the label of an unknown source
  MaxFaults     \* bound on failed PostgreSQL statements

ASSUME LibraryAssumptions ==
  /\ Items \in Nat /\ MaxFaults \in Nat
  /\ Vocabulary \subseteq Nat \ {0}
\* A chunk's words are words of the vocabulary, numbered alphabetically.
ASSUME DocAssumption ==
  \A i \in 1..Items: DocChunks[i] \in Seq([words: SUBSET Vocabulary, size: Nat])
\* WithLimit ignores a limit below 1; a distance is a number of edits.
ASSUME SearchAssumption ==
  \A s \in DOMAIN Searchers:
    /\ Searchers[s].limit \in Nat \ {0}
    /\ \A w \in Vocabulary: Searchers[s].dist[w] \in Nat

VARIABLES
  backend,   \* "memory" or "postgres"
  pool,      \* the goroutines that may run at a time
  closed,    \* Close was called
  sources,   \* the saved sources, in id order: [item, label, bytes]
  chunks,    \* the saved chunks, in id order: [item, src, k]
  vocab,     \* the terms of the fuzzy vocabulary
  item,      \* per item [pc, src, k]: where its goroutine stands
  counted,   \* items whose Index call updated the statistics
  search,    \* per search call [pc, known, floor, terms, found, layer, fixed]
  searched,  \* search calls added to searchCount
  returned,  \* search calls added to bytesRet
  stats,     \* the Stats call: [pc, items, bytes, searches]
  faults     \* failed statements so far

libVars == <<backend, pool, closed, sources, chunks, vocab, item, counted,
             search, searched, returned, stats, faults>>

ItemIds == 1..Items
SearchIds == DOMAIN Searchers

LibInit(b, n) ==
  /\ backend = b /\ pool = n /\ closed = FALSE
  /\ sources = <<>> /\ chunks = <<>> /\ vocab = {}
  /\ counted = {} /\ searched = {} /\ returned = {}
  /\ item = [i \in ItemIds |-> [pc |-> "queued", src |-> 0, k |-> 1]]
  /\ search = [s \in SearchIds |->
       [pc |-> "start", known |-> {}, floor |-> 0, terms |-> {}, found |-> <<>>,
        layer |-> NoLabel, fixed |-> 0]]
  /\ stats = [pc |-> "start", items |-> {}, bytes |-> {}, searches |-> {}]
  /\ faults = 0

\* The words and the bytes of a saved chunk.
Content(c) == DocChunks[c.item][c.k]

\* A store call that goes through: the store is open.
Works == ~closed /\ UNCHANGED faults

\* A store call that fails: the store is closed, or PostgreSQL fails the
\* statement, which leaves no trace.
Fails ==
  \/ closed /\ UNCHANGED faults
  \/ ~closed /\ backend = "postgres" /\ faults < MaxFaults /\ faults' = faults + 1

-----------------------------------------------------------------------------
(* Index and BatchIndex. *)

Running == {i \in ItemIds: item[i].pc \notin {"queued", "done", "failed"}}

\* errgroup's Go: items start in order, while the pool has a free slot.
StartItem(i) ==
  /\ item[i].pc = "queued"
  /\ \A j \in 1..(i - 1): item[j].pc # "queued"
  /\ Cardinality(Running) < pool
  /\ item' = [item EXCEPT ![i].pc = "source"]
  /\ UNCHANGED <<backend, pool, closed, sources, chunks, vocab, counted, search, searched,
                 returned, stats, faults>>

\* Mutant of AfterChunks: the last chunk is left out.
AfterChunksButLast(i, k) == IF k < Len(DocChunks[i]) THEN "chunk" ELSE "stats"

\* What follows the first k - 1 chunks: the next chunk, or the statistics.
AfterChunks(i, k) == IF k <= Len(DocChunks[i]) THEN "chunk" ELSE "stats"

\* Mutant of SaveSource: the document's words are known before its chunks.
SaveSourceAndTerms(i) ==
  /\ item[i].pc = "source" /\ Works
  /\ sources' = Append(sources, [item |-> i, label |-> Labels[i], bytes |-> 0])
  /\ vocab' = vocab \cup UNION {DocChunks[i][k].words: k \in 1..Len(DocChunks[i])}
  /\ item' = [item EXCEPT ![i].src = Len(sources) + 1, ![i].pc = AfterChunks(i, 1)]
  /\ UNCHANGED <<backend, pool, closed, chunks, counted, search, searched, returned, stats>>

\* Store.SaveSource; the source begins without bytes.
SaveSource(i) ==
  /\ item[i].pc = "source" /\ Works
  /\ sources' = Append(sources, [item |-> i, label |-> Labels[i], bytes |-> 0])
  /\ item' = [item EXCEPT ![i].src = Len(sources) + 1, ![i].pc = AfterChunks(i, 1)]
  /\ UNCHANGED <<backend, pool, closed, chunks, vocab, counted, search, searched, returned, stats>>

\* The bytes of chunk k of item i added to its source.
AddBytes(i) == [sources EXCEPT ![item[i].src].bytes = @ + DocChunks[i][item[i].k].size]

\* The memory store saves the chunk and counts its bytes under one lock;
\* PostgreSQL inserts it first and updates the source in a second statement.
SaveChunk(i) ==
  /\ item[i].pc = "chunk" /\ Works
  /\ chunks' = Append(chunks, [item |-> i, src |-> item[i].src, k |-> item[i].k])
  /\ IF backend = "memory"
     THEN sources' = AddBytes(i) /\ item' = [item EXCEPT ![i].pc = "terms"]
     ELSE item' = [item EXCEPT ![i].pc = "bytes"] /\ UNCHANGED sources
  /\ UNCHANGED <<backend, pool, closed, vocab, counted, search, searched, returned, stats>>

UpdateBytes(i) ==
  /\ item[i].pc = "bytes" /\ Works
  /\ sources' = AddBytes(i)
  /\ item' = [item EXCEPT ![i].pc = "terms"]
  /\ UNCHANGED <<backend, pool, closed, chunks, vocab, counted, search, searched, returned, stats>>

\* vocab.Add of the chunk's words, once the store holds the chunk.
AddTerms(i) ==
  /\ item[i].pc = "terms"
  /\ vocab' = vocab \cup DocChunks[i][item[i].k].words
  /\ item' = [item EXCEPT ![i].k = @ + 1, ![i].pc = AfterChunks(i, item[i].k + 1)]
  /\ UNCHANGED <<backend, pool, closed, sources, chunks, counted, search, searched, returned, stats, faults>>

\* The statistics under the instance's lock; the call returns its result.
CountItem(i) ==
  /\ item[i].pc = "stats"
  /\ counted' = counted \cup {i}
  /\ item' = [item EXCEPT ![i].pc = "done"]
  /\ UNCHANGED <<backend, pool, closed, sources, chunks, vocab, search, searched, returned, stats, faults>>

\* A failed store call ends the item with an error; the others go on, and
\* what it saved so far stays.
FailItem(i) ==
  /\ item[i].pc \in {"source", "chunk", "bytes"} /\ Fails
  /\ item' = [item EXCEPT ![i].pc = "failed"]
  /\ UNCHANGED <<backend, pool, closed, sources, chunks, vocab, counted, search, searched, returned, stats>>

-----------------------------------------------------------------------------
(* Search. *)

\* The chunks a query's filter lets through.
Eligible(q) == {c \in 1..Len(chunks):
                  q.filter = NoLabel \/ sources[chunks[c].src].label = q.filter}

\* Word matching: any word of the query in the memory store, all of them in
\* PostgreSQL's plainto_tsquery.
PorterHit(words, c) ==
  LET here == words \cap Content(chunks[c]).words
  IN IF backend = "memory" THEN here # {} ELSE words # {} /\ here = words

\* Substring matching: some word of the chunk contains the query.
TrigramHit(inside, c) == inside \cap Content(chunks[c]).words # {}

\* Scores of the memory store, as fractions: matched words per word, and
\* query bytes per byte.  PostgreSQL ranks as it likes.
Ahead(words, tier, c, d) ==
  LET x == Content(chunks[c])
      y == Content(chunks[d])
  IN CASE backend = "postgres" -> TRUE
       [] backend = "memory" /\ tier = "porter" ->
            Cardinality(words \cap x.words) * Cardinality(y.words)
              >= Cardinality(words \cap y.words) * Cardinality(x.words)
       [] OTHER -> x.size <= y.size

\* The answers of one tier: the hits by falling score (ties in any order),
\* at most limit of them.
Ranked(q, words, inside, tier) ==
  LET hits == {c \in Eligible(q): IF tier = "porter" THEN PorterHit(words, c)
                                                     ELSE TrigramHit(inside, c)}
      n == IF q.limit < Cardinality(hits) THEN q.limit ELSE Cardinality(hits)
  IN {SubSeq(r, 1, n): r \in {t \in SetToSeqs(hits):
        \A i \in 1..(Len(t) - 1): Ahead(words, tier, t[i], t[i + 1])}}

\* The bytes of a chunk's snippet, and its tokens.
SnippetBytes(c) ==
  IF Content(chunks[c]).size < SnippetLen THEN Content(chunks[c]).size ELSE SnippetLen
Tokens(c) == (SnippetBytes(c) + 3) \div 4

\* usedTokens after the first n results.
UsedTokens(ranked, n) == FoldLeft(LAMBDA acc, c: acc + Tokens(c), 0, SubSeq(ranked, 1, n))

\* convertMatches: results while they fit the budget, the first one always;
\* a source saved since the call listed them has no label.
convertMatches(q, known, ranked) ==
  LET over == {n \in 2..Len(ranked): q.budget > 0 /\ UsedTokens(ranked, n) > q.budget}
      last == IF over = {} THEN Len(ranked) ELSE Min(over) - 1
  IN [i \in 1..last |->
        [chunk |-> ranked[i],
         label |-> IF chunks[ranked[i]].src \in known
                   THEN sources[chunks[ranked[i]].src].label ELSE NoLabel]]

\* The call lists the sources first.  floor and terms record what was saved
\* when it began.
ListSources(s) ==
  /\ search[s].pc = "start" /\ Works
  /\ search' = [search EXCEPT ![s].pc = "porter", ![s].known = 1..Len(sources),
                              ![s].floor = Len(chunks), ![s].terms = vocab]
  /\ UNCHANGED <<backend, pool, closed, sources, chunks, vocab, item, counted, searched, returned, stats>>

\* A tier of search s: it answers when it has hits, else the next one runs.
\* After a correction the answer is whatever the second tier finds.
Tier(s) ==
  LET q == Searchers[s]
      w == search[s].fixed
      words == IF w = 0 THEN q.words ELSE {w}
      inside == IF w = 0 THEN q.inside ELSE {w}
      tier == IF search[s].pc \in {"porter", "porter2"} THEN "porter" ELSE "trigram"
      next == CASE search[s].pc = "porter" -> "trigram"
                [] search[s].pc = "trigram" -> "fuzzy"
                [] search[s].pc = "porter2" -> "trigram2"
                [] OTHER -> "count"
  IN /\ search[s].pc \in {"porter", "trigram", "porter2", "trigram2"} /\ Works
     /\ \E r \in Ranked(q, words, inside, tier):
          search' = IF r = <<>> THEN [search EXCEPT ![s].pc = next]
                    ELSE [search EXCEPT ![s].pc = "count",
                                        ![s].found = convertMatches(q, search[s].known, r),
                                        ![s].layer = IF w = 0 THEN tier ELSE "fuzzy"]
     /\ UNCHANGED <<backend, pool, closed, sources, chunks, vocab, item, counted, searched, returned, stats>>

\* FuzzyMatch: the term at the smallest distance, at most 2, alphabetically
\* first among equals; none leaves the answer empty.
Correct(s) ==
  LET dist == Searchers[s].dist
      near == {w \in vocab: dist[w] <= 2}
      best == CHOOSE w \in near: \A v \in near: dist[w] < dist[v] \/ (dist[w] = dist[v] /\ w <= v)
  IN /\ search[s].pc = "fuzzy"
     /\ search' = IF near = {} THEN [search EXCEPT ![s].pc = "count"]
                  ELSE [search EXCEPT ![s].pc = "porter2", ![s].fixed = best]
     /\ UNCHANGED <<backend, pool, closed, sources, chunks, vocab, item, counted, searched, returned, stats, faults>>

FailSearch(s) ==
  /\ search[s].pc \in {"start", "porter", "trigram", "porter2", "trigram2"} /\ Fails
  /\ search' = [search EXCEPT ![s].pc = "failed"]
  /\ UNCHANGED <<backend, pool, closed, sources, chunks, vocab, item, counted, searched, returned, stats>>

\* An answered search counts itself, and then its bytes: two atomic adds.
CountSearch(s) ==
  /\ search[s].pc = "count"
  /\ searched' = searched \cup {s}
  /\ search' = [search EXCEPT ![s].pc = "bytes"]
  /\ UNCHANGED <<backend, pool, closed, sources, chunks, vocab, item, counted, returned, stats, faults>>

CountBytes(s) ==
  /\ search[s].pc = "bytes"
  /\ returned' = returned \cup {s}
  /\ search' = [search EXCEPT ![s].pc = "done"]
  /\ UNCHANGED <<backend, pool, closed, sources, chunks, vocab, item, counted, searched, stats, faults>>

-----------------------------------------------------------------------------
(* Stats and Close. *)

\* Stats reads the indexing counters under the lock, then the bytes returned
\* and then the searches.
ReadCounters ==
  /\ stats.pc = "start"
  /\ stats' = [stats EXCEPT !.pc = "bytes", !.items = counted]
  /\ UNCHANGED <<backend, pool, closed, sources, chunks, vocab, item, counted, search, searched, returned, faults>>

ReadBytes ==
  /\ stats.pc = "bytes"
  /\ stats' = [stats EXCEPT !.pc = "searches", !.bytes = returned]
  /\ UNCHANGED <<backend, pool, closed, sources, chunks, vocab, item, counted, search, searched, returned, faults>>

ReadSearches ==
  /\ stats.pc = "searches"
  /\ stats' = [stats EXCEPT !.pc = "done", !.searches = searched]
  /\ UNCHANGED <<backend, pool, closed, sources, chunks, vocab, item, counted, search, searched, returned, faults>>

Close ==
  /\ ~closed
  /\ closed' = TRUE
  /\ UNCHANGED <<backend, pool, sources, chunks, vocab, item, counted, search, searched, returned, stats, faults>>

IndexStep(i) ==
  \/ StartItem(i) \/ SaveSource(i) \/ SaveChunk(i) \/ UpdateBytes(i)
  \/ AddTerms(i) \/ CountItem(i) \/ FailItem(i)

SearchStep(s) ==
  \/ ListSources(s) \/ Tier(s) \/ Correct(s) \/ FailSearch(s)
  \/ CountSearch(s) \/ CountBytes(s)

\* The steps of an instance whose callers make the searches of asked.
LibNext(asked) ==
  \/ \E i \in ItemIds: IndexStep(i)
  \/ \E s \in asked: SearchStep(s)
  \/ Close

StatsNext == ReadCounters \/ ReadBytes \/ ReadSearches

\* An instance all of whose searches may be made.
LibSpec ==
  /\ \E b \in {"memory", "postgres"}, n \in Nat: LibInit(b, n)
  /\ [][LibNext(SearchIds) \/ StatsNext]_libVars

-----------------------------------------------------------------------------
(* Properties. *)

\* The chunks the store holds for item i, by id.
Stored(i) == {c \in 1..Len(chunks): chunks[c].item = i}

\* The first n chunks of item i's document are stored, each once and in order,
\* under the item's own source, and nothing else of it is.
StoredUpTo(i, n) ==
  /\ \A c \in Stored(i): chunks[c].k \in 1..n /\ chunks[c].src = item[i].src
  /\ \A k \in 1..n: \E c \in Stored(i): chunks[c].k = k
  /\ \A c, d \in Stored(i): c < d => chunks[c].k < chunks[d].k

\* The bytes of the first n chunks of item i's document, for every n.
DocBytes(i) ==
  LET bytes[n \in 0..Len(DocChunks[i])] ==
        IF n = 0 THEN 0 ELSE bytes[n - 1] + DocChunks[i][n].size
  IN bytes

(***************************************************************************)
(* An Index call that reports success has stored its whole document: every *)
(* chunk once, in order, under its own source, with the source's bytes and *)
(* the vocabulary complete, whatever failed or closed around it; the       *)
(* statistics count exactly the calls that succeeded, although failed ones *)
(* leave sources and chunks behind; and the bytes they report as returned  *)
(* all come from searches they count (Index, Stats, Search).               *)
(***************************************************************************)
SuccessMeansStored ==
  /\ \A i \in ItemIds: item[i].pc = "done" =>
       /\ StoredUpTo(i, Len(DocChunks[i]))
       /\ sources[item[i].src] = [item |-> i, label |-> Labels[i],
            bytes |-> DocBytes(i)[Len(DocChunks[i])]]
       /\ \A k \in 1..Len(DocChunks[i]): DocChunks[i][k].words \subseteq vocab
  /\ counted = {i \in ItemIds: item[i].pc = "done"}
  /\ stats.pc = "done" => stats.bytes \subseteq stats.searches

(***************************************************************************)
(* A search that comes back empty overlooked nothing: no chunk saved       *)
(* before it began matches the query by word or substring, and, without a  *)
(* source filter, no term known when it began was close enough to correct  *)
(* to - every correction leads to a result, because a term enters the      *)
(* vocabulary only after the chunk that holds it.  A result is named after *)
(* its own source, or not at all when that source is newer than the call.  *)
(***************************************************************************)
EmptySearchOverlooksNothing ==
  \A s \in SearchIds:
    LET q == Searchers[s]
        old == {c \in Eligible(q): c <= search[s].floor}
    IN search[s].pc = "done" =>
         /\ search[s].found = <<>> =>
              /\ \A c \in old: ~PorterHit(q.words, c) /\ ~TrigramHit(q.inside, c)
              /\ q.filter = NoLabel => \A w \in search[s].terms: q.dist[w] > 2
         /\ \A n \in 1..Len(search[s].found):
              LET r == search[s].found[n]
                  src == chunks[r.chunk].src
              IN r.label = sources[src].label \/ (r.label = NoLabel /\ src \notin search[s].known)

(***************************************************************************)
(* A BatchIndex call that has begun returns: every item ends in a result   *)
(* or an error, whatever fails and even when the instance is closed under  *)
(* it.                                                                     *)
(***************************************************************************)
BatchCompletes ==
  (\E i \in ItemIds: item[i].pc # "queued") ~> (\A i \in ItemIds: item[i].pc \in {"done", "failed"})

=============================================================================
