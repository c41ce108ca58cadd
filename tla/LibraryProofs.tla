--------------------------- MODULE LibraryProofs ---------------------------
(***************************************************************************)
(* A Gist instance: what an empty search says of the chunks and terms that *)
(* were there when it began, for any documents, searches and number of     *)
(* goroutines, over either store.  And its executions, which leave nothing *)
(* behind however they end.  And its sessions, whose snapshots list the    *)
(* recent errors and fit the budget they are rendered to.                  *)
(***************************************************************************)
EXTENDS GistLibrary, Executor, SessionSnapshot, FiniteSetTheorems, SequenceTheorems,
        NaturalsInduction, WellFoundedInduction, TLAPS

-----------------------------------------------------------------------------
(* The store. *)

SourceRow == [item: ItemIds, label: {Labels[i]: i \in ItemIds}, bytes: Nat]
ChunkRow == [item: ItemIds, src: Nat, k: Nat]

Saved(i, k) == \E c \in 1..Len(chunks): chunks[c].item = i /\ chunks[c].k = k
Holds(w) == \E c \in 1..Len(chunks): w \in Content(chunks[c]).words

\* A chunk is one of its document's and belongs to a source; a term is a word
\* of a chunk.
StoreOk ==
  /\ sources \in Seq(SourceRow) /\ chunks \in Seq(ChunkRow) /\ vocab \subseteq Vocabulary
  /\ \A c \in 1..Len(chunks): /\ chunks[c].src \in 1..Len(sources)
                              /\ chunks[c].k \in 1..Len(DocChunks[chunks[c].item])
  /\ \A w \in vocab: Holds(w)

\* An item stands at a chunk of its document, which is saved before its terms
\* are added.
ItemOk(i) ==
  /\ {"pc", "src", "k"} \subseteq DOMAIN item[i]
  /\ item[i].pc \in {"queued", "source"} => item[i].k = 1
  /\ item[i].pc \in {"chunk", "bytes", "terms"} =>
       item[i].src \in 1..Len(sources) /\ item[i].k \in 1..Len(DocChunks[i])
  /\ item[i].pc \in {"bytes", "terms"} => Saved(i, item[i].k)

ItemsOk ==
  /\ item = [i \in ItemIds |-> item[i]]
  /\ \A i \in ItemIds: ItemOk(i)

\* The store only grows: rows and labels stay.
StoreGrows ==
  /\ backend' = backend /\ vocab \subseteq vocab'
  /\ Len(chunks) <= Len(chunks') /\ \A c \in 1..Len(chunks): chunks'[c] = chunks[c]
  /\ Len(sources) <= Len(sources') /\ \A n \in 1..Len(sources): sources'[n].label = sources[n].label

LEMMA Member ==
  ASSUME NEW S, NEW q \in Seq(S), NEW k \in 1..Len(q)
  PROVE  q[k] \in S
OBVIOUS

LEMMA ChunkWords ==
  ASSUME NEW i \in ItemIds
  PROVE  /\ Len(DocChunks[i]) \in Nat
         /\ \A k \in 1..Len(DocChunks[i]): /\ DocChunks[i][k].words \subseteq Vocabulary
                                           /\ DocChunks[i][k].size \in Nat
<1>1. DocChunks[i] \in Seq([words: SUBSET Vocabulary, size: Nat])
  BY DocAssumption DEF ItemIds
<1>2. ASSUME NEW k \in 1..Len(DocChunks[i])
      PROVE  DocChunks[i][k] \in [words: SUBSET Vocabulary, size: Nat]
  BY <1>1, Member
<1>3. ASSUME NEW k \in 1..Len(DocChunks[i])
      PROVE  DocChunks[i][k].words \subseteq Vocabulary /\ DocChunks[i][k].size \in Nat
  BY <1>2
<1> QED BY <1>1, <1>3

LEMMA Lengths ==
  ASSUME StoreOk
  PROVE  Len(chunks) \in Nat /\ Len(sources) \in Nat
BY DEF StoreOk

-----------------------------------------------------------------------------
(* The steps of an item. *)

LEMMA OtherItem ==
  ASSUME StoreOk, StoreOk', StoreGrows, NEW i \in ItemIds, ItemOk(i), item'[i] = item[i]
  PROVE  ItemOk(i)'
<1>1. Len(chunks) \in Nat /\ Len(sources) \in Nat /\ Len(chunks') \in Nat /\ Len(sources') \in Nat
  BY DEF StoreOk
<1>2. 1..Len(sources) \subseteq 1..Len(sources') /\ 1..Len(chunks) \subseteq 1..Len(chunks')
  BY <1>1 DEF StoreGrows
<1>3. Saved(i, item[i].k) => \E c \in 1..Len(chunks'): chunks'[c].item = i /\ chunks'[c].k = item[i].k
  BY <1>2 DEF Saved, StoreGrows
<1> QED BY <1>2, <1>3 DEF ItemOk, Saved

\* The items other than the one that moved.
LEMMA ItemMoves ==
  ASSUME StoreOk, StoreOk', ItemsOk, StoreGrows, NEW i \in ItemIds, NEW t,
         item' = [item EXCEPT ![i] = t], item'[i] = t => ItemOk(i)'
  PROVE  ItemsOk'
<1>1. item' = [j \in ItemIds |-> item'[j]] /\ item'[i] = t /\ \A j \in ItemIds \ {i}: item'[j] = item[j]
  BY DEF ItemsOk
<1>2. ASSUME NEW j \in ItemIds PROVE ItemOk(j)'
  <2>1. CASE j = i
    BY <1>1, <2>1
  <2>2. CASE j # i
    BY <1>1, <2>2, OtherItem DEF ItemsOk
  <2> QED BY <2>1, <2>2
<1> QED BY <1>1, <1>2 DEF ItemsOk

LEMMA SameStore ==
  ASSUME StoreOk, backend' = backend, sources' = sources, chunks' = chunks, vocab' = vocab
  PROVE  StoreOk' /\ StoreGrows
<1>1. StoreOk'
  BY DEF StoreOk, Holds, Content
<1>2. StoreGrows
  BY Lengths DEF StoreGrows
<1> QED BY <1>1, <1>2

LEMMA StartItemFacts ==
  ASSUME StoreOk, ItemsOk, NEW i \in ItemIds, StartItem(i)
  PROVE  StoreOk' /\ ItemsOk' /\ StoreGrows /\ search' = search
<1> DEFINE t == [item[i] EXCEPT !.pc = "source"]
<1>1. /\ item' = [item EXCEPT ![i] = t] /\ item[i].pc = "queued"
      /\ backend' = backend /\ sources' = sources /\ chunks' = chunks /\ vocab' = vocab /\ search' = search
  BY DEF StartItem
<1>2. StoreOk' /\ StoreGrows
  BY <1>1, SameStore
<1>3. ItemOk(i)
  BY DEF ItemsOk
<1>4. {"pc", "src", "k"} \subseteq DOMAIN t /\ t.pc = "source" /\ t.k = 1
  BY <1>1, <1>3 DEF ItemOk
<1> HIDE DEF t
<1>5. item'[i] = t => ItemOk(i)'
  BY <1>4 DEF ItemOk
<1> QED BY <1>1, <1>2, <1>5, ItemMoves

LEMMA SaveSourceFacts ==
  ASSUME StoreOk, ItemsOk, NEW i \in ItemIds, SaveSource(i)
  PROVE  StoreOk' /\ ItemsOk' /\ StoreGrows /\ search' = search
<1> DEFINE row == [item |-> i, label |-> Labels[i], bytes |-> 0]
           t == [item[i] EXCEPT !.src = Len(sources) + 1, !.pc = AfterChunks(i, 1)]
<1>1. /\ item[i].pc = "source" /\ item' = [item EXCEPT ![i] = t]
      /\ backend' = backend /\ chunks' = chunks /\ vocab' = vocab /\ search' = search
  BY DEF SaveSource, ItemsOk
<1>2. sources' = Append(sources, row)
  BY DEF SaveSource
<1>3. ItemOk(i)
  BY DEF ItemsOk
<1>4. row \in SourceRow
  BY DEF SourceRow
<1>5. /\ sources' \in Seq(SourceRow) /\ Len(sources') = Len(sources) + 1 /\ Len(sources) \in Nat
      /\ \A n \in 1..Len(sources): sources'[n] = sources[n]
  <2> HIDE DEF row
  <2> QED BY <1>2, <1>4 DEF StoreOk
<1>6. StoreGrows
  BY <1>1, <1>5, Lengths DEF StoreGrows
<1>7. StoreOk'
  BY <1>1, <1>5 DEF StoreOk, Holds, Content
<1>8. Len(DocChunks[i]) \in Nat
  BY ChunkWords
<1>9. /\ {"pc", "src", "k"} \subseteq DOMAIN t /\ t.src = Len(sources) + 1 /\ t.k = 1
      /\ t.pc \in {"chunk", "stats"} /\ (t.pc = "chunk" => 1 \in 1..Len(DocChunks[i]))
  BY <1>1, <1>3, <1>5, <1>8 DEF ItemOk, AfterChunks
<1> HIDE DEF t
<1>10. item'[i] = t => ItemOk(i)'
  BY <1>5, <1>9 DEF ItemOk
<1> QED BY <1>1, <1>6, <1>7, <1>10, ItemMoves

\* Bytes added to a source leave the rest of the row and the other rows.
LEMMA AddBytesFacts ==
  ASSUME StoreOk, NEW i \in ItemIds, ItemOk(i), item[i].pc \in {"chunk", "bytes"}
  PROVE  /\ AddBytes(i) \in Seq(SourceRow) /\ Len(AddBytes(i)) = Len(sources)
         /\ \A n \in 1..Len(sources): AddBytes(i)[n].label = sources[n].label
<1> DEFINE m == item[i].src
           d == DocChunks[i][item[i].k].size
           row == [item |-> sources[m].item, label |-> sources[m].label, bytes |-> sources[m].bytes + d]
<1>1. m \in 1..Len(sources) /\ item[i].k \in 1..Len(DocChunks[i])
  BY DEF ItemOk
<1>2. d \in Nat
  BY <1>1, ChunkWords
<1>3. sources[m] \in SourceRow
  BY <1>1, Member DEF StoreOk
<1>4. row \in SourceRow /\ row.label = sources[m].label
  BY <1>2, <1>3 DEF SourceRow
<1>5. [sources[m] EXCEPT !.bytes = @ + d] = row
  BY <1>3 DEF SourceRow
<1>6. AddBytes(i) = [sources EXCEPT ![m] = [sources[m] EXCEPT !.bytes = @ + d]]
  BY DEF AddBytes
<1>7. AddBytes(i) = [sources EXCEPT ![m] = row]
  BY <1>5, <1>6
<1> HIDE DEF row, m, d
<1> QED BY <1>1, <1>4, <1>7 DEF StoreOk

LEMMA SaveChunkFacts ==
  ASSUME StoreOk, ItemsOk, NEW i \in ItemIds, SaveChunk(i)
  PROVE  StoreOk' /\ ItemsOk' /\ StoreGrows /\ search' = search
<1> DEFINE row == [item |-> i, src |-> item[i].src, k |-> item[i].k]
           pc == IF backend = "memory" THEN "terms" ELSE "bytes"
           t == [item[i] EXCEPT !.pc = pc]
<1>1. /\ item[i].pc = "chunk" /\ item' = [item EXCEPT ![i] = t]
      /\ backend' = backend /\ vocab' = vocab /\ search' = search
      /\ sources' = AddBytes(i) \/ sources' = sources
  BY DEF SaveChunk, ItemsOk
<1>2. chunks' = Append(chunks, row)
  BY DEF SaveChunk
<1>3. ItemOk(i)
  BY DEF ItemsOk
<1>4. item[i].src \in 1..Len(sources) /\ item[i].k \in 1..Len(DocChunks[i])
  BY <1>1, <1>3 DEF ItemOk
<1>5. /\ sources' \in Seq(SourceRow) /\ Len(sources') = Len(sources)
      /\ \A n \in 1..Len(sources): sources'[n].label = sources[n].label
  BY <1>1, <1>3, AddBytesFacts DEF StoreOk
<1>6. row \in ChunkRow
  BY <1>4, ChunkWords, Lengths DEF ChunkRow
<1>7. row.item = i /\ row.src = item[i].src /\ row.k = item[i].k
  OBVIOUS
<1>8. /\ chunks' \in Seq(ChunkRow) /\ Len(chunks') = Len(chunks) + 1 /\ Len(chunks) \in Nat
      /\ chunks'[Len(chunks) + 1] = row
      /\ \A c \in 1..Len(chunks): chunks'[c] = chunks[c]
  <2> HIDE DEF row
  <2> QED BY <1>2, <1>6 DEF StoreOk
<1> HIDE DEF row
<1>9. StoreGrows
  BY <1>1, <1>5, <1>8, Lengths DEF StoreGrows
<1>10. ASSUME NEW w \in vocab PROVE Holds(w)'
  <2>1. PICK c \in 1..Len(chunks): w \in Content(chunks[c]).words
    BY DEF StoreOk, Holds
  <2>2. c \in 1..Len(chunks') /\ chunks'[c] = chunks[c]
    BY <1>8
  <2> QED BY <2>1, <2>2 DEF Holds, Content
<1>11. ASSUME NEW c \in 1..Len(chunks')
       PROVE  chunks'[c].src \in 1..Len(sources) /\ chunks'[c].k \in 1..Len(DocChunks[chunks'[c].item])
  <2>1. CASE c \in 1..Len(chunks)
    BY <2>1, <1>8 DEF StoreOk
  <2>2. CASE c = Len(chunks) + 1
    BY <2>2, <1>4, <1>7, <1>8
  <2> QED BY <2>1, <2>2, <1>8
<1>12. StoreOk'
  BY <1>1, <1>5, <1>8, <1>10, <1>11 DEF StoreOk
<1>13. {"pc", "src", "k"} \subseteq DOMAIN t /\ t.pc = pc /\ t.src = item[i].src /\ t.k = item[i].k
  BY <1>3 DEF ItemOk
<1>14. pc \in {"bytes", "terms"}
  OBVIOUS
<1> HIDE DEF t, pc
<1>15. item'[i] = t => ItemOk(i)'
  BY <1>4, <1>5, <1>7, <1>8, <1>13, <1>14 DEF ItemOk, Saved
<1> QED BY <1>1, <1>9, <1>12, <1>15, ItemMoves

LEMMA UpdateBytesFacts ==
  ASSUME StoreOk, ItemsOk, NEW i \in ItemIds, UpdateBytes(i)
  PROVE  StoreOk' /\ ItemsOk' /\ StoreGrows /\ search' = search
<1> DEFINE t == [item[i] EXCEPT !.pc = "terms"]
<1>1. /\ item[i].pc = "bytes" /\ item' = [item EXCEPT ![i] = t] /\ sources' = AddBytes(i)
      /\ backend' = backend /\ chunks' = chunks /\ vocab' = vocab /\ search' = search
  BY DEF UpdateBytes
<1>2. ItemOk(i)
  BY DEF ItemsOk
<1>3. /\ sources' \in Seq(SourceRow) /\ Len(sources') = Len(sources)
      /\ \A n \in 1..Len(sources): sources'[n].label = sources[n].label
  BY <1>1, <1>2, AddBytesFacts
<1>4. StoreGrows
  BY <1>1, <1>3, Lengths DEF StoreGrows
<1>5. StoreOk'
  BY <1>1, <1>3 DEF StoreOk, Holds, Content
<1>6. {"pc", "src", "k"} \subseteq DOMAIN t /\ t.pc = "terms" /\ t.src = item[i].src /\ t.k = item[i].k
  BY <1>2 DEF ItemOk
<1> HIDE DEF t
<1>7. item'[i] = t => ItemOk(i)'
  BY <1>1, <1>2, <1>3, <1>6 DEF ItemOk, Saved
<1> QED BY <1>1, <1>4, <1>5, <1>7, ItemMoves

\* The words of a saved chunk enter the vocabulary: it holds them.
LEMMA AddTermsFacts ==
  ASSUME StoreOk, ItemsOk, NEW i \in ItemIds, AddTerms(i)
  PROVE  StoreOk' /\ ItemsOk' /\ StoreGrows /\ search' = search
<1> DEFINE words == DocChunks[i][item[i].k].words
           t == [item[i] EXCEPT !.k = @ + 1, !.pc = AfterChunks(i, item[i].k + 1)]
<1>1. /\ item[i].pc = "terms" /\ item' = [item EXCEPT ![i] = t] /\ vocab' = vocab \cup words
      /\ backend' = backend /\ chunks' = chunks /\ sources' = sources /\ search' = search
  BY DEF AddTerms, ItemsOk
<1>2. ItemOk(i)
  BY DEF ItemsOk
<1>3. item[i].src \in 1..Len(sources) /\ item[i].k \in 1..Len(DocChunks[i]) /\ Saved(i, item[i].k)
  BY <1>1, <1>2 DEF ItemOk
<1>4. words \subseteq Vocabulary
  BY <1>3, ChunkWords
<1>5. \A w \in words: Holds(w)
  <2>1. PICK c \in 1..Len(chunks): chunks[c].item = i /\ chunks[c].k = item[i].k
    BY <1>3 DEF Saved
  <2>2. Content(chunks[c]).words = words
    BY <2>1 DEF Content
  <2> QED BY <2>2 DEF Holds
<1>6. \A w \in vocab': Holds(w)'
  BY <1>1, <1>5 DEF StoreOk, Holds, Content
<1>7. StoreOk'
  BY <1>1, <1>4, <1>6 DEF StoreOk
<1>8. StoreGrows
  BY <1>1, Lengths DEF StoreGrows
<1>9. /\ {"pc", "src", "k"} \subseteq DOMAIN t /\ t.src = item[i].src /\ t.k = item[i].k + 1
      /\ t.pc = AfterChunks(i, item[i].k + 1)
  BY <1>2 DEF ItemOk
<1> HIDE DEF t
<1>10. Len(DocChunks[i]) \in Nat
  BY ChunkWords
<1>11. t.pc \in {"chunk", "stats"} /\ (t.pc = "chunk" => t.k \in 1..Len(DocChunks[i]))
  BY <1>3, <1>9, <1>10 DEF AfterChunks
<1>12. item'[i] = t => ItemOk(i)'
  BY <1>1, <1>3, <1>9, <1>11 DEF ItemOk
<1> QED BY <1>1, <1>7, <1>8, <1>12, ItemMoves

LEMMA EndItemFacts ==
  ASSUME StoreOk, ItemsOk, NEW i \in ItemIds, CountItem(i) \/ FailItem(i)
  PROVE  StoreOk' /\ ItemsOk' /\ StoreGrows /\ search' = search
<1>1. PICK p \in {"done", "failed"}: item' = [item EXCEPT ![i].pc = p]
  BY DEF CountItem, FailItem
<1> DEFINE t == [item[i] EXCEPT !.pc = p]
<1>2. /\ item' = [item EXCEPT ![i] = t]
      /\ backend' = backend /\ chunks' = chunks /\ vocab' = vocab /\ sources' = sources /\ search' = search
  BY <1>1 DEF CountItem, FailItem
<1>3. StoreOk' /\ StoreGrows
  BY <1>2, SameStore
<1>4. {"pc", "src", "k"} \subseteq DOMAIN t /\ t.pc = p
  BY DEF ItemsOk, ItemOk
<1> HIDE DEF t
<1>5. item'[i] = t => ItemOk(i)'
  BY <1>4 DEF ItemOk
<1> QED BY <1>2, <1>3, <1>5, ItemMoves

LEMMA IndexStepFacts ==
  ASSUME StoreOk, ItemsOk, NEW i \in ItemIds, IndexStep(i)
  PROVE  StoreOk' /\ ItemsOk' /\ StoreGrows /\ search' = search
BY StartItemFacts, SaveSourceFacts, SaveChunkFacts, UpdateBytesFacts, AddTermsFacts, EndItemFacts
   DEF IndexStep

-----------------------------------------------------------------------------
(* The searches. *)

\* Chunk c passes the filter of query q.
Passes(q, c) == q.filter = NoLabel \/ sources[chunks[c].src].label = q.filter

\* No chunk of search s' floor matches its words, or holds its text.
NoWords(s) == \A c \in 1..search[s].floor: Passes(Searchers[s], c) => ~PorterHit(Searchers[s].words, c)
NoText(s) == \A c \in 1..search[s].floor: Passes(Searchers[s], c) => ~TrigramHit(Searchers[s].inside, c)

\* No term search s began with was near enough.
NoneNear(s) ==
  Searchers[s].filter = NoLabel => \A w \in search[s].terms: Searchers[s].dist[w] > 2

\* A result is named after its own source, or not at all when that is newer.
Named(r, known) ==
  /\ r.chunk \in 1..Len(chunks)
  /\ \/ r.label = sources[chunks[r.chunk].src].label
     \/ r.label = NoLabel /\ chunks[r.chunk].src \notin known

\* What each step of a search has found out.
SearchOk(s) ==
  /\ {"pc", "known", "floor", "terms", "found", "layer", "fixed"} \subseteq DOMAIN search[s]
  /\ search[s].floor \in Nat /\ search[s].floor <= Len(chunks) /\ search[s].terms \subseteq vocab
  /\ search[s].pc \in {"start", "porter", "trigram", "fuzzy"} => search[s].fixed = 0
  /\ search[s].pc \in {"trigram", "fuzzy", "porter2", "trigram2"} => NoWords(s)
  /\ search[s].pc \in {"fuzzy", "porter2", "trigram2"} => NoText(s)
  /\ search[s].pc \in {"porter2", "trigram2"} => search[s].fixed \in vocab
  /\ search[s].pc = "trigram2" => Searchers[s].filter # NoLabel
  /\ search[s].pc = "start" => search[s].found = <<>>
  /\ search[s].pc \in {"count", "bytes", "done"} /\ search[s].found = <<>> =>
       NoWords(s) /\ NoText(s) /\ NoneNear(s)
  /\ \A n \in 1..Len(search[s].found): Named(search[s].found[n], search[s].known)

SearchesOk ==
  /\ search = [s \in SearchIds |-> search[s]]
  /\ \A s \in SearchIds: SearchOk(s)

\* What was read of a chunk stays true of it.
LEMMA RowStays ==
  ASSUME StoreOk, StoreOk', StoreGrows, NEW c \in 1..Len(chunks)
  PROVE  /\ c \in 1..Len(chunks') /\ chunks'[c] = chunks[c]
         /\ sources'[chunks[c].src].label = sources[chunks[c].src].label
         /\ \A q: Passes(q, c)' <=> Passes(q, c)
         /\ \A words: PorterHit(words, c)' <=> PorterHit(words, c)
         /\ \A inside: TrigramHit(inside, c)' <=> TrigramHit(inside, c)
<1>1. chunks'[c] = chunks[c] /\ backend' = backend
  BY DEF StoreGrows
<1>2. sources'[chunks[c].src].label = sources[chunks[c].src].label
  BY DEF StoreOk, StoreGrows
<1>3. ASSUME NEW q PROVE Passes(q, c)' <=> Passes(q, c)
  BY <1>1, <1>2 DEF Passes
<1>4. ASSUME NEW words PROVE PorterHit(words, c)' <=> PorterHit(words, c)
  BY <1>1 DEF PorterHit, Content
<1>5. ASSUME NEW inside PROVE TrigramHit(inside, c)' <=> TrigramHit(inside, c)
  BY <1>1 DEF TrigramHit, Content
<1>6. Len(chunks) \in Nat /\ Len(chunks') \in Nat
  BY DEF StoreOk
<1>7. c \in 1..Len(chunks')
  BY <1>6 DEF StoreGrows
<1> QED BY <1>1, <1>2, <1>3, <1>4, <1>5, <1>7

LEMMA OtherSearch ==
  ASSUME StoreOk, StoreOk', StoreGrows, NEW s \in SearchIds, SearchOk(s), search'[s] = search[s]
  PROVE  SearchOk(s)'
<1>1. search[s].floor \in Nat /\ search[s].floor <= Len(chunks) /\ Len(chunks) \in Nat /\ Len(chunks') \in Nat
  BY DEF SearchOk, StoreOk
<1>2. 1..search[s].floor \subseteq 1..Len(chunks) /\ search[s].floor <= Len(chunks')
  BY <1>1 DEF StoreGrows
<1>3. NoWords(s) => NoWords(s)'
  <2>1. ASSUME NEW c \in 1..search[s].floor
        PROVE  /\ Passes(Searchers[s], c)' <=> Passes(Searchers[s], c)
               /\ PorterHit(Searchers[s].words, c)' <=> PorterHit(Searchers[s].words, c)
    BY <1>2, RowStays
  <2> QED BY <2>1 DEF NoWords
<1>4. NoText(s) => NoText(s)'
  <2>1. ASSUME NEW c \in 1..search[s].floor
        PROVE  /\ Passes(Searchers[s], c)' <=> Passes(Searchers[s], c)
               /\ TrigramHit(Searchers[s].inside, c)' <=> TrigramHit(Searchers[s].inside, c)
    BY <1>2, RowStays
  <2> QED BY <2>1 DEF NoText
<1>5. NoneNear(s) => NoneNear(s)'
  BY DEF NoneNear
<1>6. ASSUME NEW r, NEW known, Named(r, known)
      PROVE  /\ r.chunk \in 1..Len(chunks')
             /\ \/ r.label = sources'[chunks'[r.chunk].src].label
                \/ r.label = NoLabel /\ chunks'[r.chunk].src \notin known
  BY <1>6, RowStays DEF Named
<1>7. \A n \in 1..Len(search[s].found): Named(search[s].found[n], search[s].known)'
  BY <1>6 DEF SearchOk, Named
<1>8. vocab \subseteq vocab'
  BY DEF StoreGrows
<1>9. /\ {"pc", "known", "floor", "terms", "found", "layer", "fixed"} \subseteq DOMAIN search[s]
      /\ search[s].floor \in Nat /\ search[s].floor <= Len(chunks') /\ search[s].terms \subseteq vocab'
      /\ search[s].pc \in {"start", "porter", "trigram", "fuzzy"} => search[s].fixed = 0
  BY <1>2, <1>8 DEF SearchOk
<1>10. /\ search[s].pc \in {"trigram", "fuzzy", "porter2", "trigram2"} => NoWords(s)'
       /\ search[s].pc \in {"fuzzy", "porter2", "trigram2"} => NoText(s)'
       /\ search[s].pc \in {"porter2", "trigram2"} => search[s].fixed \in vocab'
       /\ search[s].pc = "trigram2" => Searchers[s].filter # NoLabel
       /\ search[s].pc = "start" => search[s].found = <<>>
       /\ search[s].pc \in {"count", "bytes", "done"} /\ search[s].found = <<>> =>
            NoWords(s)' /\ NoText(s)' /\ NoneNear(s)'
  BY <1>3, <1>4, <1>5, <1>8 DEF SearchOk
<1> QED BY <1>7, <1>9, <1>10 DEF SearchOk

\* The searches other than the one that moved.
LEMMA SearchMoves ==
  ASSUME StoreOk, StoreOk', StoreGrows, SearchesOk, NEW s \in SearchIds, NEW t,
         search' = [search EXCEPT ![s] = t], search'[s] = t => SearchOk(s)'
  PROVE  SearchesOk'
<1>1. search' = [r \in SearchIds |-> search'[r]] /\ search'[s] = t /\ \A r \in SearchIds \ {s}: search'[r] = search[r]
  BY DEF SearchesOk
<1>2. ASSUME NEW r \in SearchIds PROVE SearchOk(r)'
  <2>1. CASE r = s
    BY <1>1, <2>1
  <2>2. CASE r # s
    BY <1>1, <2>2, OtherSearch DEF SearchesOk
  <2> QED BY <2>1, <2>2
<1> QED BY <1>1, <1>2 DEF SearchesOk

-----------------------------------------------------------------------------
(* The steps of a search. *)

StoreSame == backend' = backend /\ sources' = sources /\ chunks' = chunks /\ vocab' = vocab

LEMMA FactsStay ==
  ASSUME StoreSame, NEW s \in SearchIds, search'[s].floor = search[s].floor, search'[s].terms = search[s].terms,
         search'[s].found = search[s].found, search'[s].known = search[s].known
  PROVE  /\ NoWords(s)' <=> NoWords(s)
         /\ NoText(s)' <=> NoText(s)
         /\ NoneNear(s)' <=> NoneNear(s)
         /\ (\A n \in 1..Len(search[s].found): Named(search[s].found[n], search[s].known))'
              <=> \A n \in 1..Len(search[s].found): Named(search[s].found[n], search[s].known)
<1>1. NoWords(s)' <=> NoWords(s)
  BY DEF StoreSame, NoWords, Passes, PorterHit, Content
<1>2. NoText(s)' <=> NoText(s)
  BY DEF StoreSame, NoText, Passes, TrigramHit, Content
<1>3. NoneNear(s)' <=> NoneNear(s)
  BY DEF NoneNear
<1>4. (\A n \in 1..Len(search[s].found): Named(search[s].found[n], search[s].known))'
        <=> \A n \in 1..Len(search[s].found): Named(search[s].found[n], search[s].known)
  BY DEF StoreSame, Named
<1> QED BY <1>1, <1>2, <1>3, <1>4

LEMMA ListSourcesFacts ==
  ASSUME StoreOk, SearchesOk, NEW s \in SearchIds, ListSources(s)
  PROVE  SearchesOk'
<1> DEFINE t == [search[s] EXCEPT !.pc = "porter", !.known = 1..Len(sources),
                                  !.floor = Len(chunks), !.terms = vocab]
<1>1. search[s].pc = "start" /\ search' = [search EXCEPT ![s] = t] /\ StoreSame
  BY DEF ListSources, StoreSame
<1>2. SearchOk(s)
  BY DEF SearchesOk
<1>3. /\ {"pc", "known", "floor", "terms", "found", "layer", "fixed"} \subseteq DOMAIN t
      /\ t.pc = "porter" /\ t.floor = Len(chunks) /\ t.terms = vocab
      /\ t.found = search[s].found /\ t.fixed = search[s].fixed
  BY <1>2 DEF SearchOk
<1> HIDE DEF t
<1>4. search'[s] = t => SearchOk(s)'
  BY <1>1, <1>2, <1>3, Lengths DEF SearchOk, StoreSame
<1> QED BY <1>1, <1>4, SameStore, SearchMoves DEF StoreSame

LEMMA FailSearchFacts ==
  ASSUME StoreOk, SearchesOk, NEW s \in SearchIds, FailSearch(s)
  PROVE  SearchesOk'
<1> DEFINE t == [search[s] EXCEPT !.pc = "failed"]
<1>1. search' = [search EXCEPT ![s] = t] /\ StoreSame
  BY DEF FailSearch, StoreSame
<1>2. SearchOk(s)
  BY DEF SearchesOk
<1>3. /\ {"pc", "known", "floor", "terms", "found", "layer", "fixed"} \subseteq DOMAIN t
      /\ t.pc = "failed" /\ t.floor = search[s].floor /\ t.terms = search[s].terms
      /\ t.found = search[s].found /\ t.fixed = search[s].fixed /\ t.known = search[s].known
  BY <1>2 DEF SearchOk
<1> HIDE DEF t
<1>4. search'[s] = t => SearchOk(s)'
  BY <1>1, <1>2, <1>3, FactsStay DEF SearchOk, StoreSame
<1> QED BY <1>1, <1>4, SameStore, SearchMoves DEF StoreSame

LEMMA CountFacts ==
  ASSUME StoreOk, SearchesOk, NEW s \in SearchIds, CountSearch(s) \/ CountBytes(s)
  PROVE  SearchesOk'
<1>1. PICK p \in {"bytes", "done"}: search' = [search EXCEPT ![s].pc = p]
  BY DEF CountSearch, CountBytes
<1> DEFINE t == [search[s] EXCEPT !.pc = p]
<1>2. search[s].pc \in {"count", "bytes"} /\ search' = [search EXCEPT ![s] = t] /\ StoreSame
  BY <1>1 DEF CountSearch, CountBytes, StoreSame
<1>3. SearchOk(s)
  BY DEF SearchesOk
<1>4. /\ {"pc", "known", "floor", "terms", "found", "layer", "fixed"} \subseteq DOMAIN t
      /\ t.pc = p /\ t.floor = search[s].floor /\ t.terms = search[s].terms
      /\ t.found = search[s].found /\ t.fixed = search[s].fixed /\ t.known = search[s].known
  BY <1>3 DEF SearchOk
<1> HIDE DEF t
<1>5. search'[s] = t => SearchOk(s)'
  BY <1>2, <1>3, <1>4, FactsStay DEF SearchOk, StoreSame
<1> QED BY <1>2, <1>5, SameStore, SearchMoves DEF StoreSame

\* Every non-empty set of naturals has a least member.
LEMMA LeastExists ==
  ASSUME NEW S \in SUBSET Nat, S # {}
  PROVE  \E x \in S: \A y \in S: x <= y
<1> DEFINE Less == {p \in Nat \X Nat: p[1] < p[2]}
<1>1. IsWellFoundedOn(Less, Nat)
  BY NatLessThanWellFounded DEF OpToRel
<1>2. PICK x \in S: \A y \in S: ~(<<y, x>> \in Less)
  <2> HIDE DEF Less
  <2> QED BY <1>1, WFMin
<1>3. \A y \in S: ~(y < x)
  BY <1>2
<1> QED BY <1>3

\* FuzzyMatch finds a term whenever some term is near enough.
LEMMA CorrectFacts ==
  ASSUME StoreOk, SearchesOk, NEW s \in SearchIds, Correct(s)
  PROVE  SearchesOk'
<1> DEFINE dist == Searchers[s].dist
           near == {w \in vocab: dist[w] <= 2}
           best == CHOOSE w \in near: \A v \in near: dist[w] < dist[v] \/ (dist[w] = dist[v] /\ w <= v)
           t == IF near = {} THEN [search[s] EXCEPT !.pc = "count"]
                ELSE [search[s] EXCEPT !.pc = "porter2", !.fixed = best]
<1>1. search[s].pc = "fuzzy" /\ search' = [search EXCEPT ![s] = t] /\ StoreSame
  <2>1. /\ search[s].pc = "fuzzy" /\ StoreSame
        /\ search' = IF near = {} THEN [search EXCEPT ![s].pc = "count"]
                     ELSE [search EXCEPT ![s].pc = "porter2", ![s].fixed = best]
    BY DEF Correct, StoreSame
  <2> HIDE DEF near, best
  <2>2. CASE near = {}
    BY <2>1, <2>2
  <2>3. CASE near # {}
    BY <2>1, <2>3 DEF SearchesOk
  <2> QED BY <2>1, <2>2, <2>3
<1>2. SearchOk(s)
  BY DEF SearchesOk
<1>3. \A w \in Vocabulary: dist[w] \in Nat /\ w \in Nat
  BY SearchAssumption, LibraryAssumptions DEF SearchIds
<1>4. near \subseteq Vocabulary
  BY DEF StoreOk
<1>5. near # {} => best \in near
  <2>1. SUFFICES ASSUME near # {}
                 PROVE \E w \in near: \A v \in near: dist[w] < dist[v] \/ (dist[w] = dist[v] /\ w <= v)
    <3> HIDE DEF near, dist
    <3> QED BY <2>1
  <2> DEFINE D == {dist[w]: w \in near}
  <2> HIDE DEF near, dist
  <2>2. D \in SUBSET Nat /\ D # {}
    BY <1>3, <1>4, <2>1
  <2>3. PICK d \in D: \A e \in D: d <= e
    <3> HIDE DEF D
    <3> QED BY <2>2, LeastExists
  <2> DEFINE N == {w \in near: dist[w] = d}
  <2>4. N \in SUBSET Nat /\ N # {}
    BY <1>3, <1>4, <2>3
  <2>5. PICK w \in N: \A v \in N: w <= v
    <3> HIDE DEF N
    <3> QED BY <2>4, LeastExists
  <2>6. ASSUME NEW v \in near PROVE dist[w] < dist[v] \/ (dist[w] = dist[v] /\ w <= v)
    <3>1. dist[w] = d /\ d <= dist[v] /\ dist[v] \in Nat /\ d \in Nat
      BY <1>3, <1>4, <2>2, <2>3, <2>5
    <3>2. dist[v] = d => w <= v
      BY <2>5
    <3> QED BY <3>1, <3>2
  <2> QED BY <2>5, <2>6
<1>6. near = {} => \A w \in vocab: dist[w] > 2
  BY <1>3 DEF StoreOk
<1>7. CASE near = {}
  <2>1. /\ {"pc", "known", "floor", "terms", "found", "layer", "fixed"} \subseteq DOMAIN t
        /\ t.pc = "count" /\ t.floor = search[s].floor /\ t.terms = search[s].terms
        /\ t.found = search[s].found /\ t.known = search[s].known
    BY <1>2, <1>7 DEF SearchOk
  <2>2. NoneNear(s)
    BY <1>2, <1>6, <1>7 DEF NoneNear, SearchOk
  <2> HIDE DEF t, near, best, dist
  <2>3. search'[s] = t => SearchOk(s)'
    BY <1>1, <1>2, <2>1, <2>2, FactsStay DEF SearchOk, StoreSame
  <2> QED BY <1>1, <2>3, SameStore, SearchMoves DEF StoreSame
<1>8. CASE near # {}
  <2>1. best \in vocab
    BY <1>5, <1>8
  <2>2. /\ {"pc", "known", "floor", "terms", "found", "layer", "fixed"} \subseteq DOMAIN t
        /\ t.pc = "porter2" /\ t.floor = search[s].floor /\ t.terms = search[s].terms
        /\ t.found = search[s].found /\ t.fixed = best /\ t.known = search[s].known
    <3> HIDE DEF best, near
    <3> QED BY <1>2, <1>8 DEF SearchOk
  <2> HIDE DEF t, near, best, dist
  <2>3. search'[s] = t => SearchOk(s)'
    BY <1>1, <1>2, <2>1, <2>2, FactsStay DEF SearchOk, StoreSame
  <2> QED BY <1>1, <2>3, SameStore, SearchMoves DEF StoreSame
<1> QED BY <1>7, <1>8

-----------------------------------------------------------------------------
(* A tier of a search. *)

\* The chunks a tier hits.
HitsOf(q, words, inside, tier) ==
  {c \in Eligible(q): IF tier = "porter" THEN PorterHit(words, c) ELSE TrigramHit(inside, c)}

\* The ranking of a tier holds chunks of the store, and is empty only when
\* the tier hits none.
LEMMA RankedFacts ==
  ASSUME StoreOk, NEW q, q.limit \in Nat \ {0}, NEW words, NEW inside, NEW tier,
         NEW r \in Ranked(q, words, inside, tier)
  PROVE  r \in Seq(1..Len(chunks)) /\ (r = <<>> => HitsOf(q, words, inside, tier) = {})
<1> DEFINE hits == HitsOf(q, words, inside, tier)
           n == IF q.limit < Cardinality(hits) THEN q.limit ELSE Cardinality(hits)
<1>1. hits \subseteq 1..Len(chunks) /\ Len(chunks) \in Nat
  BY Lengths DEF HitsOf, Eligible
<1>2. IsFiniteSet(hits) /\ Cardinality(hits) \in Nat
  <2>1. IsFiniteSet(1..Len(chunks))
    BY <1>1, FS_Interval
  <2> HIDE DEF hits
  <2> QED BY <2>1, <1>1, FS_Subset, FS_CardinalityType
<1>3. PICK t \in SetToSeqs(hits): r = SubSeq(t, 1, n)
  BY DEF Ranked, HitsOf
<1>4. t \in [1..Cardinality(hits) -> hits]
  BY <1>3 DEF SetToSeqs
<1> HIDE DEF hits
<1>5. t \in Seq(hits) /\ Len(t) = Cardinality(hits)
  BY <1>2, <1>4
<1>6. n \in Nat /\ n <= Len(t) /\ (n = 0 => Cardinality(hits) = 0)
  BY <1>2, <1>5
<1> HIDE DEF n
<1>7. r \in Seq(hits) /\ Len(r) = n
  BY <1>3, <1>5, <1>6
<1>8. r \in Seq(1..Len(chunks))
  <2>1. \A i \in 1..Len(r): r[i] \in 1..Len(chunks)
    BY <1>1, <1>7, Member
  <2>2. r = [i \in 1..n |-> r[i]]
    BY <1>7
  <2>3. r \in [1..n -> 1..Len(chunks)]
    BY <2>1, <2>2, <1>7
  <2> DEFINE S == 1..Len(chunks)
  <2> HIDE DEF S
  <2> QED BY <2>3, <1>6 DEF S
<1>9. r = <<>> => hits = {}
  BY <1>2, <1>6, <1>7, FS_EmptySet
<1> QED BY <1>8, <1>9 DEF hits

\* A ranking that is not empty gives results, each named after its source.
LEMMA ConvertFacts ==
  ASSUME NEW q, NEW known, NEW r \in Seq(1..Len(chunks)), r # <<>>
  PROVE  /\ convertMatches(q, known, r) # <<>>
         /\ \A n \in 1..Len(convertMatches(q, known, r)): Named(convertMatches(q, known, r)[n], known)
<1> DEFINE over == {n \in 2..Len(r): q.budget > 0 /\ UsedTokens(r, n) > q.budget}
           last == IF over = {} THEN Len(r) ELSE Min(over) - 1
           row(i) == [chunk |-> r[i],
                      label |-> IF chunks[r[i]].src \in known THEN sources[chunks[r[i]].src].label ELSE NoLabel]
<1>1. Len(r) \in Nat /\ Len(r) # 0
  OBVIOUS
<1>2. last \in 1..Len(r)
  <2>1. over \subseteq 2..Len(r)
    OBVIOUS
  <2> HIDE DEF over
  <2>2. CASE over = {}
    BY <1>1, <2>2
  <2>3. CASE over # {}
    <3>1. over \in SUBSET Nat
      BY <1>1, <2>1
    <3>2. \E x \in over: \A y \in over: x <= y
      BY <2>3, <3>1, LeastExists
    <3>3. Min(over) \in over
      BY <3>2 DEF Min
    <3>4. Min(over) \in 2..Len(r)
      BY <2>1, <3>3
    <3> QED BY <1>1, <2>3, <3>4
  <2> QED BY <2>2, <2>3
<1>3. convertMatches(q, known, r) = [i \in 1..last |-> row(i)]
  BY DEF convertMatches
<1>4. ASSUME NEW i \in 1..last PROVE Named(row(i), known)
  <2>1. r[i] \in 1..Len(chunks)
    BY <1>1, <1>2, Member
  <2> QED BY <2>1 DEF Named
<1> HIDE DEF last, row
<1>5. Len([i \in 1..last |-> row(i)]) = last /\ \A i \in 1..last: [j \in 1..last |-> row(j)][i] = row(i)
  BY <1>1, <1>2
<1> QED BY <1>1, <1>2, <1>3, <1>4, <1>5

\* What an empty tier says of the chunks below the floor.
LEMMA EmptyTier ==
  ASSUME StoreOk, NEW s \in SearchIds, SearchOk(s)
  PROVE  /\ \A inside: HitsOf(Searchers[s], Searchers[s].words, inside, "porter") = {} => NoWords(s)
         /\ \A words: HitsOf(Searchers[s], words, Searchers[s].inside, "trigram") = {} => NoText(s)
<1>1. 1..search[s].floor \subseteq 1..Len(chunks)
  BY Lengths DEF SearchOk
<1>2. ASSUME NEW c \in 1..search[s].floor, Passes(Searchers[s], c) PROVE c \in Eligible(Searchers[s])
  BY <1>1, <1>2 DEF Passes, Eligible
<1>3. ASSUME NEW inside, HitsOf(Searchers[s], Searchers[s].words, inside, "porter") = {}
      PROVE  NoWords(s)
  BY <1>2, <1>3 DEF HitsOf, NoWords
<1>4. ASSUME NEW words, HitsOf(Searchers[s], words, Searchers[s].inside, "trigram") = {}
      PROVE  NoText(s)
  BY <1>2, <1>4 DEF HitsOf, NoText
<1> QED BY <1>3, <1>4

\* The chunk a term came from answers for it, when no filter is set.
LEMMA CorrectionHits ==
  ASSUME StoreOk, NEW w \in vocab, NEW q, NEW inside, q.filter = NoLabel
  PROVE  HitsOf(q, {w}, inside, "porter") # {}
<1>1. PICK c \in 1..Len(chunks): w \in Content(chunks[c]).words
  BY DEF StoreOk, Holds
<1>2. PorterHit({w}, c)
  BY <1>1 DEF PorterHit
<1> QED BY <1>2 DEF HitsOf, Eligible

LEMMA TierFacts ==
  ASSUME StoreOk, SearchesOk, NEW s \in SearchIds, Tier(s)
  PROVE  SearchesOk'
<1> DEFINE q == Searchers[s]
           w == search[s].fixed
           words == IF w = 0 THEN q.words ELSE {w}
           inside == IF w = 0 THEN q.inside ELSE {w}
           tier == IF search[s].pc \in {"porter", "porter2"} THEN "porter" ELSE "trigram"
           next == CASE search[s].pc = "porter" -> "trigram"
                     [] search[s].pc = "trigram" -> "fuzzy"
                     [] search[s].pc = "porter2" -> "trigram2"
                     [] OTHER -> "count"
           cm(r) == convertMatches(q, search[s].known, r)
           layer == IF w = 0 THEN tier ELSE "fuzzy"
<1>1. SearchOk(s)
  BY DEF SearchesOk
<1>2. search[s].pc \in {"porter", "trigram", "porter2", "trigram2"} /\ StoreSame
  BY DEF Tier, StoreSame
<1>3. PICK r \in Ranked(q, words, inside, tier):
        search' = IF r = <<>> THEN [search EXCEPT ![s].pc = next]
                  ELSE [search EXCEPT ![s].pc = "count", ![s].found = cm(r), ![s].layer = layer]
  BY DEF Tier
<1>4. q.limit \in Nat \ {0}
  BY SearchAssumption DEF SearchIds
<1>5. r \in Seq(1..Len(chunks)) /\ (r = <<>> => HitsOf(q, words, inside, tier) = {})
  <2> HIDE DEF q, words, inside, tier
  <2> QED BY <1>3, <1>4, RankedFacts
<1>6. CASE r # <<>>
  <2> DEFINE t == [search[s] EXCEPT !.pc = "count", !.found = cm(r), !.layer = layer]
  <2>1. cm(r) # <<>> /\ \A n \in 1..Len(cm(r)): Named(cm(r)[n], search[s].known)
    <3> HIDE DEF q
    <3> QED BY <1>5, <1>6, ConvertFacts
  <2> HIDE DEF cm, layer
  <2>2. search' = [search EXCEPT ![s] = t]
    BY <1>3, <1>6 DEF SearchesOk
  <2>3. /\ {"pc", "known", "floor", "terms", "found", "layer", "fixed"} \subseteq DOMAIN t
        /\ t.pc = "count" /\ t.floor = search[s].floor /\ t.terms = search[s].terms
        /\ t.found = cm(r) /\ t.known = search[s].known
    BY <1>1 DEF SearchOk
  <2> DEFINE found == cm(r)
  <2>4. found # <<>> /\ \A n \in 1..Len(found): Named(found[n], search[s].known)
    BY <2>1
  <2>5. t.found = found
    BY <2>3
  <2> HIDE DEF t, found
  <2>6. ASSUME search'[s] = t PROVE SearchOk(s)'
    <3>1. /\ search'[s].found = found /\ search'[s].known = search[s].known
      BY <2>3, <2>5, <2>6
    <3>2. ASSUME NEW x, NEW known, Named(x, known) PROVE Named(x, known)'
      BY <1>2, <3>2 DEF StoreSame, Named
    <3>3. \A n \in 1..Len(found): Named(found[n], search[s].known)
      BY <2>4
    <3>4. (\A n \in 1..Len(search[s].found): Named(search[s].found[n], search[s].known))'
      BY <1>2, <3>1, <3>3 DEF StoreSame, Named
    <3> QED BY <1>1, <1>2, <2>3, <2>4, <2>5, <2>6, <3>4 DEF SearchOk, StoreSame
  <2> QED BY <1>2, <2>2, <2>6, SameStore, SearchMoves DEF StoreSame
<1>7. CASE r = <<>>
  <2> DEFINE t == [search[s] EXCEPT !.pc = next]
  <2>1. search' = [search EXCEPT ![s] = t]
    BY <1>3, <1>7
  <2>2. HitsOf(q, words, inside, tier) = {}
    BY <1>5, <1>7
  <2>3. search[s].pc = "porter" => NoWords(s) /\ w = 0
    <3>1. ASSUME search[s].pc = "porter" PROVE w = 0 /\ words = q.words /\ tier = "porter"
      BY <1>1, <3>1 DEF SearchOk
    <3> QED BY <1>1, <2>2, <3>1, EmptyTier
  <2>4. search[s].pc = "trigram" => NoWords(s) /\ NoText(s) /\ w = 0
    <3>1. ASSUME search[s].pc = "trigram" PROVE w = 0 /\ inside = q.inside /\ tier = "trigram" /\ NoWords(s)
      BY <1>1, <3>1 DEF SearchOk
    <3> QED BY <1>1, <2>2, <3>1, EmptyTier
  <2>5. search[s].pc \in {"porter2", "trigram2"} => NoWords(s) /\ NoText(s) /\ w \in vocab
    BY <1>1 DEF SearchOk
  <2>6. search[s].pc = "porter2" => q.filter # NoLabel
    <3>1. SUFFICES ASSUME search[s].pc = "porter2", q.filter = NoLabel PROVE FALSE
      OBVIOUS
    <3>2. w \in vocab /\ w # 0
      BY <1>1, <3>1, LibraryAssumptions DEF SearchOk, StoreOk
    <3>3. words = {w} /\ tier = "porter"
      BY <3>1, <3>2
    <3>4. HitsOf(q, {w}, inside, "porter") # {}
      <4> HIDE DEF q, inside, w
      <4> QED BY <3>1, <3>2, CorrectionHits
    <3> QED BY <2>2, <3>3, <3>4
  <2>7. search[s].pc = "trigram2" => NoneNear(s)
    BY <1>1 DEF SearchOk, NoneNear
  <2>8. search[s].found = search[s].found
    OBVIOUS
  <2>9. /\ {"pc", "known", "floor", "terms", "found", "layer", "fixed"} \subseteq DOMAIN t
        /\ t.pc = next /\ t.floor = search[s].floor /\ t.terms = search[s].terms
        /\ t.found = search[s].found /\ t.known = search[s].known /\ t.fixed = w
    BY <1>1 DEF SearchOk
  <2>10. /\ search[s].pc = "porter" => next = "trigram"
         /\ search[s].pc = "trigram" => next = "fuzzy"
         /\ search[s].pc = "porter2" => next = "trigram2"
         /\ search[s].pc = "trigram2" => next = "count"
    OBVIOUS
  <2> HIDE DEF t, next
  <2>11. ASSUME search'[s] = t PROVE SearchOk(s)'
    <3>1. /\ NoWords(s)' <=> NoWords(s)
          /\ NoText(s)' <=> NoText(s)
          /\ NoneNear(s)' <=> NoneNear(s)
          /\ (\A n \in 1..Len(search[s].found): Named(search[s].found[n], search[s].known))'
      BY <1>1, <1>2, <2>9, <2>11, FactsStay DEF SearchOk
    <3> QED BY <1>1, <1>2, <2>3, <2>4, <2>5, <2>6, <2>7, <2>9, <2>10, <2>11, <3>1 DEF SearchOk, StoreSame
  <2> QED BY <1>2, <2>1, <2>11, SameStore, SearchMoves DEF StoreSame
<1> QED BY <1>6, <1>7

LEMMA SearchStepFacts ==
  ASSUME StoreOk, ItemsOk, SearchesOk, NEW s \in SearchIds, SearchStep(s)
  PROVE  StoreOk' /\ ItemsOk' /\ SearchesOk'
<1>1. StoreSame /\ item' = item
  BY DEF SearchStep, ListSources, Tier, Correct, FailSearch, CountSearch, CountBytes, StoreSame
<1>2. StoreOk' /\ ItemsOk'
  BY <1>1, SameStore DEF StoreSame, ItemsOk, ItemOk, Saved
<1>3. SearchesOk'
  BY ListSourcesFacts, TierFacts, CorrectFacts, FailSearchFacts, CountFacts DEF SearchStep
<1> QED BY <1>2, <1>3

-----------------------------------------------------------------------------
(* The theorem. *)

LibInv == StoreOk /\ ItemsOk /\ SearchesOk

LEMMA LibInitially ==
  ASSUME NEW b, NEW n, LibInit(b, n)
  PROVE  LibInv
<1>1. /\ sources = <<>> /\ chunks = <<>> /\ vocab = {}
      /\ item = [i \in ItemIds |-> [pc |-> "queued", src |-> 0, k |-> 1]]
      /\ search = [s \in SearchIds |->
           [pc |-> "start", known |-> {}, floor |-> 0, terms |-> {}, found |-> <<>>,
            layer |-> NoLabel, fixed |-> 0]]
  BY DEF LibInit
<1>2. StoreOk
  BY <1>1 DEF StoreOk
<1>3. ItemsOk
  BY <1>1 DEF ItemsOk, ItemOk
<1>4. SearchesOk
  BY <1>1 DEF SearchesOk, SearchOk
<1> QED BY <1>2, <1>3, <1>4 DEF LibInv

LEMMA LibStep ==
  ASSUME LibInv, [LibNext(SearchIds) \/ StatsNext]_libVars
  PROVE  LibInv'
<1> USE DEF LibInv
<1>1. ASSUME NEW i \in ItemIds, IndexStep(i) PROVE LibInv'
  <2>1. StoreOk' /\ ItemsOk' /\ StoreGrows /\ search' = search
    BY <1>1, IndexStepFacts
  <2>2. \A s \in SearchIds: SearchOk(s)'
    BY <2>1, OtherSearch DEF SearchesOk
  <2> QED BY <2>1, <2>2 DEF SearchesOk
<1>2. ASSUME NEW s \in SearchIds, SearchStep(s) PROVE LibInv'
  BY <1>2, SearchStepFacts
<1>3. CASE StoreSame /\ item' = item /\ search' = search
  <2>1. StoreOk' /\ StoreGrows
    BY <1>3, SameStore DEF StoreSame
  <2>2. ItemsOk'
    BY <1>3 DEF ItemsOk, ItemOk, Saved, StoreSame
  <2>3. \A s \in SearchIds: SearchOk(s)'
    BY <1>3, <2>1, OtherSearch DEF SearchesOk
  <2> QED BY <1>3, <2>1, <2>2, <2>3 DEF SearchesOk
<1>4. CASE Close \/ StatsNext \/ UNCHANGED libVars
  BY <1>3, <1>4 DEF Close, StatsNext, ReadCounters, ReadBytes, ReadSearches, libVars, StoreSame
<1> QED BY <1>1, <1>2, <1>4 DEF LibNext

LEMMA LibInvSays ==
  ASSUME LibInv
  PROVE  EmptySearchOverlooksNothing
<1>1. ASSUME NEW s \in SearchIds, search[s].pc = "done", search[s].found = <<>>
      PROVE  /\ \A c \in {d \in Eligible(Searchers[s]): d <= search[s].floor}:
                  ~PorterHit(Searchers[s].words, c) /\ ~TrigramHit(Searchers[s].inside, c)
             /\ Searchers[s].filter = NoLabel => \A w \in search[s].terms: Searchers[s].dist[w] > 2
  <2>1. SearchOk(s)
    BY DEF LibInv, SearchesOk
  <2>2. NoWords(s) /\ NoText(s) /\ NoneNear(s) /\ search[s].floor \in Nat
    BY <1>1, <2>1 DEF SearchOk
  <2>3. ASSUME NEW c \in Eligible(Searchers[s]), c <= search[s].floor
        PROVE  c \in 1..search[s].floor /\ Passes(Searchers[s], c)
    BY <2>2, <2>3, Lengths DEF Eligible, Passes, LibInv
  <2> QED BY <2>2, <2>3 DEF NoWords, NoText, NoneNear
<1>2. ASSUME NEW s \in SearchIds, NEW n \in 1..Len(search[s].found)
      PROVE  LET r == search[s].found[n]
                 src == chunks[r.chunk].src
             IN r.label = sources[src].label \/ (r.label = NoLabel /\ src \notin search[s].known)
  BY DEF LibInv, SearchesOk, SearchOk, Named
<1> QED BY <1>1, <1>2 DEF EmptySearchOverlooksNothing

\* In every run of an instance, an empty search overlooked nothing and every
\* result is named after its own source (gist.go, search.go, fuzzy.go).
THEOREM EmptySearchesOverlookNothing == LibSpec => []EmptySearchOverlooksNothing
<1>1. (\E b \in {"memory", "postgres"}, n \in Nat: LibInit(b, n)) => LibInv
  BY LibInitially
<1>2. LibInv /\ [LibNext(SearchIds) \/ StatsNext]_libVars => LibInv'
  BY LibStep
<1>3. LibInv => EmptySearchOverlooksNothing
  BY LibInvSays
<1> QED BY <1>1, <1>2, <1>3, PTL DEF LibSpec

-----------------------------------------------------------------------------
(* Executions. *)

\* An execution has its file from its creation to its removal, and only when
\* it was admitted; it has a subprocess while it runs.
ExecutionOk(r) ==
  /\ {"pc", "result"} \subseteq DOMAIN run[r]
  /\ run[r].pc \in {"start", "create", "write", "spawn", "running", "remove", "done"}
  /\ r \in temps <=> run[r].pc \in {"write", "spawn", "running", "remove"}
  /\ r \in child <=> run[r].pc = "running"
  /\ run[r].pc \in {"create", "write", "spawn", "running", "remove"} =>
       ~Runs[r].denied /\ Runs[r].lang \in Installed

ExecutionsOk ==
  /\ run = [r \in RunIds |-> run[r]]
  /\ \A r \in RunIds: ExecutionOk(r)

LEMMA ExecutionMoves ==
  ASSUME ExecutionsOk, NEW r \in RunIds, NEW t, run' = [run EXCEPT ![r] = t],
         \A q \in RunIds \ {r}: (q \in temps' <=> q \in temps) /\ (q \in child' <=> q \in child),
         {"pc", "result"} \subseteq DOMAIN t,
         t.pc \in {"start", "create", "write", "spawn", "running", "remove", "done"},
         r \in temps' <=> t.pc \in {"write", "spawn", "running", "remove"},
         r \in child' <=> t.pc = "running",
         t.pc \in {"create", "write", "spawn", "running", "remove"} =>
           ~Runs[r].denied /\ Runs[r].lang \in Installed
  PROVE  ExecutionsOk'
<1>1. run' = [q \in RunIds |-> run'[q]] /\ run'[r] = t /\ \A q \in RunIds \ {r}: run'[q] = run[q]
  BY DEF ExecutionsOk
<1>2. ExecutionOk(r)'
  BY <1>1 DEF ExecutionOk
<1>3. ASSUME NEW q \in RunIds \ {r} PROVE ExecutionOk(q)'
  BY <1>1 DEF ExecutionsOk, ExecutionOk
<1> QED BY <1>1, <1>2, <1>3 DEF ExecutionsOk

LEMMA ExecutionSteps ==
  ASSUME ExecutionsOk, NEW r \in RunIds,
         Admit(r) \/ CreateTemp(r) \/ WriteCode(r) \/ Spawn(r) \/ ChildExits(r) \/ KillChild(r) \/ RemoveTemp(r)
  PROVE  ExecutionsOk'
<1>1. ExecutionOk(r) /\ run = [q \in RunIds |-> run[q]]
  BY DEF ExecutionsOk
<1>2. CASE Admit(r)
  <2> DEFINE t == IF ~PolicyAllows(Runs[r]) THEN [pc |-> "done", result |-> "denied"]
                  ELSE IF Runs[r].lang \notin Installed THEN [pc |-> "done", result |-> "unsupported"]
                       ELSE [pc |-> "create", result |-> NoResult]
  <2>1. run[r].pc = "start" /\ run' = [run EXCEPT ![r] = t] /\ UNCHANGED <<temps, child>>
    BY <1>2 DEF Admit
  <2>2. /\ {"pc", "result"} \subseteq DOMAIN t /\ t.pc \in {"create", "done"}
        /\ t.pc = "create" => ~Runs[r].denied /\ Runs[r].lang \in Installed
    BY DEF PolicyAllows
  <2> HIDE DEF t
  <2> QED BY <1>1, <2>1, <2>2, ExecutionMoves DEF ExecutionOk
<1>3. CASE CreateTemp(r)
  <2> DEFINE a == [run[r] EXCEPT !.pc = "write"]
             b == [pc |-> "done", result |-> "error"]
  <2>1. {"pc", "result"} \subseteq DOMAIN a /\ a.pc = "write" /\ {"pc", "result"} \subseteq DOMAIN b /\ b.pc = "done"
    BY <1>1 DEF ExecutionOk
  <2>2. /\ run[r].pc = "create" /\ UNCHANGED child
        /\ \/ temps' = temps \cup {r} /\ run' = [run EXCEPT ![r] = a]
           \/ UNCHANGED temps /\ run' = [run EXCEPT ![r] = b]
    BY <1>3 DEF CreateTemp
  <2> HIDE DEF a, b
  <2> QED BY <1>1, <2>1, <2>2, ExecutionMoves DEF ExecutionOk
<1>4. CASE WriteCode(r)
  <2> DEFINE a == [run[r] EXCEPT !.pc = "spawn"]
             b == [pc |-> "remove", result |-> "error"]
  <2>1. {"pc", "result"} \subseteq DOMAIN a /\ a.pc = "spawn" /\ {"pc", "result"} \subseteq DOMAIN b /\ b.pc = "remove"
    BY <1>1 DEF ExecutionOk
  <2>2. /\ run[r].pc = "write" /\ UNCHANGED <<temps, child>>
        /\ run' = [run EXCEPT ![r] = a] \/ run' = [run EXCEPT ![r] = b]
    BY <1>4 DEF WriteCode
  <2> HIDE DEF a, b
  <2> QED BY <1>1, <2>1, <2>2, ExecutionMoves DEF ExecutionOk
<1>5. CASE Spawn(r)
  <2> DEFINE a == [run[r] EXCEPT !.pc = "running"]
             b == [pc |-> "remove", result |-> "error"]
  <2>1. {"pc", "result"} \subseteq DOMAIN a /\ a.pc = "running" /\ {"pc", "result"} \subseteq DOMAIN b /\ b.pc = "remove"
    BY <1>1 DEF ExecutionOk
  <2>2. /\ run[r].pc = "spawn" /\ UNCHANGED temps
        /\ \/ child' = child \cup {r} /\ run' = [run EXCEPT ![r] = a]
           \/ UNCHANGED child /\ run' = [run EXCEPT ![r] = b]
    BY <1>5 DEF Spawn
  <2> HIDE DEF a, b
  <2> QED BY <1>1, <2>1, <2>2, ExecutionMoves DEF ExecutionOk
<1>6. CASE ChildExits(r) \/ KillChild(r)
  <2>1. PICK why: run' = [run EXCEPT ![r] = [pc |-> "remove", result |-> why]]
    BY <1>6 DEF ChildExits, KillChild
  <2> DEFINE t == [pc |-> "remove", result |-> why]
  <2>2. {"pc", "result"} \subseteq DOMAIN t /\ t.pc = "remove" /\ run' = [run EXCEPT ![r] = t]
    BY <2>1
  <2>3. run[r].pc = "running" /\ child' = child \ {r} /\ UNCHANGED temps
    BY <1>6 DEF ChildExits, KillChild
  <2> HIDE DEF t
  <2> QED BY <1>1, <2>2, <2>3, ExecutionMoves DEF ExecutionOk
<1>7. CASE RemoveTemp(r)
  <2> DEFINE t == [run[r] EXCEPT !.pc = "done"]
  <2>1. {"pc", "result"} \subseteq DOMAIN t /\ t.pc = "done"
    BY <1>1 DEF ExecutionOk
  <2>2. run[r].pc = "remove" /\ temps' = temps \ {r} /\ UNCHANGED child /\ run' = [run EXCEPT ![r] = t]
    BY <1>7 DEF RemoveTemp
  <2> HIDE DEF t
  <2> QED BY <1>1, <2>1, <2>2, ExecutionMoves DEF ExecutionOk
<1> QED BY <1>2, <1>3, <1>4, <1>5, <1>6, <1>7

\* However executions, their timeouts and their failures interleave, an
\* answered one has left neither file nor subprocess behind, and refused code
\* never reached the disk (Executor.Execute).
THEOREM RunsAlwaysLeaveNothingBehind == ExecSpec => []RunsLeaveNothingBehind
<1>1. ExecInit => ExecutionsOk
  BY DEF ExecInit, ExecutionsOk, ExecutionOk
<1>2. ExecutionsOk /\ [ExecNext]_execVars => ExecutionsOk'
  <2>1. ASSUME ExecutionsOk, ExecNext PROVE ExecutionsOk'
    BY <2>1, ExecutionSteps DEF ExecNext
  <2>2. ASSUME ExecutionsOk, UNCHANGED execVars PROVE ExecutionsOk'
    BY <2>2 DEF execVars, ExecutionsOk, ExecutionOk
  <2> QED BY <2>1, <2>2
<1>3. ExecutionsOk => RunsLeaveNothingBehind
  BY DEF ExecutionsOk, ExecutionOk, RunsLeaveNothingBehind
<1> QED BY <1>1, <1>2, <1>3, PTL DEF ExecSpec

-----------------------------------------------------------------------------
(* What an item has stored. *)

\* A sum of the first n numbers exists for every n.
LEMMA SumExists ==
  ASSUME NEW N \in Nat, NEW d \in [1..N -> Nat]
  PROVE  \E f \in [0..N -> Nat]: f[0] = 0 /\ \A n \in 1..N: f[n] = f[n - 1] + d[n]
<1> DEFINE Good(m) == \E f \in [0..m -> Nat]: f[0] = 0 /\ \A n \in 1..m: f[n] = f[n - 1] + d[n]
           Bad == {m \in 0..N: ~Good(m)}
<1>0. Good(N) <=> N \notin Bad
  <2>1. N \in 0..N
    OBVIOUS
  <2> HIDE DEF Good
  <2> QED BY <2>1
<1>1. SUFFICES ASSUME Bad # {} PROVE FALSE
  <2> HIDE DEF Bad
  <2> QED BY <1>0, <1>1
<1>2. PICK m \in Bad: \A x \in Bad: m <= x
  <2>1. Bad \in SUBSET Nat
    OBVIOUS
  <2> HIDE DEF Bad
  <2> QED BY <1>1, <2>1, LeastExists
<1>3. m \in 0..N /\ ~Good(m)
  BY <1>2
<1>4. m # 0
  <2> DEFINE z == [n \in 0..0 |-> 0]
  <2>1. z \in [0..0 -> Nat] /\ z[0] = 0 /\ \A n \in 1..0: z[n] = z[n - 1] + d[n]
    OBVIOUS
  <2>2. Good(0)
    <3> HIDE DEF z
    <3> QED BY <2>1
  <2> QED BY <1>3, <2>2
<1>5. Good(m - 1)
  <2>1. m - 1 \in 0..N /\ ~(m <= m - 1)
    BY <1>3, <1>4
  <2>2. m - 1 \notin Bad
    BY <1>2, <2>1
  <2> QED BY <2>1, <2>2
<1>6. PICK f \in [0..(m - 1) -> Nat]: f[0] = 0 /\ \A n \in 1..(m - 1): f[n] = f[n - 1] + d[n]
  BY <1>5
<1> DEFINE g == [n \in 0..m |-> IF n = m THEN f[m - 1] + d[m] ELSE f[n]]
<1>7. m \in 1..N /\ m - 1 \in 0..(m - 1) /\ d[m] \in Nat /\ f[m - 1] \in Nat
  BY <1>3, <1>4
<1>8. \A n \in 0..m: n = m \/ n \in 0..(m - 1)
  BY <1>7
<1>9. \A n \in 0..m: g[n] \in Nat
  BY <1>7, <1>8
<1>10. g \in [0..m -> Nat] /\ g[0] = 0
  BY <1>6, <1>7, <1>9
<1>11. ASSUME NEW n \in 1..m PROVE g[n] = g[n - 1] + d[n]
  <2>1. n - 1 \in 0..(m - 1) /\ n - 1 # m /\ n \in 0..m /\ n - 1 \in 0..m
    BY <1>7
  <2>2. g[n - 1] = f[n - 1]
    BY <2>1
  <2>3. CASE n = m
    BY <2>1, <2>2, <2>3
  <2>4. CASE n # m
    BY <2>1, <2>2, <2>4, <1>6
  <2> QED BY <2>3, <2>4
<1> QED BY <1>3, <1>10, <1>11

\* The bytes of a document's first chunks: none, and one chunk's more each time.
LEMMA DocBytesFacts ==
  ASSUME NEW i \in ItemIds
  PROVE  /\ DocBytes(i)[0] = 0
         /\ \A n \in 1..Len(DocChunks[i]): DocBytes(i)[n] = DocBytes(i)[n - 1] + DocChunks[i][n].size
         /\ \A n \in 0..Len(DocChunks[i]): DocBytes(i)[n] \in Nat
<1> DEFINE N == Len(DocChunks[i])
           d == [n \in 1..N |-> DocChunks[i][n].size]
           Is(f) == f = [n \in 0..N |-> IF n = 0 THEN 0 ELSE f[n - 1] + DocChunks[i][n].size]
<1>1. N \in Nat /\ d \in [1..N -> Nat]
  BY ChunkWords
<1>2. \E f \in [0..N -> Nat]: f[0] = 0 /\ \A n \in 1..N: f[n] = f[n - 1] + d[n]
  <2> HIDE DEF N, d
  <2> QED BY <1>1, SumExists
<1>3. PICK f \in [0..N -> Nat]: f[0] = 0 /\ \A n \in 1..N: f[n] = f[n - 1] + d[n]
  BY <1>2
<1>9. \A n \in 1..N: n \in 0..N /\ n - 1 \in 0..N /\ f[n] = f[n - 1] + DocChunks[i][n].size
  <2>1. ASSUME NEW n \in 1..N PROVE d[n] = DocChunks[i][n].size
    OBVIOUS
  <2> HIDE DEF d
  <2> QED BY <1>1, <1>3, <2>1
<1>4. Is(f)
  <2>1. \A n \in 0..N: f[n] = IF n = 0 THEN 0 ELSE f[n - 1] + DocChunks[i][n].size
    <3>1. \A n \in 0..N: n = 0 \/ n \in 1..N
      BY <1>1
    <3>2. f[0] = 0
      BY <1>3
    <3> HIDE DEF N, d
    <3> QED BY <1>9, <3>1, <3>2
  <2> HIDE DEF d
  <2> QED BY <2>1
<1>5. DocBytes(i) = CHOOSE h: Is(h)
  BY DEF DocBytes
<1>6. Is(DocBytes(i))
  <2> HIDE DEF Is
  <2> QED BY <1>4, <1>5
<1> DEFINE b == DocBytes(i)
<1>7. \A n \in 0..N: b[n] = f[n]
  <2> DEFINE Bad == {n \in 0..N: b[n] # f[n]}
  <2>0. b = [n \in 0..N |-> IF n = 0 THEN 0 ELSE b[n - 1] + DocChunks[i][n].size]
    BY <1>6
  <2> HIDE DEF b
  <2>1. SUFFICES ASSUME Bad # {} PROVE FALSE
    OBVIOUS
  <2>2. Bad \in SUBSET Nat
    BY <1>1
  <2>3. PICK m \in Bad: \A x \in Bad: m <= x
    <3> HIDE DEF Bad
    <3> QED BY <2>1, <2>2, LeastExists
  <2>4. m \in 0..N /\ b[m] # f[m] /\ (m = 0 \/ (m - 1 \in 0..N /\ m \in 1..N /\ ~(m <= m - 1)))
    BY <1>1, <2>3
  <2>5. m # 0
    BY <1>3, <2>0, <2>4
  <2>6. b[m - 1] = f[m - 1]
    BY <2>3, <2>4, <2>5
  <2>7. b[m] = b[m - 1] + DocChunks[i][m].size
    BY <2>0, <2>4, <2>5
  <2>8. f[m] = f[m - 1] + DocChunks[i][m].size
    BY <1>3, <2>4, <2>5
  <2> QED BY <2>4, <2>6, <2>7, <2>8
<1>8. \A n \in 0..N: f[n] \in Nat
  BY <1>3
<1> HIDE DEF d
<1> QED BY <1>1, <1>3, <1>7, <1>8, <1>9

\* The words of the first n chunks are in the vocabulary.
WordsUpTo(i, n) == \A k \in 1..n: DocChunks[i][k].words \subseteq vocab

\* The source of item i, with the bytes of its first n chunks.
SourceUpTo(i, n) ==
  /\ item[i].src \in 1..Len(sources)
  /\ sources[item[i].src] = [item |-> i, label |-> Labels[i], bytes |-> DocBytes(i)[n]]

\* How many chunks an item has stored, added to its source, and made known,
\* by where it stands.
ItemStored(i) ==
  /\ item[i].pc \in {"queued", "source"} => Stored(i) = {}
  /\ item[i].pc = "chunk" =>
       StoredUpTo(i, item[i].k - 1) /\ SourceUpTo(i, item[i].k - 1) /\ WordsUpTo(i, item[i].k - 1)
  /\ item[i].pc = "bytes" =>
       StoredUpTo(i, item[i].k) /\ SourceUpTo(i, item[i].k - 1) /\ WordsUpTo(i, item[i].k - 1)
  /\ item[i].pc = "terms" =>
       StoredUpTo(i, item[i].k) /\ SourceUpTo(i, item[i].k) /\ WordsUpTo(i, item[i].k - 1)
  /\ item[i].pc \in {"stats", "done"} =>
       /\ StoredUpTo(i, Len(DocChunks[i])) /\ SourceUpTo(i, Len(DocChunks[i]))
       /\ WordsUpTo(i, Len(DocChunks[i]))

ItemsStored == \A i \in ItemIds: ItemStored(i)

\* A step of item i changes its own rows and no others.
OwnRows(i) ==
  /\ \A n \in 1..Len(sources): sources[n].item # i => sources'[n] = sources[n]
  /\ \A c \in 1..Len(chunks'): c \in 1..Len(chunks) \/ chunks'[c].item = i

LEMMA StoredStays ==
  ASSUME NEW j \in ItemIds, Stored(j)' = Stored(j), \A c \in Stored(j): chunks'[c] = chunks[c],
         item'[j].src = item[j].src
  PROVE  \A n: StoredUpTo(j, n)' <=> StoredUpTo(j, n)
<1> DEFINE S == Stored(j)
<1>1. S' = S
  OBVIOUS
<1> HIDE DEF S
<1>2. \A n: StoredUpTo(j, n) <=>
         /\ \A c \in S: chunks[c].k \in 1..n /\ chunks[c].src = item[j].src
         /\ \A k \in 1..n: \E c \in S: chunks[c].k = k
         /\ \A c, d \in S: c < d => chunks[c].k < chunks[d].k
  BY DEF StoredUpTo, S
<1>3. \A n: StoredUpTo(j, n)' <=>
         /\ \A c \in S: chunks'[c].k \in 1..n /\ chunks'[c].src = item'[j].src
         /\ \A k \in 1..n: \E c \in S: chunks'[c].k = k
         /\ \A c, d \in S: c < d => chunks'[c].k < chunks'[d].k
  BY <1>1 DEF StoredUpTo, S
<1>4. \A c \in S: chunks'[c] = chunks[c]
  BY DEF S
<1> QED BY <1>2, <1>3, <1>4

LEMMA WordsStay ==
  ASSUME StoreGrows, NEW j \in ItemIds, NEW n, WordsUpTo(j, n)
  PROVE  WordsUpTo(j, n)'
BY DEF WordsUpTo, StoreGrows

LEMMA OtherItemStored ==
  ASSUME StoreOk, StoreOk', StoreGrows, NEW i \in ItemIds, OwnRows(i),
         NEW j \in ItemIds, j # i, ItemStored(j), item'[j] = item[j]
  PROVE  ItemStored(j)'
<1>1. Len(chunks) \in Nat /\ Len(chunks') \in Nat /\ Len(sources) \in Nat /\ Len(sources') \in Nat
  BY DEF StoreOk
<1>2. Stored(j)' = Stored(j) /\ \A c \in Stored(j): chunks'[c] = chunks[c]
  BY <1>1 DEF Stored, StoreGrows, OwnRows
<1>3. \A n: StoredUpTo(j, n)' <=> StoredUpTo(j, n)
  BY <1>2, StoredStays
<1>4. ASSUME NEW n, SourceUpTo(j, n) PROVE SourceUpTo(j, n)'
  <2>1. sources[item[j].src].item = j /\ item[j].src \in 1..Len(sources)
    BY <1>4 DEF SourceUpTo
  <2>2. sources'[item[j].src] = sources[item[j].src] /\ item[j].src \in 1..Len(sources')
    BY <1>1, <2>1 DEF OwnRows, StoreGrows
  <2> QED BY <1>4, <2>2 DEF SourceUpTo
<1>5. \A n: WordsUpTo(j, n) => WordsUpTo(j, n)'
  BY WordsStay
<1> QED BY <1>2, <1>3, <1>4, <1>5 DEF ItemStored

LEMMA OtherItemsStored ==
  ASSUME StoreOk, StoreOk', StoreGrows, ItemsOk, ItemsStored, NEW i \in ItemIds, OwnRows(i), NEW t,
         item' = [item EXCEPT ![i] = t], item'[i] = t => ItemStored(i)'
  PROVE  ItemsStored'
<1>1. item'[i] = t /\ \A j \in ItemIds \ {i}: item'[j] = item[j]
  BY DEF ItemsOk
<1>2. ASSUME NEW j \in ItemIds PROVE ItemStored(j)'
  BY <1>1, OtherItemStored DEF ItemsStored
<1> QED BY <1>2 DEF ItemsStored

LEMMA SameRows ==
  ASSUME NEW i, sources' = sources, chunks' = chunks
  PROVE  OwnRows(i)
BY DEF OwnRows

\* Bytes of item i are added to its own source.
LEMMA AddBytesTo ==
  ASSUME StoreOk, NEW i \in ItemIds, NEW n \in 1..Len(DocChunks[i]), item[i].k = n, SourceUpTo(i, n - 1)
  PROVE  /\ Len(AddBytes(i)) = Len(sources)
         /\ AddBytes(i)[item[i].src] = [item |-> i, label |-> Labels[i], bytes |-> DocBytes(i)[n]]
         /\ \A m \in 1..Len(sources): sources[m].item # i => AddBytes(i)[m] = sources[m]
<1> DEFINE s == item[i].src
           d == DocChunks[i][n].size
           row == [item |-> i, label |-> Labels[i], bytes |-> DocBytes(i)[n]]
<1>1. /\ s \in 1..Len(sources)
      /\ sources[s] = [item |-> i, label |-> Labels[i], bytes |-> DocBytes(i)[n - 1]]
  BY DEF SourceUpTo
<1>2. DocBytes(i)[n] = DocBytes(i)[n - 1] + d
  BY DocBytesFacts
<1>3. [sources[s] EXCEPT !.bytes = @ + d] = row
  BY <1>1, <1>2
<1>4. AddBytes(i) = [sources EXCEPT ![s] = [sources[s] EXCEPT !.bytes = @ + d]]
  BY DEF AddBytes
<1>5. AddBytes(i) = [sources EXCEPT ![s] = row] /\ sources[s].item = i
  BY <1>1, <1>3, <1>4
<1> HIDE DEF row, s, d
<1>6. DOMAIN sources = 1..Len(sources)
  BY DEF StoreOk
<1>7. Len(AddBytes(i)) = Len(sources)
  BY <1>5, <1>1 DEF StoreOk
<1>8. AddBytes(i)[s] = row /\ \A m \in 1..Len(sources): m # s => AddBytes(i)[m] = sources[m]
  BY <1>1, <1>5, <1>6
<1> QED BY <1>5, <1>7, <1>8 DEF s, row

LEMMA StartItemStores ==
  ASSUME StoreOk, ItemsOk, ItemsStored, NEW i \in ItemIds, StartItem(i)
  PROVE  ItemsStored'
<1> DEFINE t == [item[i] EXCEPT !.pc = "source"]
<1>1. /\ item' = [item EXCEPT ![i] = t] /\ item[i].pc = "queued"
      /\ sources' = sources /\ chunks' = chunks
  BY DEF StartItem
<1>2. t.pc = "source" /\ Stored(i) = {}
  BY <1>1 DEF ItemsOk, ItemOk, ItemsStored, ItemStored
<1>3. Stored(i)' = {}
  BY <1>1, <1>2 DEF Stored
<1> HIDE DEF t
<1>4. item'[i] = t => ItemStored(i)'
  BY <1>2, <1>3 DEF ItemStored
<1> QED BY <1>1, <1>4, SameRows, StartItemFacts, OtherItemsStored

LEMMA SaveSourceStores ==
  ASSUME StoreOk, ItemsOk, ItemsStored, NEW i \in ItemIds, SaveSource(i)
  PROVE  ItemsStored'
<1> DEFINE row == [item |-> i, label |-> Labels[i], bytes |-> 0]
           t == [item[i] EXCEPT !.src = Len(sources) + 1, !.pc = AfterChunks(i, 1)]
           N == Len(DocChunks[i])
<1>1. /\ item[i].pc = "source" /\ item' = [item EXCEPT ![i] = t] /\ chunks' = chunks
  BY DEF SaveSource, ItemsOk
<1>2. sources' = Append(sources, row)
  BY DEF SaveSource
<1>3. ItemOk(i) /\ ItemStored(i)
  BY DEF ItemsOk, ItemsStored
<1>4. N \in Nat
  BY ChunkWords
<1>5. /\ t.src = Len(sources) + 1 /\ t.k = 1 /\ t.pc \in {"chunk", "stats"} /\ (t.pc = "stats" => N = 0)
  BY <1>1, <1>3, <1>4 DEF ItemOk, AfterChunks
<1>6. /\ Len(sources') = Len(sources) + 1 /\ Len(sources) \in Nat /\ sources'[Len(sources) + 1] = row
      /\ \A n \in 1..Len(sources): sources'[n] = sources[n]
  <2> HIDE DEF row
  <2> QED BY <1>2 DEF StoreOk
<1>7. OwnRows(i)
  BY <1>1, <1>6 DEF OwnRows
<1>8. row = [item |-> i, label |-> Labels[i], bytes |-> DocBytes(i)[0]]
  BY DocBytesFacts
<1> HIDE DEF t, row
<1>9. Stored(i)' = {}
  BY <1>1, <1>3 DEF ItemStored, Stored
<1>10. ASSUME item'[i] = t PROVE StoredUpTo(i, 0)' /\ SourceUpTo(i, 0)' /\ WordsUpTo(i, 0)'
  <2>1. StoredUpTo(i, 0)'
    BY <1>9 DEF StoredUpTo
  <2>2. SourceUpTo(i, 0)'
    BY <1>5, <1>6, <1>8, <1>10 DEF SourceUpTo
  <2>3. WordsUpTo(i, 0)'
    BY DEF WordsUpTo
  <2> QED BY <2>1, <2>2, <2>3
<1>11. item'[i] = t => ItemStored(i)'
  <2>1. SUFFICES ASSUME item'[i] = t PROVE ItemStored(i)'
    OBVIOUS
  <2>2. item'[i].k = 1 /\ item'[i].k - 1 = 0 /\ item'[i].pc \in {"chunk", "stats"} /\ (item'[i].pc = "stats" => N = 0)
    BY <1>5, <2>1
  <2> QED BY <1>10, <2>1, <2>2 DEF ItemStored
<1> QED BY <1>1, <1>7, <1>11, SaveSourceFacts, OtherItemsStored

\* One more chunk of the document, the next one, is stored.
LEMMA OneMoreStored ==
  ASSUME StoreOk, NEW i \in ItemIds, NEW n \in Nat \ {0}, NEW row,
         row.item = i, row.src = item[i].src, row.k = n, item'[i].src = item[i].src,
         Len(chunks') = Len(chunks) + 1, chunks'[Len(chunks) + 1] = row,
         \A c \in 1..Len(chunks): chunks'[c] = chunks[c], StoredUpTo(i, n - 1)
  PROVE  StoredUpTo(i, n)'
<1> DEFINE last == Len(chunks) + 1
<1>1. Len(chunks) \in Nat /\ last \in 1..Len(chunks') /\ \A c \in 1..Len(chunks'): c = last \/ (c \in 1..Len(chunks) /\ c < last)
  BY DEF StoreOk
<1>2. \A c \in 1..Len(chunks'): c \in Stored(i)' <=> chunks'[c].item = i
  BY DEF Stored
<1>3. /\ \A c \in Stored(i)': c = last \/ (c \in Stored(i) /\ chunks'[c] = chunks[c] /\ c < last)
      /\ \A c \in Stored(i): c \in Stored(i)' /\ chunks'[c] = chunks[c]
      /\ last \in Stored(i)' /\ chunks'[last] = row
  <2>1. last \in Stored(i)'
    BY <1>1, <1>2
  <2>2. ASSUME NEW c \in Stored(i)' PROVE c = last \/ (c \in Stored(i) /\ chunks'[c] = chunks[c] /\ c < last)
    <3>1. c \in 1..Len(chunks') /\ chunks'[c].item = i
      BY DEF Stored
    <3> QED BY <1>1, <3>1 DEF Stored
  <2>3. ASSUME NEW c \in Stored(i) PROVE c \in Stored(i)' /\ chunks'[c] = chunks[c]
    <3>1. c \in 1..Len(chunks) /\ chunks[c].item = i
      BY DEF Stored
    <3>2. c \in 1..Len(chunks')
      BY <1>1, <3>1
    <3> QED BY <1>2, <3>1, <3>2
  <2> QED BY <2>1, <2>2, <2>3
<1>5. \A c \in Stored(i): chunks[c].k \in 1..(n - 1) /\ chunks[c].src = item[i].src
  BY DEF StoredUpTo
<1>6. ASSUME NEW c \in Stored(i)' PROVE chunks'[c].k \in 1..n /\ chunks'[c].src = item'[i].src
  BY <1>3, <1>5
<1>7. ASSUME NEW k \in 1..n PROVE \E c \in Stored(i)': chunks'[c].k = k
  <2>1. CASE k = n
    BY <1>3, <2>1
  <2>2. CASE k # n
    <3>1. k \in 1..(n - 1)
      BY <2>2
    <3>2. PICK c \in Stored(i): chunks[c].k = k
      BY <3>1 DEF StoredUpTo
    <3> QED BY <1>3, <3>2
  <2> QED BY <2>1, <2>2
<1>8. ASSUME NEW c \in Stored(i)', NEW d \in Stored(i)', c < d PROVE chunks'[c].k < chunks'[d].k
  <2>0. c \in Nat /\ d \in Nat /\ (c = last \/ c < last) /\ (d = last \/ d < last)
    BY <1>1, <1>3 DEF Stored
  <2>1. c # last
    BY <1>1, <1>8, <2>0
  <2>2. CASE d = last
    BY <1>3, <1>5, <2>1, <2>2
  <2>3. CASE d # last
    <3>1. c \in Stored(i) /\ d \in Stored(i) /\ chunks'[c] = chunks[c] /\ chunks'[d] = chunks[d]
      BY <1>3, <2>1, <2>3
    <3> QED BY <1>8, <3>1 DEF StoredUpTo
  <2> QED BY <2>2, <2>3
<1> QED BY <1>6, <1>7, <1>8 DEF StoredUpTo

LEMMA SaveChunkStores ==
  ASSUME StoreOk, ItemsOk, ItemsStored, NEW i \in ItemIds, SaveChunk(i)
  PROVE  ItemsStored'
<1>0. PICK n: n = item[i].k
  OBVIOUS
<1> DEFINE row == [item |-> i, src |-> item[i].src, k |-> item[i].k]
           pc == IF backend = "memory" THEN "terms" ELSE "bytes"
           t == [item[i] EXCEPT !.pc = pc]
<1>1. /\ item[i].pc = "chunk" /\ item' = [item EXCEPT ![i] = t]
      /\ \/ backend = "memory" /\ sources' = AddBytes(i)
         \/ backend # "memory" /\ sources' = sources
  BY DEF SaveChunk, ItemsOk
<1>2. chunks' = Append(chunks, row)
  BY DEF SaveChunk
<1>3. ItemOk(i) /\ StoredUpTo(i, n - 1) /\ SourceUpTo(i, n - 1) /\ WordsUpTo(i, n - 1)
  BY <1>0, <1>1 DEF ItemsOk, ItemsStored, ItemStored
<1>4. item[i].src \in 1..Len(sources) /\ n \in 1..Len(DocChunks[i]) /\ Len(DocChunks[i]) \in Nat
  BY <1>0, <1>1, <1>3, ChunkWords DEF ItemOk
<1>5. /\ Len(AddBytes(i)) = Len(sources)
      /\ AddBytes(i)[item[i].src] = [item |-> i, label |-> Labels[i], bytes |-> DocBytes(i)[n]]
      /\ \A m \in 1..Len(sources): sources[m].item # i => AddBytes(i)[m] = sources[m]
  BY <1>0, <1>3, <1>4, AddBytesTo
<1>6. row.item = i /\ row.src = item[i].src /\ row.k = n
  BY <1>0
<1>7. /\ Len(chunks') = Len(chunks) + 1 /\ Len(chunks) \in Nat /\ chunks'[Len(chunks) + 1] = row
      /\ \A c \in 1..Len(chunks): chunks'[c] = chunks[c]
  <2>1. row \in ChunkRow
    BY <1>0, <1>4, Lengths DEF ChunkRow
  <2> HIDE DEF row
  <2> QED BY <1>2, <2>1 DEF StoreOk
<1>8. t.src = item[i].src /\ t.k = n /\ t.pc = pc
  BY <1>0, <1>3 DEF ItemOk
<1>9. pc \in {"terms", "bytes"} /\ (pc = "terms" <=> backend = "memory")
  OBVIOUS
<1>10. item'[i] = t
  BY <1>1 DEF ItemsOk
<1>11. OwnRows(i)
  <2>1. \A m \in 1..Len(sources): sources[m].item # i => sources'[m] = sources[m]
    BY <1>1, <1>5
  <2>2. \A c \in 1..Len(chunks'): c \in 1..Len(chunks) \/ chunks'[c].item = i
    <3>1. \A c \in 1..Len(chunks'): c \in 1..Len(chunks) \/ c = Len(chunks) + 1
      BY <1>7
    <3> HIDE DEF row
    <3> QED BY <1>6, <1>7, <3>1
  <2> QED BY <2>1, <2>2 DEF OwnRows
<1> HIDE DEF t, pc, row
<1>12. StoredUpTo(i, n)'
  <2>1. n \in Nat \ {0} /\ item'[i].src = item[i].src
    BY <1>4, <1>8, <1>10
  <2> QED BY <1>3, <1>6, <1>7, <2>1, OneMoreStored
<1>13. WordsUpTo(i, n - 1)'
  BY <1>3, SaveChunkFacts, WordsStay
<1>14. CASE pc = "terms"
  <2>1. sources' = AddBytes(i)
    BY <1>1, <1>9, <1>14
  <2>2. SourceUpTo(i, n)'
    BY <1>4, <1>5, <1>8, <1>10, <2>1 DEF SourceUpTo
  <2>3. item'[i] = t => ItemStored(i)'
    BY <1>8, <1>12, <1>13, <1>14, <2>2 DEF ItemStored
  <2> QED BY <1>1, <1>11, <2>3, SaveChunkFacts, OtherItemsStored
<1>15. CASE pc = "bytes"
  <2>1. sources' = sources
    BY <1>1, <1>9, <1>15
  <2>2. SourceUpTo(i, n - 1)'
    BY <1>3, <1>8, <1>10, <2>1 DEF SourceUpTo
  <2>3. item'[i] = t => ItemStored(i)'
    BY <1>8, <1>12, <1>13, <1>15, <2>2 DEF ItemStored
  <2> QED BY <1>1, <1>11, <2>3, SaveChunkFacts, OtherItemsStored
<1> QED BY <1>9, <1>14, <1>15

LEMMA UpdateBytesStores ==
  ASSUME StoreOk, ItemsOk, ItemsStored, NEW i \in ItemIds, UpdateBytes(i)
  PROVE  ItemsStored'
<1>0. PICK n: n = item[i].k
  OBVIOUS
<1> DEFINE t == [item[i] EXCEPT !.pc = "terms"]
<1>1. /\ item[i].pc = "bytes" /\ item' = [item EXCEPT ![i] = t] /\ sources' = AddBytes(i) /\ chunks' = chunks
  BY DEF UpdateBytes
<1>2. ItemOk(i) /\ StoredUpTo(i, n) /\ SourceUpTo(i, n - 1) /\ WordsUpTo(i, n - 1)
  BY <1>0, <1>1 DEF ItemsOk, ItemsStored, ItemStored
<1>3. item[i].src \in 1..Len(sources) /\ n \in 1..Len(DocChunks[i])
  BY <1>0, <1>1, <1>2 DEF ItemOk
<1>4. /\ Len(AddBytes(i)) = Len(sources)
      /\ AddBytes(i)[item[i].src] = [item |-> i, label |-> Labels[i], bytes |-> DocBytes(i)[n]]
      /\ \A m \in 1..Len(sources): sources[m].item # i => AddBytes(i)[m] = sources[m]
  BY <1>0, <1>2, <1>3, AddBytesTo
<1>5. t.src = item[i].src /\ t.k = n /\ t.pc = "terms"
  BY <1>0, <1>2 DEF ItemOk
<1>6. item'[i] = t
  BY <1>1 DEF ItemsOk
<1> HIDE DEF t
<1>7. OwnRows(i)
  BY <1>1, <1>4 DEF OwnRows
<1>8. Stored(i)' = Stored(i) /\ item'[i].src = item[i].src
  BY <1>1, <1>5, <1>6 DEF Stored
<1>9. StoredUpTo(i, n)'
  BY <1>1, <1>2, <1>8, StoredStays
<1>10. SourceUpTo(i, n)'
  BY <1>1, <1>3, <1>4, <1>8 DEF SourceUpTo
<1>11. WordsUpTo(i, n - 1)'
  BY <1>2, UpdateBytesFacts, WordsStay
<1>12. item'[i] = t => ItemStored(i)'
  BY <1>5, <1>9, <1>10, <1>11 DEF ItemStored
<1> QED BY <1>1, <1>7, <1>12, UpdateBytesFacts, OtherItemsStored

LEMMA AddTermsStores ==
  ASSUME StoreOk, ItemsOk, ItemsStored, NEW i \in ItemIds, AddTerms(i)
  PROVE  ItemsStored'
<1>0. PICK n: n = item[i].k
  OBVIOUS
<1> DEFINE t == [item[i] EXCEPT !.k = @ + 1, !.pc = AfterChunks(i, item[i].k + 1)]
<1>1. /\ item[i].pc = "terms" /\ item' = [item EXCEPT ![i] = t] /\ sources' = sources /\ chunks' = chunks
      /\ vocab' = vocab \cup DocChunks[i][n].words
  BY <1>0 DEF AddTerms, ItemsOk
<1>2. ItemOk(i) /\ StoredUpTo(i, n) /\ SourceUpTo(i, n) /\ WordsUpTo(i, n - 1)
  BY <1>0, <1>1 DEF ItemsOk, ItemsStored, ItemStored
<1>3. n \in 1..Len(DocChunks[i]) /\ Len(DocChunks[i]) \in Nat
  BY <1>0, <1>1, <1>2, ChunkWords DEF ItemOk
<1>4. /\ t.src = item[i].src /\ t.k = n + 1 /\ t.pc \in {"chunk", "stats"}
      /\ (t.pc = "stats" => n = Len(DocChunks[i]))
  BY <1>0, <1>2, <1>3 DEF ItemOk, AfterChunks
<1>5. item'[i] = t
  BY <1>1 DEF ItemsOk
<1> HIDE DEF t
<1>6. Stored(i)' = Stored(i) /\ item'[i].src = item[i].src
  BY <1>1, <1>4, <1>5 DEF Stored
<1>7. StoredUpTo(i, n)'
  BY <1>1, <1>2, <1>6, StoredStays
<1>8. SourceUpTo(i, n)'
  BY <1>1, <1>2, <1>6 DEF SourceUpTo
<1>9. WordsUpTo(i, n)'
  <2>1. \A k \in 1..n: k = n \/ k \in 1..(n - 1)
    BY <1>3
  <2> QED BY <1>1, <1>2, <2>1 DEF WordsUpTo
<1>10. t.k - 1 = n
  BY <1>3, <1>4
<1>11. item'[i] = t => ItemStored(i)'
  BY <1>4, <1>7, <1>8, <1>9, <1>10 DEF ItemStored
<1> QED BY <1>1, <1>11, SameRows, AddTermsFacts, OtherItemsStored

LEMMA EndItemStores ==
  ASSUME StoreOk, ItemsOk, ItemsStored, NEW i \in ItemIds, CountItem(i) \/ FailItem(i)
  PROVE  ItemsStored'
<1>1. PICK p \in {"done", "failed"}: item' = [item EXCEPT ![i].pc = p] /\ (p = "done" => item[i].pc = "stats")
  BY DEF CountItem, FailItem
<1>2. PICK n: n = Len(DocChunks[i])
  OBVIOUS
<1> DEFINE t == [item[i] EXCEPT !.pc = p]
<1>3. item' = [item EXCEPT ![i] = t] /\ chunks' = chunks /\ sources' = sources
  BY <1>1 DEF CountItem, FailItem
<1>4. item'[i] = t /\ t.pc = p /\ t.src = item[i].src
  BY <1>3 DEF ItemsOk, ItemOk
<1> HIDE DEF t
<1>5. Stored(i)' = Stored(i) /\ item'[i].src = item[i].src
  BY <1>3, <1>4 DEF Stored
<1>6. ASSUME p = "done" PROVE StoredUpTo(i, n)' /\ SourceUpTo(i, n)' /\ WordsUpTo(i, n)'
  <2>1. StoredUpTo(i, n) /\ SourceUpTo(i, n) /\ WordsUpTo(i, n)
    BY <1>1, <1>2, <1>6 DEF ItemsStored, ItemStored
  <2>2. StoredUpTo(i, n)'
    BY <1>3, <1>5, <2>1, StoredStays
  <2>3. SourceUpTo(i, n)'
    BY <1>3, <1>5, <2>1 DEF SourceUpTo
  <2>4. WordsUpTo(i, n)'
    BY <2>1, EndItemFacts, WordsStay
  <2> QED BY <2>2, <2>3, <2>4
<1>7. item'[i] = t => ItemStored(i)'
  BY <1>2, <1>4, <1>6 DEF ItemStored
<1> QED BY <1>3, <1>7, SameRows, EndItemFacts, OtherItemsStored

LEMMA IndexStepStores ==
  ASSUME StoreOk, ItemsOk, ItemsStored, NEW i \in ItemIds, IndexStep(i)
  PROVE  ItemsStored'
BY StartItemStores, SaveSourceStores, SaveChunkStores, UpdateBytesStores, AddTermsStores, EndItemStores
   DEF IndexStep

-----------------------------------------------------------------------------
(* The statistics. *)

\* The items counted are those done, and the bytes returned those of counted
\* searches, also as a Stats call has read them.
CountersOk ==
  /\ counted = {i \in ItemIds: item[i].pc = "done"}
  /\ returned \subseteq searched /\ \A s \in SearchIds: search[s].pc = "bytes" => s \in searched
  /\ {"pc", "bytes", "searches"} \subseteq DOMAIN stats
  /\ stats.pc = "searches" => stats.bytes \subseteq searched
  /\ stats.pc = "done" => stats.bytes \subseteq stats.searches

LEMMA IndexStepCounts ==
  ASSUME ItemsOk, CountersOk, NEW i \in ItemIds, IndexStep(i)
  PROVE  CountersOk'
<1>1. PICK t: /\ item' = [item EXCEPT ![i] = t]
              /\ \/ item[i].pc # "done" /\ t.pc # "done" /\ counted' = counted
                 \/ t.pc = "done" /\ counted' = counted \cup {i}
              /\ search' = search /\ searched' = searched /\ returned' = returned /\ stats' = stats
  <2>1. {"pc", "src", "k"} \subseteq DOMAIN item[i] /\ item = [j \in ItemIds |-> item[j]]
    BY DEF ItemsOk, ItemOk
  <2>2. CASE StartItem(i)
    BY <2>1, <2>2 DEF StartItem
  <2>3. CASE SaveSource(i)
    BY <2>1, <2>3 DEF SaveSource, AfterChunks
  <2>4. CASE SaveChunk(i)
    BY <2>1, <2>4 DEF SaveChunk
  <2>5. CASE UpdateBytes(i)
    BY <2>1, <2>5 DEF UpdateBytes
  <2>6. CASE AddTerms(i)
    BY <2>1, <2>6 DEF AddTerms, AfterChunks
  <2>7. CASE CountItem(i)
    BY <2>1, <2>7 DEF CountItem
  <2>8. CASE FailItem(i)
    BY <2>1, <2>8 DEF FailItem
  <2> QED BY <2>2, <2>3, <2>4, <2>5, <2>6, <2>7, <2>8 DEF IndexStep
<1>2. item'[i] = t /\ \A j \in ItemIds \ {i}: item'[j] = item[j]
  BY <1>1 DEF ItemsOk
<1>3. counted' = {j \in ItemIds: item'[j].pc = "done"}
  BY <1>1, <1>2 DEF CountersOk
<1> QED BY <1>1, <1>3 DEF CountersOk

LEMMA SearchStepCounts ==
  ASSUME SearchesOk, CountersOk, NEW s \in SearchIds, SearchStep(s)
  PROVE  CountersOk'
<1>0. {"pc", "known", "floor", "terms", "found", "layer", "fixed"} \subseteq DOMAIN search[s]
  BY DEF SearchesOk, SearchOk
<1>1. PICK t: /\ search' = [search EXCEPT ![s] = t]
              /\ \/ t.pc # "bytes" /\ searched' = searched /\ returned' = returned
                 \/ searched' = searched \cup {s} /\ returned' = returned
                 \/ search[s].pc = "bytes" /\ t.pc # "bytes" /\ searched' = searched /\ returned' = returned \cup {s}
              /\ item' = item /\ counted' = counted /\ stats' = stats
  <2>2. CASE ListSources(s)
    BY <1>0, <2>2 DEF ListSources
  <2>3. CASE Tier(s)
    <3>1. PICK r: search' = IF r = <<>> THEN [search EXCEPT ![s].pc =
                              CASE search[s].pc = "porter" -> "trigram"
                                [] search[s].pc = "trigram" -> "fuzzy"
                                [] search[s].pc = "porter2" -> "trigram2"
                                [] OTHER -> "count"]
                    ELSE [search EXCEPT ![s].pc = "count",
                             ![s].found = convertMatches(Searchers[s], search[s].known, r),
                             ![s].layer = IF search[s].fixed = 0
                                          THEN IF search[s].pc \in {"porter", "porter2"} THEN "porter" ELSE "trigram"
                                          ELSE "fuzzy"]
      BY <2>3 DEF Tier
    <3>2. searched' = searched /\ returned' = returned /\ item' = item /\ counted' = counted /\ stats' = stats
      BY <2>3 DEF Tier
    <3> DEFINE next == CASE search[s].pc = "porter" -> "trigram"
                         [] search[s].pc = "trigram" -> "fuzzy"
                         [] search[s].pc = "porter2" -> "trigram2"
                         [] OTHER -> "count"
               found == convertMatches(Searchers[s], search[s].known, r)
               layer == IF search[s].fixed = 0
                        THEN IF search[s].pc \in {"porter", "porter2"} THEN "porter" ELSE "trigram"
                        ELSE "fuzzy"
               empty == [search[s] EXCEPT !.pc = next]
               full == [search[s] EXCEPT !.pc = "count", !.found = found, !.layer = layer]
    <3>3. CASE r = <<>>
      <4>1. search' = [search EXCEPT ![s] = empty]
        BY <3>1, <3>3
      <4>2. next # "bytes"
        OBVIOUS
      <4> HIDE DEF next
      <4>3. empty.pc # "bytes"
        BY <1>0, <4>2
      <4> HIDE DEF empty
      <4> QED BY <3>2, <4>1, <4>3
    <3>4. CASE r # <<>>
      <4> HIDE DEF found, layer
      <4>1. search' = [search EXCEPT ![s].pc = "count", ![s].found = found, ![s].layer = layer]
        BY <3>1, <3>4 DEF found, layer
      <4>2. search' = [search EXCEPT ![s] = full] /\ full.pc = "count"
        BY <1>0, <4>1 DEF SearchesOk
      <4> HIDE DEF full
      <4> QED BY <3>2, <4>2
    <3> QED BY <3>3, <3>4
  <2>4. CASE Correct(s)
    <3>1. PICK w: \/ search' = [search EXCEPT ![s].pc = "count"]
                  \/ search' = [search EXCEPT ![s].pc = "porter2", ![s].fixed = w]
      BY <2>4 DEF Correct
    <3>2. searched' = searched /\ returned' = returned /\ item' = item /\ counted' = counted /\ stats' = stats
      BY <2>4 DEF Correct
    <3> DEFINE none == [search[s] EXCEPT !.pc = "count"]
               near == [search[s] EXCEPT !.pc = "porter2", !.fixed = w]
    <3>3. search' = [search EXCEPT ![s] = none] \/ search' = [search EXCEPT ![s] = near]
      BY <3>1 DEF SearchesOk
    <3>4. none.pc = "count" /\ near.pc = "porter2"
      BY <1>0
    <3> HIDE DEF none, near
    <3> QED BY <3>2, <3>3, <3>4
  <2>5. CASE FailSearch(s)
    BY <1>0, <2>5 DEF FailSearch
  <2>6. CASE CountSearch(s)
    BY <1>0, <2>6 DEF CountSearch
  <2>7. CASE CountBytes(s)
    BY <1>0, <2>7 DEF CountBytes
  <2> QED BY <2>2, <2>3, <2>4, <2>5, <2>6, <2>7 DEF SearchStep
<1>2. search'[s] = t /\ \A r \in SearchIds \ {s}: search'[r] = search[r]
  BY <1>1 DEF SearchesOk
<1>3. /\ returned' \subseteq searched' /\ searched \subseteq searched'
      /\ \A r \in SearchIds: search'[r].pc = "bytes" => r \in searched'
  BY <1>1, <1>2 DEF CountersOk
<1>4. stats'.pc = "searches" => stats'.bytes \subseteq searched'
  BY <1>1, <1>3 DEF CountersOk
<1> QED BY <1>1, <1>3, <1>4 DEF CountersOk

LEMMA StatsCount ==
  ASSUME CountersOk, Close \/ StatsNext \/ UNCHANGED libVars
  PROVE  CountersOk'
<1>1. CASE Close \/ UNCHANGED libVars
  BY <1>1 DEF Close, libVars, CountersOk
<1>2. CASE ReadCounters
  BY <1>2 DEF ReadCounters, CountersOk
<1>3. CASE ReadBytes
  BY <1>3 DEF ReadBytes, CountersOk
<1>4. CASE ReadSearches
  BY <1>4 DEF ReadSearches, CountersOk
<1> QED BY <1>1, <1>2, <1>3, <1>4 DEF StatsNext

StoredInv == LibInv /\ ItemsStored /\ CountersOk

LEMMA StoredInitially ==
  ASSUME NEW b, NEW n, LibInit(b, n)
  PROVE  StoredInv
<1>1. LibInv
  BY LibInitially
<1>2. /\ chunks = <<>> /\ counted = {} /\ searched = {} /\ returned = {}
      /\ item = [i \in ItemIds |-> [pc |-> "queued", src |-> 0, k |-> 1]]
      /\ search = [s \in SearchIds |->
           [pc |-> "start", known |-> {}, floor |-> 0, terms |-> {}, found |-> <<>>,
            layer |-> NoLabel, fixed |-> 0]]
      /\ stats = [pc |-> "start", items |-> {}, bytes |-> {}, searches |-> {}]
  BY DEF LibInit
<1>3. ItemsStored
  BY <1>2 DEF ItemsStored, ItemStored, Stored
<1>4. CountersOk
  BY <1>2 DEF CountersOk
<1> QED BY <1>1, <1>3, <1>4 DEF StoredInv

\* Neither a search nor a Stats call changes what items have stored.
LEMMA ItemsStay ==
  ASSUME ItemsStored, sources' = sources, chunks' = chunks, vocab' = vocab, item' = item
  PROVE  ItemsStored'
<1>1. ASSUME NEW i \in ItemIds PROVE ItemStored(i)'
  <2>1. Stored(i)' = Stored(i)
    BY DEF Stored
  <2>2. \A n: StoredUpTo(i, n)' <=> StoredUpTo(i, n)
    BY <2>1, StoredStays
  <2>3. \A n: (SourceUpTo(i, n)' <=> SourceUpTo(i, n)) /\ (WordsUpTo(i, n)' <=> WordsUpTo(i, n))
    BY DEF SourceUpTo, WordsUpTo
  <2>4. ItemStored(i)
    BY DEF ItemsStored
  <2> QED BY <2>1, <2>2, <2>3, <2>4 DEF ItemStored
<1> QED BY <1>1 DEF ItemsStored

LEMMA StoredStep ==
  ASSUME StoredInv, [LibNext(SearchIds) \/ StatsNext]_libVars
  PROVE  StoredInv'
<1> USE DEF StoredInv
<1>1. LibInv'
  BY LibStep
<1>2. CASE \E i \in ItemIds: IndexStep(i)
  BY <1>1, <1>2, IndexStepStores, IndexStepCounts DEF LibInv
<1>3. ASSUME NEW s \in SearchIds, SearchStep(s) PROVE StoredInv'
  <2>1. sources' = sources /\ chunks' = chunks /\ vocab' = vocab /\ item' = item
    BY <1>3 DEF SearchStep, ListSources, Tier, Correct, FailSearch, CountSearch, CountBytes
  <2>2. ItemsStored'
    BY <2>1, ItemsStay
  <2> QED BY <1>1, <1>3, <2>2, SearchStepCounts DEF LibInv
<1>4. CASE Close \/ StatsNext \/ UNCHANGED libVars
  <2>1. sources' = sources /\ chunks' = chunks /\ vocab' = vocab /\ item' = item
    BY <1>4 DEF Close, StatsNext, ReadCounters, ReadBytes, ReadSearches, libVars
  <2>2. ItemsStored'
    BY <2>1, ItemsStay
  <2> QED BY <1>1, <1>4, <2>2, StatsCount
<1> QED BY <1>2, <1>3, <1>4 DEF LibNext

LEMMA StoredInvSays ==
  ASSUME StoredInv
  PROVE  SuccessMeansStored
<1>1. ASSUME NEW i \in ItemIds, item[i].pc = "done"
      PROVE  /\ StoredUpTo(i, Len(DocChunks[i]))
             /\ sources[item[i].src] = [item |-> i, label |-> Labels[i],
                  bytes |-> DocBytes(i)[Len(DocChunks[i])]]
             /\ \A k \in 1..Len(DocChunks[i]): DocChunks[i][k].words \subseteq vocab
  BY <1>1 DEF StoredInv, ItemsStored, ItemStored, SourceUpTo, WordsUpTo
<1> QED BY <1>1 DEF StoredInv, CountersOk, SuccessMeansStored

\* In every run of an instance, an Index call that reports success stored its
\* whole document, and the statistics count those calls (gist.go, stores).
THEOREM SuccessesAreStored == LibSpec => []SuccessMeansStored
<1>1. (\E b \in {"memory", "postgres"}, n \in Nat: LibInit(b, n)) => StoredInv
  BY StoredInitially
<1>2. StoredInv /\ [LibNext(SearchIds) \/ StatsNext]_libVars => StoredInv'
  BY StoredStep
<1>3. StoredInv => SuccessMeansStored
  BY StoredInvSays
<1> QED BY <1>1, <1>2, <1>3, PTL DEF LibSpec

-----------------------------------------------------------------------------
(* Rendering to a budget. *)

\* What holds of 0 and passes from a number to the next holds up to N.
LEMMA Climb ==
  ASSUME NEW N \in Nat, NEW G, 0 \in G, \A n \in 1..N: n - 1 \in G => n \in G
  PROVE  0..N \subseteq G
<1> DEFINE Out == {n \in 0..N: n \notin G}
<1>1. SUFFICES ASSUME Out # {} PROVE FALSE
  OBVIOUS
<1>2. Out \in SUBSET Nat
  OBVIOUS
<1>3. PICK m \in Out: \A x \in Out: m <= x
  <2> HIDE DEF Out
  <2> QED BY <1>1, <1>2, LeastExists
<1>4. m \in 1..N /\ m - 1 \in 0..N /\ ~(m <= m - 1) /\ m \notin G
  BY <1>3
<1> QED BY <1>3, <1>4

\* A non-empty set of numbers up to K has a greatest.
LEMMA GreatestExists ==
  ASSUME NEW K \in Nat, NEW S \in SUBSET (0..K), S # {}
  PROVE  Max(S) \in S
<1> DEFINE D == {K - n: n \in S}
<1>1. D \in SUBSET Nat /\ D # {}
  <2>1. \A n \in S: K - n \in Nat
    <3> TAKE n \in S
    <3>1. n \in 0..K
      OBVIOUS
    <3> QED BY <3>1
  <2>2. D \subseteq Nat
    BY <2>1
  <2> QED BY <2>2
<1>2. PICK x \in D: \A y \in D: x <= y
  <2> HIDE DEF D
  <2> QED BY <1>1, LeastExists
<1>3. PICK n \in S: x = K - n
  BY <1>2
<1>4. \A y \in S: n >= y
  <2> SUFFICES ASSUME NEW y \in S PROVE n >= y
    OBVIOUS
  <2>1. n \in 0..K /\ y \in 0..K
    OBVIOUS
  <2>2. K - y \in D
    OBVIOUS
  <2>3. K - n <= K - y
    BY <1>2, <1>3, <2>2
  <2> HIDE DEF D
  <2> QED BY <2>1, <2>3
<1> QED BY <1>4 DEF Max

\* Costs adds the tokens up from nothing.
AddsUp(lens, N) ==
  /\ Costs(lens)[0] = 0
  /\ \A n \in 1..N: Costs(lens)[n] = Costs(lens)[n - 1] + EstimateTokens(lens[n])
  /\ \A n \in 0..N: Costs(lens)[n] \in Nat

LEMMA CostsAddUp ==
  ASSUME NEW lens, NEW N \in Nat, Len(lens) = N, \A n \in 1..N: lens[n] \in Nat
  PROVE  AddsUp(lens, N)
<1> DEFINE Is(f) == f = [n \in 0..N |-> IF n = 0 THEN 0 ELSE f[n - 1] + EstimateTokens(lens[n])]
           d == [n \in 1..N |-> EstimateTokens(lens[n])]
           b == Costs(lens)
<1>1. \A n \in 1..N: EstimateTokens(lens[n]) \in Nat
  BY DEF EstimateTokens
<1>2. \E f: Is(f)
  <2>1. d \in [1..N -> Nat]
    BY <1>1
  <2>2. \E f \in [0..N -> Nat]: f[0] = 0 /\ \A n \in 1..N: f[n] = f[n - 1] + d[n]
    <3> HIDE DEF d
    <3> QED BY <2>1, SumExists
  <2>3. PICK f \in [0..N -> Nat]: f[0] = 0 /\ \A n \in 1..N: f[n] = f[n - 1] + d[n]
    BY <2>2
  <2>4. \A n \in 1..N: d[n] = EstimateTokens(lens[n])
    OBVIOUS
  <2> HIDE DEF d
  <2>5. \A n \in 0..N: f[n] = IF n = 0 THEN 0 ELSE f[n - 1] + EstimateTokens(lens[n])
    <3>1. \A n \in 0..N: n = 0 \/ n \in 1..N
      OBVIOUS
    <3> QED BY <2>3, <2>4, <3>1
  <2>6. Is(f)
    BY <2>5
  <2> QED BY <2>6
<1>3. b = CHOOSE f: Is(f)
  BY DEF Costs
<1>4. Is(b)
  <2> HIDE DEF Is, b
  <2> QED BY <1>2, <1>3
<1> HIDE DEF b
<1>5. b[0] = 0
  <2>1. 0 \in 0..N
    OBVIOUS
  <2> QED BY <1>4, <2>1
<1>6. ASSUME NEW n \in 1..N PROVE b[n] = b[n - 1] + EstimateTokens(lens[n])
  <2>1. n \in 0..N /\ n # 0
    OBVIOUS
  <2> QED BY <1>4, <2>1
<1> DEFINE G == {n \in 0..N: b[n] \in Nat}
<1>7. 0..N \subseteq G
  <2>1. 0 \in G
    BY <1>5
  <2>2. ASSUME NEW n \in 1..N, n - 1 \in G PROVE n \in G
    <3>1. b[n - 1] \in Nat /\ n \in 0..N
      BY <2>2
    <3> QED BY <1>1, <1>6, <3>1
  <2> HIDE DEF G
  <2> QED BY <2>1, <2>2, Climb
<1>8. \A n \in 0..N: b[n] \in Nat
  BY <1>7
<1> QED BY <1>5, <1>6, <1>8 DEF AddsUp, b

\* Equal beginnings cost the same.
LEMMA CostsAgree ==
  ASSUME NEW a, NEW b, NEW N \in Nat, NEW M \in Nat, AddsUp(a, N), AddsUp(b, M),
         NEW k \in Nat, k <= N, k <= M, \A n \in 1..k: a[n] = b[n]
  PROVE  Costs(a)[k] = Costs(b)[k]
<1> DEFINE A == Costs(a)
           B == Costs(b)
           G == {n \in 0..k: A[n] = B[n]}
<1>1. A[0] = 0 /\ B[0] = 0
  BY DEF AddsUp
<1>2. ASSUME NEW n \in 1..k, A[n - 1] = B[n - 1] PROVE A[n] = B[n]
  <2>1. n \in 1..N /\ n \in 1..M
    OBVIOUS
  <2>2. A[n] = A[n - 1] + EstimateTokens(a[n]) /\ B[n] = B[n - 1] + EstimateTokens(b[n])
    BY <2>1 DEF AddsUp
  <2> QED BY <1>2, <2>2
<1> HIDE DEF A, B
<1>3. 0..k \subseteq G
  <2>1. 0 \in G
    BY <1>1
  <2>2. ASSUME NEW n \in 1..k, n - 1 \in G PROVE n \in G
    BY <1>2, <2>2
  <2> HIDE DEF G
  <2> QED BY <2>1, <2>2, Climb
<1>4. k \in 0..k
  OBVIOUS
<1> QED BY <1>3, <1>4 DEF A, B

\* What stays of a text fits the budget it is trimmed to.
LEMMA TrimFacts ==
  ASSUME NEW c, Len(c) \in Nat, NEW m \in Int
  PROVE  /\ TrimToTokenBudget(c, m) \in 0..Len(c)
         /\ m <= 0 => TrimToTokenBudget(c, m) = 0
         /\ m > 0 => EstimateTokens(TrimToTokenBudget(c, m)) <= m
<1> DEFINE spaces == {j \in 1..(4 * m): At(c, j) \in {" ", "n"}}
           t == TrimToTokenBudget(c, m)
<1>1. t = IF m <= 0 THEN 0 ELSE IF Len(c) <= 4 * m THEN Len(c)
          ELSE IF spaces = {} THEN 4 * m ELSE Max(spaces)
  <2>1. t = CASE m <= 0 -> 0
              [] m > 0 /\ Len(c) <= 4 * m -> Len(c)
              [] OTHER -> IF spaces = {} THEN 4 * m ELSE Max(spaces)
    BY DEF TrimToTokenBudget
  <2> HIDE DEF t, spaces
  <2>2. CASE m <= 0
    BY <2>1, <2>2
  <2>3. CASE m > 0 /\ Len(c) <= 4 * m
    BY <2>1, <2>3
  <2>4. CASE m > 0 /\ ~(Len(c) <= 4 * m)
    BY <2>1, <2>4
  <2> QED BY <2>2, <2>3, <2>4
<1>2. spaces \subseteq 1..(4 * m)
  BY Zenon
<1> HIDE DEF spaces, t
<1>5. ASSUME m > 0, spaces # {} PROVE Max(spaces) \in 1..(4 * m)
  <2>1. 4 * m \in Nat
    BY <1>5
  <2>2. spaces \in SUBSET (0..(4 * m))
    BY <1>2, <2>1
  <2>3. Max(spaces) \in spaces
    BY <1>5, <2>1, <2>2, GreatestExists
  <2> QED BY <1>2, <2>3
<1>3. CASE m <= 0
  BY <1>1, <1>3 DEF t
<1>4. CASE m > 0
  <2>1. t \in Nat /\ t <= Len(c) /\ t <= 4 * m
    BY <1>1, <1>4, <1>5
  <2>2. (t + 3) \div 4 <= m
    BY <1>4, <2>1
  <2> QED BY <1>4, <2>1, <2>2 DEF t, EstimateTokens
<1> QED BY <1>3, <1>4

\* What Render writes is a prefix of the texts, whole but for the last, within
\* the budget.
Prefixed(w, texts, b) ==
  /\ Len(w) <= Len(texts)
  /\ \A i \in 1..Len(w): w[i] = Len(texts[i]) \/ (i = Len(w) /\ w[i] < Len(texts[i]))
  /\ b > 0 => Costs(w)[Len(w)] <= b
  /\ b = 0 => Len(w) = Len(texts)

LEMMA RenderFacts ==
  ASSUME NEW texts, Len(texts) \in Nat, \A i \in 1..Len(texts): Len(texts[i]) \in Nat,
         NEW b \in Nat
  PROVE  Prefixed(Render(texts, b), texts, b)
<1> DEFINE N == Len(texts)
           lens == [i \in 1..N |-> Len(texts[i])]
           used == Costs(lens)
           S == {n \in 0..N: \A k \in 1..n: used[k] <= b}
           whole == IF b <= 0 THEN N ELSE Max(S)
           rest == IF whole = N THEN 0 ELSE TrimToTokenBudget(texts[whole + 1], b - used[whole])
           L == IF rest = 0 THEN whole ELSE whole + 1
           w == [i \in 1..L |-> IF i <= whole THEN Len(texts[i]) ELSE rest]
<1>1. Render(texts, b) = w
  BY Zenon DEF Render
<1>2. Len(lens) = N /\ \A n \in 1..N: lens[n] = Len(texts[n]) /\ lens[n] \in Nat
  OBVIOUS
<1> HIDE DEF lens
<1>3. AddsUp(lens, N)
  BY <1>2, CostsAddUp
<1>4. used[0] = 0 /\ \A n \in 0..N: used[n] \in Nat
  BY <1>3 DEF AddsUp
<1> HIDE DEF used
<1>5. whole \in 0..N /\ (b > 0 => used[whole] <= b) /\ (b = 0 => whole = N)
  <2>1. CASE b <= 0
    BY <2>1
  <2>2. CASE b > 0
    <3>1. 0 \in S /\ S \in SUBSET (0..N)
      OBVIOUS
    <3>2. Max(S) \in S
      <4> HIDE DEF S
      <4> QED BY <3>1, GreatestExists
    <3>3. Max(S) \in 0..N /\ \A k \in 1..Max(S): used[k] <= b
      BY <3>2
    <3>4. whole = Max(S)
      BY <2>2
    <3> HIDE DEF S
    <3>5. used[Max(S)] <= b
      <4>1. CASE Max(S) = 0
        BY <1>4, <2>2, <4>1
      <4>2. CASE Max(S) # 0
        <5>1. Max(S) \in 1..Max(S)
          BY <3>3, <4>2
        <5> QED BY <3>3, <5>1
      <4> QED BY <4>1, <4>2
    <3> QED BY <2>2, <3>3, <3>4, <3>5
  <2> QED BY <2>1, <2>2
<1> HIDE DEF whole
<1>6. /\ rest \in Nat
      /\ rest # 0 => /\ whole + 1 \in 1..N /\ rest <= Len(texts[whole + 1]) /\ b > 0
                     /\ EstimateTokens(rest) <= b - used[whole]
  <2>1. CASE whole = N
    BY <2>1
  <2>2. CASE whole # N
    <3>1. whole + 1 \in 1..N /\ b > 0 /\ used[whole] \in Nat
      BY <1>4, <1>5, <2>2
    <3>2. Len(texts[whole + 1]) \in Nat /\ b - used[whole] \in Int
      BY <3>1
    <3>3. rest = TrimToTokenBudget(texts[whole + 1], b - used[whole])
      BY <2>2
    <3> HIDE DEF rest
    <3>4. /\ rest \in 0..Len(texts[whole + 1])
          /\ b - used[whole] <= 0 => rest = 0
          /\ b - used[whole] > 0 => EstimateTokens(rest) <= b - used[whole]
      BY <3>2, <3>3, TrimFacts
    <3> QED BY <3>1, <3>2, <3>4
  <2> QED BY <2>1, <2>2
<1> HIDE DEF rest
<1>7. L \in 0..N /\ (rest = 0 => L = whole) /\ (rest # 0 => L = whole + 1)
  BY <1>5, <1>6
<1> HIDE DEF L
<1>8. Len(w) = L
  BY <1>7
<1>9. \A i \in 1..L: w[i] = IF i <= whole THEN Len(texts[i]) ELSE rest
  OBVIOUS
<1> HIDE DEF w
<1>10. ASSUME NEW i \in 1..L
       PROVE  /\ w[i] \in Nat
              /\ w[i] = Len(texts[i]) \/ (i = L /\ w[i] < Len(texts[i]))
  <2>1. i \in 1..N
    BY <1>7
  <2>2. CASE i <= whole
    BY <1>9, <2>1, <2>2
  <2>3. CASE ~(i <= whole)
    <3>1. rest # 0 /\ i = whole + 1 /\ i = L
      BY <1>5, <1>7, <2>3
    <3>2. w[i] = rest
      BY <1>9, <2>3
    <3> QED BY <1>6, <2>1, <3>1, <3>2
  <2> QED BY <2>2, <2>3
<1>11. ASSUME b > 0 PROVE Costs(w)[L] <= b
  <2>1. L \in Nat /\ whole \in Nat /\ whole <= L /\ whole <= N
    BY <1>5, <1>7
  <2>2. AddsUp(w, L)
    BY <1>8, <1>10, <2>1, CostsAddUp
  <2>3. \A n \in 1..whole: w[n] = lens[n]
    <3> TAKE n \in 1..whole
    <3>1. n \in 1..L /\ n \in 1..N /\ n <= whole
      BY <2>1
    <3> QED BY <1>2, <1>9, <3>1
  <2>4. Costs(w)[whole] = used[whole]
    BY <1>3, <2>1, <2>2, <2>3, CostsAgree DEF used
  <2>5. CASE rest = 0
    BY <1>5, <1>7, <1>11, <2>4, <2>5
  <2>6. CASE rest # 0
    <3>1. L \in 1..L /\ L - 1 = whole /\ L = whole + 1
      BY <1>7, <2>1, <2>6
    <3>2. Costs(w)[L] = Costs(w)[L - 1] + EstimateTokens(w[L])
      BY <2>2, <3>1 DEF AddsUp
    <3>3. w[L] = rest
      BY <1>9, <2>1, <3>1
    <3>4. Costs(w)[L] = used[whole] + EstimateTokens(rest)
      BY <2>4, <3>1, <3>2, <3>3
    <3>5. EstimateTokens(rest) \in Nat /\ used[whole] \in Nat
      BY <1>4, <1>5, <1>6 DEF EstimateTokens
    <3> QED BY <1>6, <2>6, <3>4, <3>5
  <2> QED BY <2>5, <2>6
<1>12. b = 0 => L = N
  BY <1>5, <1>6, <1>7
<1>13. L <= N
  BY <1>7
<1> QED BY <1>1, <1>8, <1>10, <1>11, <1>12, <1>13 DEF Prefixed

-----------------------------------------------------------------------------
(* The session. *)

\* What the sections of a title show.
Shown(secs, t) ==
  UNION {secs[i].shows: i \in {j \in 1..Len(secs): secs[j].title = t}}

SnapGood(s) ==
  /\ \A i \in Shown(s.sections, "RecentActivity"):
       i \in 1..Len(log) /\ (log[i] = "error" => i \in Shown(s.sections, "Errors"))
  /\ Prefixed(s.written, s.texts, s.budget)

\* The views are lengths the log has had, each at least the one before.
SessInv ==
  /\ log \in Seq(EventTypes)
  /\ views \in Seq(Nat) /\ Len(views) <= 5
  /\ \A i \in 1..Len(views): views[i] <= Len(log)
  /\ \A i, j \in 1..Len(views): i <= j => views[i] <= views[j]
  /\ snap # <<>> => SnapGood(snap)

\* The entries of two sequences put together.
LEMMA RangeOfBoth ==
  \A X: \A s, t \in Seq(X): s \o t \in Seq(X) /\ Range(s \o t) = Range(s) \cup Range(t)
<1> SUFFICES ASSUME NEW X, NEW s \in Seq(X), NEW t \in Seq(X)
             PROVE  s \o t \in Seq(X) /\ Range(s \o t) = Range(s) \cup Range(t)
  OBVIOUS
<1> DEFINE c == s \o t
<1>1. /\ Len(s) \in Nat /\ Len(t) \in Nat /\ Len(c) = Len(s) + Len(t) /\ c \in Seq(X)
      /\ DOMAIN s = 1..Len(s) /\ DOMAIN t = 1..Len(t) /\ DOMAIN c = 1..Len(c)
  OBVIOUS
<1>2. \A i \in 1..Len(c): c[i] = IF i <= Len(s) THEN s[i] ELSE t[i - Len(s)]
  OBVIOUS
<1> HIDE DEF c
<1>3. \A i \in 1..Len(c): i \in 1..Len(s) \/ (~(i <= Len(s)) /\ i - Len(s) \in 1..Len(t))
  BY <1>1
<1>4. \A i \in 1..Len(c): c[i] \in Range(s) \cup Range(t)
  <2> TAKE i \in 1..Len(c)
  <2>1. CASE i \in 1..Len(s)
    BY <1>1, <1>2, <2>1 DEF Range
  <2>2. CASE ~(i <= Len(s)) /\ i - Len(s) \in 1..Len(t)
    BY <1>1, <1>2, <2>2 DEF Range
  <2> QED BY <1>3, <2>1, <2>2
<1>5. \A i \in 1..Len(s): s[i] \in Range(c)
  <2> TAKE i \in 1..Len(s)
  <2>1. i \in 1..Len(c) /\ i <= Len(s)
    BY <1>1
  <2> QED BY <1>1, <1>2, <2>1 DEF Range
<1>6. \A i \in 1..Len(t): t[i] \in Range(c)
  <2> TAKE i \in 1..Len(t)
  <2>1. Len(s) + i \in 1..Len(c) /\ ~(Len(s) + i <= Len(s)) /\ (Len(s) + i) - Len(s) = i
    BY <1>1
  <2>2. c[Len(s) + i] = t[i]
    BY <1>2, <2>1
  <2> QED BY <1>1, <2>1, <2>2 DEF Range
<1> QED BY <1>1, <1>4, <1>5, <1>6 DEF Range, c

Titles == {"Errors", "RecentActivity", "SearchSummary", "IndexedSources"}
SectionSet == [title: Titles, shows: SUBSET Nat]

OneTitled(title, shows) == IF shows = {} THEN {} ELSE {[title |-> title, shows |-> shows]}

\* A section is there when it shows something.
LEMMA SectionFacts ==
  \A title \in Titles, shows \in SUBSET Nat:
    /\ Titled(title, shows) \in Seq(SectionSet)
    /\ Range(Titled(title, shows)) = OneTitled(title, shows)
<1> SUFFICES ASSUME NEW title \in Titles, NEW shows \in SUBSET Nat
             PROVE  /\ Titled(title, shows) \in Seq(SectionSet)
                    /\ Range(Titled(title, shows)) = OneTitled(title, shows)
  OBVIOUS
<1>1. CASE shows = {}
  BY <1>1 DEF Titled, Range, OneTitled
<1>2. CASE shows # {}
  <2> DEFINE r == [title |-> title, shows |-> shows]
  <2>1. Titled(title, shows) = <<r>> /\ r \in SectionSet
    BY <1>2 DEF Titled, SectionSet
  <2> HIDE DEF r
  <2>2. <<r>> \in Seq(SectionSet) /\ Range(<<r>>) = {r}
    BY <2>1 DEF Range
  <2> QED BY <1>2, <2>1, <2>2 DEF r, OneTitled
<1> QED BY <1>1, <1>2

LEMMA ViewFacts ==
  ASSUME SessInv, Len(views) = 5
  PROVE  /\ \A i \in 1..5: views[i] \in Nat /\ views[i] <= Len(log)
         /\ views[1] \in Nat /\ views[2] \in Nat /\ views[5] \in Nat
         /\ views[1] <= views[2] /\ views[2] <= Len(log) /\ views[5] <= Len(log)
         /\ Len(log) \in Nat
<1>1. /\ views \in Seq(Nat) /\ log \in Seq(EventTypes)
      /\ \A i \in 1..Len(views): views[i] <= Len(log)
      /\ \A i, j \in 1..Len(views): i <= j => views[i] <= views[j]
  BY DEF SessInv
<1>2. \A i \in 1..5: views[i] \in Nat /\ views[i] <= Len(log)
  <2> TAKE i \in 1..5
  <2>1. i \in 1..Len(views)
    OBVIOUS
  <2>2. views[i] \in Nat
    BY <1>1, <2>1, ElementOfSeq
  <2> QED BY <1>1, <2>1, <2>2
<1>3. 1 \in 1..5 /\ 2 \in 1..5 /\ 5 \in 1..5 /\ 1 <= 2
  OBVIOUS
<1>4. views[1] <= views[2]
  BY <1>1, <1>3
<1>5. Len(log) \in Nat
  BY <1>1
<1> QED BY <1>2, <1>3, <1>4, <1>5

\* The sections, and what the two about errors and recent events show.
LEMMA SectionsFacts ==
  ASSUME SessInv, Len(views) = 5
  PROVE  /\ Sections \in Seq(SectionSet)
         /\ \A r \in Range(Sections): \E n \in 1..Len(log): r.shows # {} /\ r.shows \subseteq 1..n
         /\ \A r \in Range(Sections): r.title = "RecentActivity" => r.shows = Recent(views[1])
         /\ LET found == EventsByType(views[2], "error")
            IN found # {} => [title |-> "Errors", shows |-> found] \in Range(Sections)
<1> DEFINE a == EventsByType(views[2], "error")
           b == Recent(views[1])
           c == EventsByType(views[3], "search")
           d == EventsByType(views[4], "index")
           sa == Titled("Errors", a)
           sb == Titled("RecentActivity", b)
           sc == Titled("SearchSummary", c)
           sd == Titled("IndexedSources", d)
<1>1. \A i \in 1..4: views[i] \in Nat /\ views[i] <= Len(log)
  BY ViewFacts
<1>2. /\ a \subseteq 1..views[2] /\ b \subseteq 1..views[1]
      /\ c \subseteq 1..views[3] /\ d \subseteq 1..views[4]
  BY DEF EventsByType, Recent
<1>2a. /\ \E i \in 1..4: a \subseteq 1..views[i]
       /\ \E i \in 1..4: b \subseteq 1..views[i]
       /\ \E i \in 1..4: c \subseteq 1..views[i]
       /\ \E i \in 1..4: d \subseteq 1..views[i]
  <2>1. 1 \in 1..4 /\ 2 \in 1..4 /\ 3 \in 1..4 /\ 4 \in 1..4
    OBVIOUS
  <2> QED BY Zenon, <1>2, <2>1
<1>3. a \in SUBSET Nat /\ b \in SUBSET Nat /\ c \in SUBSET Nat /\ d \in SUBSET Nat
  BY <1>1, <1>2
<1> HIDE DEF a, b, c, d
<1>4. /\ sa \in Seq(SectionSet) /\ Range(sa) = OneTitled("Errors", a)
      /\ sb \in Seq(SectionSet) /\ Range(sb) = OneTitled("RecentActivity", b)
      /\ sc \in Seq(SectionSet) /\ Range(sc) = OneTitled("SearchSummary", c)
      /\ sd \in Seq(SectionSet) /\ Range(sd) = OneTitled("IndexedSources", d)
  <2>0. /\ "Errors" \in Titles /\ "RecentActivity" \in Titles
        /\ "SearchSummary" \in Titles /\ "IndexedSources" \in Titles
    BY DEF Titles
  <2>1. sa \in Seq(SectionSet) /\ Range(sa) = OneTitled("Errors", a)
    BY Zenon, <1>3, <2>0, SectionFacts
  <2>2. sb \in Seq(SectionSet) /\ Range(sb) = OneTitled("RecentActivity", b)
    BY Zenon, <1>3, <2>0, SectionFacts
  <2>3. sc \in Seq(SectionSet) /\ Range(sc) = OneTitled("SearchSummary", c)
    BY Zenon, <1>3, <2>0, SectionFacts
  <2>4. sd \in Seq(SectionSet) /\ Range(sd) = OneTitled("IndexedSources", d)
    BY Zenon, <1>3, <2>0, SectionFacts
  <2> QED BY <2>1, <2>2, <2>3, <2>4
<1>5. Sections = sa \o sb \o sc \o sd
  BY DEF Sections, a, b, c, d
<1> HIDE DEF sa, sb, sc, sd
<1> DEFINE ab == sa \o sb
           abc == ab \o sc
<1>6. ab \in Seq(SectionSet) /\ Range(ab) = Range(sa) \cup Range(sb)
  BY <1>4, RangeOfBoth
<1> HIDE DEF ab
<1>7. abc \in Seq(SectionSet) /\ Range(abc) = Range(ab) \cup Range(sc)
  BY <1>4, <1>6, RangeOfBoth
<1> HIDE DEF abc
<1>8. Sections \in Seq(SectionSet) /\ Range(Sections) = Range(abc) \cup Range(sd)
  <2>1. abc \o sd \in Seq(SectionSet) /\ Range(abc \o sd) = Range(abc) \cup Range(sd)
    BY <1>4, <1>7, RangeOfBoth
  <2>2. Sections = abc \o sd
    BY <1>5 DEF ab, abc
  <2> QED BY <2>1, <2>2
<1>9. Range(Sections) = OneTitled("Errors", a) \cup OneTitled("RecentActivity", b)
                          \cup OneTitled("SearchSummary", c) \cup OneTitled("IndexedSources", d)
  BY <1>4, <1>6, <1>7, <1>8
<1>10. ASSUME NEW r \in Range(Sections)
       PROVE  /\ r.shows # {} /\ \E i \in 1..4: r.shows \subseteq 1..views[i]
              /\ r.title = "RecentActivity" => r.shows = b
  <2>0. \A t, x:
          r \in OneTitled(t, x) => r.title = t /\ r.shows = x /\ x # {}
    BY DEF OneTitled
  <2>1. CASE r \in OneTitled("Errors", a)
    <3>1. r.title = "Errors" /\ r.shows = a /\ a # {}
      BY <1>3, <2>0, <2>1
    <3> QED BY <1>2a, <3>1
  <2>2. CASE r \in OneTitled("RecentActivity", b)
    <3>1. r.title = "RecentActivity" /\ r.shows = b /\ b # {}
      BY <1>3, <2>0, <2>2
    <3> QED BY <1>2a, <3>1
  <2>3. CASE r \in OneTitled("SearchSummary", c)
    <3>1. r.title = "SearchSummary" /\ r.shows = c /\ c # {}
      BY <1>3, <2>0, <2>3
    <3> QED BY <1>2a, <3>1
  <2>4. CASE r \in OneTitled("IndexedSources", d)
    <3>1. r.title = "IndexedSources" /\ r.shows = d /\ d # {}
      BY <1>3, <2>0, <2>4
    <3> QED BY <1>2a, <3>1
  <2> QED BY <1>9, <2>1, <2>2, <2>3, <2>4
<1>11. ASSUME NEW r \in Range(Sections)
       PROVE  \E n \in 1..Len(log): r.shows # {} /\ r.shows \subseteq 1..n
  <2>1. PICK i \in 1..4: r.shows \subseteq 1..views[i]
    BY <1>10
  <2>2. r.shows # {}
    BY <1>10
  <2>3. Len(log) \in Nat
    BY DEF SessInv
  <2>4. views[i] \in 1..Len(log)
    BY <1>1, <2>1, <2>2, <2>3
  <2> QED BY <2>1, <2>2, <2>4
<1>12. a # {} => [title |-> "Errors", shows |-> a] \in Range(Sections)
  BY <1>9 DEF OneTitled
<1> QED BY <1>8, <1>10, <1>11, <1>12 DEF a, b

\* The texts are texts.
LEMMA TextsFacts ==
  ASSUME SessInv, Len(views) = 5
  PROVE  Len(Texts) \in Nat /\ \A i \in 1..Len(Texts): Len(Texts[i]) \in Nat
<1> DEFINE n == Len(Sections)
           first == [i \in 1..n |-> Lines(Cardinality(Sections[i].shows))]
           last == Lines(3 + Cardinality(Kinds(views[5])))
<1>1. ASSUME NEW k \in Nat, k >= 1
      PROVE  Len(Lines(k)) \in Nat
  <2>1. LineLen \in Nat \ {0}
    BY SessionAssumptions
  <2>2. k * LineLen \in Nat
    BY <2>1
  <2>3. k * LineLen + k - 1 \in Nat
    BY <1>1, <2>2
  <2> QED BY <2>3 DEF Lines
<1>2. n \in Nat /\ \A i \in 1..n: Sections[i] \in Range(Sections)
  <2>1. Sections \in Seq(SectionSet)
    BY SectionsFacts
  <2> QED BY <2>1 DEF Range
<1>3. ASSUME NEW i \in 1..n PROVE Len(Lines(Cardinality(Sections[i].shows))) \in Nat
  <2> DEFINE s == Sections[i].shows
  <2>1. PICK m \in 1..Len(log): s # {} /\ s \subseteq 1..m
    BY <1>2, SectionsFacts
  <2> HIDE DEF s
  <2>2. 1 \in Int /\ m \in Int
    BY DEF SessInv
  <2>3. IsFiniteSet(1..m)
    BY <2>2, FS_Interval
  <2>4. IsFiniteSet(s)
    BY <2>1, <2>3, FS_Subset
  <2>5. Cardinality(s) \in Nat /\ Cardinality(s) # 0
    BY <2>1, <2>4, FS_CardinalityType, FS_EmptySet
  <2>6. Cardinality(s) >= 1
    BY <2>5
  <2> QED BY <1>1, <2>5, <2>6 DEF s
<1>4. Len(last) \in Nat
  <2>1. views[5] \in Nat /\ views[5] <= Len(log)
    BY ViewFacts
  <2>2. Kinds(views[5]) \subseteq EventTypes
    BY <2>1 DEF Kinds, SessInv
  <2>3. IsFiniteSet(EventTypes)
    <3>1. IsFiniteSet({"index"})
      BY FS_Singleton
    <3>2. IsFiniteSet({"index"} \cup {"search"})
      BY <3>1, FS_AddElement
    <3>3. IsFiniteSet({"index"} \cup {"search"} \cup {"error"})
      BY <3>2, FS_AddElement
    <3>4. EventTypes = {"index"} \cup {"search"} \cup {"error"}
      BY DEF EventTypes
    <3> QED BY <3>3, <3>4
  <2>4. Cardinality(Kinds(views[5])) \in Nat
    BY <2>2, <2>3, FS_Subset, FS_CardinalityType
  <2> QED BY <1>1, <2>4
<1> HIDE DEF last
<1>5. /\ Len(first) = n /\ \A i \in 1..n: Len(first[i]) \in Nat
  BY <1>2, <1>3
<1>6. Texts = first \o <<last>>
  BY DEF Texts, last
<1> DEFINE X == {first[i]: i \in 1..n} \cup {last}
<1>7. first \in Seq(X) /\ <<last>> \in Seq(X)
  BY <1>2
<1>8. \A x \in X: Len(x) \in Nat
  BY <1>4, <1>5
<1> HIDE DEF first, X
<1>9. first \o <<last>> \in Seq(X)
  BY <1>7
<1> QED BY <1>6, <1>8, <1>9

\* A snapshot built from its five views shows of the recent errors all.
LEMMA RenderSnapshotKeeps ==
  ASSUME SessInv, NEW b \in Budgets, RenderSnapshot(b)
  PROVE  SessInv'
<1> DEFINE v1 == views[1]
           v2 == views[2]
           found == EventsByType(v2, "error")
           secs == Sections
           s == snap'
<1>1. Len(views) = 5 /\ log' = log /\ views' = views
  BY DEF RenderSnapshot
<1>2. s.sections = secs /\ s.texts = Texts /\ s.budget = b /\ s.written = Render(Texts, b)
  BY DEF RenderSnapshot
<1>3. v1 \in Nat /\ v2 \in Nat /\ Len(log) \in Nat /\ v1 <= v2 /\ v2 <= Len(log)
  BY <1>1, ViewFacts
<1>4. /\ secs \in Seq(SectionSet) /\ DOMAIN secs = 1..Len(secs)
      /\ \A j \in 1..Len(secs): secs[j] \in Range(secs)
  <2>1. secs \in Seq(SectionSet)
    BY <1>1, SectionsFacts
  <2> HIDE DEF secs
  <2> QED BY <2>1 DEF Range
<1>5. /\ \A r \in Range(secs): r.title = "RecentActivity" => r.shows = Recent(v1)
      /\ found # {} => [title |-> "Errors", shows |-> found] \in Range(secs)
  BY <1>1, SectionsFacts
<1> HIDE DEF secs
<1>6. ASSUME NEW i \in Shown(secs, "RecentActivity")
      PROVE  i \in 1..Len(log) /\ (log[i] = "error" => i \in Shown(secs, "Errors"))
  <2>1. i \in Recent(v1)
    BY <1>4, <1>5 DEF Shown
  <2>2. i \in 1..v1
    BY <2>1 DEF Recent
  <2>3. i \in 1..v2 /\ i \in 1..Len(log)
    <3> HIDE DEF v1, v2
    <3>1. i \in Nat /\ 1 <= i /\ i <= v1
      BY <1>3, <2>2
    <3> QED BY <1>3, <3>1
  <2>4. ASSUME log[i] = "error" PROVE i \in Shown(secs, "Errors")
    <3>1. i \in found
      BY <2>3, <2>4 DEF EventsByType
    <3> DEFINE r == [title |-> "Errors", shows |-> found]
    <3>2. r \in Range(secs) /\ r.title = "Errors" /\ i \in r.shows
      BY <1>5, <3>1
    <3> HIDE DEF r
    <3>3. PICK j \in DOMAIN secs: secs[j] = r
      BY <3>2 DEF Range
    <3>4. j \in 1..Len(secs)
      BY <1>4, <3>3
    <3> QED BY <3>2, <3>3, <3>4 DEF Shown
  <2> QED BY <2>3, <2>4
<1>7. Prefixed(Render(Texts, b), Texts, b)
  <2>1. b \in Nat
    BY SessionAssumptions
  <2>2. Len(Texts) \in Nat /\ \A i \in 1..Len(Texts): Len(Texts[i]) \in Nat
    BY <1>1, TextsFacts
  <2> DEFINE texts == Texts
  <2> HIDE DEF texts
  <2>3. Len(texts) \in Nat /\ \A i \in 1..Len(texts): Len(texts[i]) \in Nat
    BY <2>2 DEF texts
  <2>4. Prefixed(Render(texts, b), texts, b)
    BY <2>1, <2>3, RenderFacts
  <2> QED BY <2>4 DEF texts
<1> HIDE DEF s
<1>8. SnapGood(s)
  BY <1>2, <1>6, <1>7 DEF SnapGood
<1>9. SnapGood(snap)'
  BY <1>1, <1>8 DEF s, SnapGood
<1> QED BY <1>1, <1>9 DEF SessInv

LEMMA SessSteps == SessInv /\ [SessNext]_sessVars => SessInv'
<1> SUFFICES ASSUME SessInv, [SessNext]_sessVars PROVE SessInv'
  OBVIOUS
<1>1. ASSUME NEW e \in EventTypes, AddEvent(e) PROVE SessInv'
  <2>1. /\ log' = Append(log, e) /\ views' = views /\ snap' = snap
        /\ log \in Seq(EventTypes)
    BY <1>1 DEF AddEvent, SessInv
  <2>2. /\ log' \in Seq(EventTypes) /\ Len(log) \in Nat /\ Len(log') = Len(log) + 1
        /\ \A i \in 1..Len(log): log'[i] = log[i] /\ i \in 1..Len(log')
    BY <2>1
  <2>3. \A i \in 1..Len(views): views[i] <= Len(log')
    BY <2>2 DEF SessInv
  <2>4. snap # <<>> => SnapGood(snap)'
    BY <2>1, <2>2 DEF SessInv, SnapGood
  <2> QED BY <2>1, <2>2, <2>3, <2>4 DEF SessInv
<1>2. ASSUME TakeView PROVE SessInv'
  <2>1. /\ views' = Append(views, Len(log)) /\ log' = log /\ snap' = snap
        /\ Len(views) < 5 /\ views \in Seq(Nat) /\ Len(log) \in Nat /\ snap = <<>>
    BY <1>2 DEF TakeView, SessInv
  <2>2. /\ views' \in Seq(Nat) /\ Len(views) \in Nat /\ Len(views') = Len(views) + 1
        /\ \A i \in 1..Len(views): views'[i] = views[i]
        /\ views'[Len(views) + 1] = Len(log)
    BY <2>1
  <2>3. \A i \in 1..Len(views'): i \in 1..Len(views) \/ i = Len(views) + 1
    BY <2>2
  <2>4. \A i \in 1..Len(views'): views'[i] <= Len(log)
    BY <2>1, <2>2, <2>3 DEF SessInv
  <2>5. \A i, j \in 1..Len(views'): i <= j => views'[i] <= views'[j]
    <3> SUFFICES ASSUME NEW i \in 1..Len(views'), NEW j \in 1..Len(views'), i <= j
                 PROVE  views'[i] <= views'[j]
      OBVIOUS
    <3>1. CASE j \in 1..Len(views)
      <4>1. i \in 1..Len(views)
        BY <2>2, <3>1
      <4> QED BY <2>2, <3>1, <4>1 DEF SessInv
    <3>2. CASE j = Len(views) + 1
      BY <2>2, <2>4, <3>2
    <3> QED BY <2>3, <3>1, <3>2
  <2> QED BY <2>1, <2>2, <2>4, <2>5 DEF SessInv
<1>3. ASSUME UNCHANGED sessVars PROVE SessInv'
  BY <1>3 DEF sessVars, SessInv, SnapGood
<1> QED BY <1>1, <1>2, <1>3, RenderSnapshotKeeps DEF SessNext

\* However the events of other goroutines fall between the builder's reads,
\* the errors among the recent events are listed, and what is rendered fits
\* its budget (BuildSnapshot, Snapshot.Render).
THEOREM SnapshotsKeepTheirErrors == SessSpec => []SnapshotKeepsItsErrors
<1>1. SessInit => SessInv
  BY DEF SessInit, SessInv
<1>2. SessInv => SnapshotKeepsItsErrors
  <2> SUFFICES ASSUME SessInv, snap # <<>> PROVE SnapshotKeepsItsErrors
    BY DEF SnapshotKeepsItsErrors
  <2>1. SnapGood(snap)
    BY DEF SessInv
  <2> QED BY <2>1 DEF SnapGood, Prefixed, Shown, SnapshotKeepsItsErrors
<1> QED BY <1>1, <1>2, SessSteps, PTL DEF SessSpec

=============================================================================
