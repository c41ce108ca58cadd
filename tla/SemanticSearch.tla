--------------------------- MODULE SemanticSearch ---------------------------
(***************************************************************************)
(* Public search (semantic, catalog/directory): an immutable index, one    *)
(* snapshot of document vectors built or loaded beside it, and searches    *)
(* that rank by both while the model answers and by words alone otherwise. *)
(* Clients page through the answers across redeployments of the index.     *)
(* Similarities are small integers, a vector is named by what it embeds.   *)
(***************************************************************************)
EXTENDS Integers, Sequences, FiniteSets, SequencesExt

CONSTANTS Corpora,     \* directory snapshots to deploy, one after the other
          Clients,
          Queries,     \* [over, terms, kind, pins]: what clients ask
          Limits,      \* page sizes
          Extending,   \* per term, the words that begin with it
          Likeness,    \* per query vector and document, their similarity
          Vectors,     \* per set of terms, the vectors the model may give
          Floor,       \* the least similarity that counts
          MaxSemantic, \* cap of the similar documents
          MaxLexical,  \* cap of the lexical hits that are ranked
          Batch        \* documents of one embedding request

\* A revision is a digest of the public entries; a page holds 1 to 100 records,
\* an embedding request up to 8 documents.
ASSUME RevisionAssumption ==
  \A i, j \in 1..Len(Corpora):
    Corpora[i].revision = Corpora[j].revision => Corpora[i].entries = Corpora[j].entries
ASSUME LimitAssumption == Limits \subseteq Nat \ {0} /\ Batch \in Nat \ {0}

VARIABLES deployed,    \* which corpus serves, 0 before the first
          ready,       \* the published vectors: a sequence of [doc, vec], or NoRows
          slot,        \* who holds the one inference slot
          cache,       \* query vectors at hand, per set of terms
          healthy,     \* whether the model process is alive
          builder,     \* the warm-up or load after a deployment
          client       \* per client: its query, its cursor, what it has read

semanticVars == <<deployed, ready, slot, cache, healthy, builder, client>>

None == "none"
NoRows == <<>>
NoCursor == [key |-> <<>>, offset |-> 0]
Terms == DOMAIN Vectors

-----------------------------------------------------------------------------
(* The directory index. *)

\* New: the records in the order of recommendation, title and id; a record
\* given twice or of an unknown source is refused.
Builds(corpus) ==
  /\ \A a, b \in corpus.entries: a.id = b.id => a = b
  /\ \A a \in corpus.entries: a.source \in corpus.sources
Before(a, b) ==
  IF a.recommended # b.recommended THEN a.recommended
  ELSE a.title < b.title \/ (a.title = b.title /\ a.id < b.id)
Index(corpus) == SetToSortSeq(corpus.entries, Before)

Ids(records) == [i \in 1..Len(records) |-> records[i].id]
Matches(record, terms) == \A t \in terms: record.words \cap Extending[t] # {}
OfKind(record, kind) == kind \in {"", record.kind}
Named(records, id) == CHOOSE r \in Range(records): r.id = id

\* search: the matches in index order, or a ranking filtered alike.
LexicalIds(index, q) ==
  Ids(SelectSeq(index, LAMBDA r: Matches(r, q.terms) /\ OfKind(r, q.kind)))
RankedIds(index, q, ranked) ==
  LET known == Ids(index)
      first(i) == \A j \in 1..(i - 1): ranked[j] # ranked[i]
      keep == [i \in 1..Len(ranked) |-> [id |-> ranked[i], use |-> first(i) /\ ranked[i] \in Range(known)
                                            /\ OfKind(Named(index, ranked[i]), q.kind)]]
  IN Ids(SelectSeq(keep, LAMBDA e: e.use))

\* Mutant of KeyOf: the ranking is no part of what a cursor is bound to.
KeyOfQuery(corpus, q, ranking) == <<corpus.revision, q.terms, q.kind, <<>>>>

\* A cursor is bound to the revision, the query and the ranking it is of.
KeyOf(corpus, q, ranking) == <<corpus.revision, q.terms, q.kind, ranking>>

Refusal == [ok |-> FALSE, items |-> <<>>, next |-> NoCursor, total |-> 0]
PageOf(ids, limit, offset, bound, key) ==
  LET end == IF offset + limit < Len(ids) THEN offset + limit ELSE Len(ids) IN
  IF ~bound \/ offset > Len(ids) THEN Refusal
  ELSE [ok |-> TRUE, items |-> SubSeq(ids, offset + 1, end), total |-> Len(ids),
        next |-> IF end < Len(ids) THEN [key |-> key, offset |-> end] ELSE NoCursor]

EntryPage(corpus, q, limit, cursor, ids, ranking) ==
  LET key == KeyOf(corpus, q, ranking) IN
  PageOf(ids, limit, cursor.offset, cursor = NoCursor \/ cursor.key = key, key)

\* The app index pages by a plain offset, and puts the caller's saved
\* connectors first; words are looked for in the lexical order only.  An
\* offset past the results is answered with an empty page.
AppIds(corpus, q, ranked, isRanked) ==
  LET known == SelectSeq(ranked, LAMBDA id: \E a \in Range(corpus.apps): a.id = id)
      base == IF isRanked THEN [i \in 1..Len(known) |-> Named(corpus.apps, known[i])]
              ELSE SelectSeq(corpus.apps, LAMBDA a: Matches(a, q.terms))
      kept == SelectSeq(base, LAMBDA a: OfKind(a, q.kind))
  IN Ids(SelectSeq(kept, LAMBDA a: a.id \in q.pins) \o SelectSeq(kept, LAMBDA a: a.id \notin q.pins))
PastTheEnd(ids) == [ok |-> TRUE, items |-> <<>>, next |-> NoCursor, total |-> Len(ids)]
AppPage(corpus, q, limit, cursor, ids) ==
  IF cursor.offset > Len(ids) THEN PastTheEnd(ids)
  ELSE PageOf(ids, limit, cursor.offset, TRUE, <<>>)

-----------------------------------------------------------------------------
(* Ranking: the similar documents, fused with the lexical hits by           *)
(* reciprocal ranks 1/(60+n), over the common denominator of three.        *)

Documents(corpus) ==
  [i \in 1..Len(Index(corpus)) |-> <<"entries", Index(corpus)[i].id>>]
  \o [i \in 1..Len(corpus.apps) |-> <<"apps", corpus.apps[i].id>>]

Capped(s, n) == SubSeq(s, 1, IF Len(s) < n THEN Len(s) ELSE n)
Reciprocal(n) == (61 * 62 * 63) \div (60 + n)
Share(s, id) == IF \E n \in 1..Len(s): s[n] = id
                THEN Reciprocal(CHOOSE n \in 1..Len(s): s[n] = id) ELSE 0

Rank(rows, vec, over, lexical, allowed) ==
  LET score(id) == Likeness[vec][CHOOSE v \in {rows[i].vec: i \in {j \in 1..Len(rows): rows[j].doc = <<over, id>>}}: TRUE]
      hits == {rows[i].doc[2]: i \in {j \in 1..Len(rows):
                 /\ rows[j].doc[1] = over /\ rows[j].doc[2] \in allowed
                 /\ Likeness[vec][rows[j].vec] >= Floor}}
      similar == Capped(SetToSortSeq(hits, LAMBDA a, b: score(a) > score(b) \/ (score(a) = score(b) /\ a < b)),
                        MaxSemantic)
      fused(id) == Share(lexical, id) + Share(similar, id)
  IN SetToSortSeq(Range(lexical) \cup Range(similar),
                  LAMBDA a, b: fused(a) > fused(b) \/ (fused(a) = fused(b) /\ a < b))

Allowed(corpus, q) ==
  IF q.over = "entries" THEN {r.id: r \in {e \in corpus.entries: OfKind(e, q.kind)}}
  ELSE {a.id: a \in {x \in Range(corpus.apps): OfKind(x, q.kind)}}

\* What a ranking is: lexical, or the order of a vector over a snapshot.
Ranking(corpus, q, rows, vec) ==
  IF vec = None THEN <<>>
  ELSE Rank(rows, vec, q.over,
            Capped(IF q.over = "entries" THEN LexicalIds(Index(corpus), q)
                   ELSE AppIds(corpus, q, <<>>, FALSE), MaxLexical),
            Allowed(corpus, q))

OrderOf(corpus, q, rows, vec) ==
  LET ranked == Ranking(corpus, q, rows, vec) IN
  IF q.over = "entries"
  THEN IF vec = None THEN LexicalIds(Index(corpus), q) ELSE RankedIds(Index(corpus), q, ranked)
  ELSE AppIds(corpus, q, ranked, vec # None)

\* Search and SearchApps once it is known which vector ranks, if any.
Answer(corpus, q, limit, cursor, rows, vec) ==
  LET ids == OrderOf(corpus, q, rows, vec) IN
  IF q.over = "entries"
  THEN EntryPage(corpus, q, limit, cursor, ids,
                 IF vec = None THEN <<>> ELSE <<"ranked", Ranking(corpus, q, rows, vec)>>)
  ELSE AppPage(corpus, q, limit, cursor, ids)

-----------------------------------------------------------------------------
(* Deployment, and the one build of vectors that follows it.               *)

Corpus == Corpora[deployed]
NoBuild == [pc |-> "idle", rows |-> <<>>]

\* A new process, whose model process may not have started.
Deploy ==
  /\ deployed < Len(Corpora)
  /\ Builds(Corpora[deployed + 1])
  /\ deployed' = deployed + 1
  /\ ready' = NoRows /\ slot' = None /\ cache' = [t \in Terms |-> None]
  /\ healthy' \in BOOLEAN
  /\ builder' = IF healthy' THEN [NoBuild EXCEPT !.pc = "begun"] ELSE NoBuild
  /\ client' = [c \in Clients |-> IF client[c].pc = "embedding" THEN [client[c] EXCEPT !.pc = "lost"] ELSE client[c]]

\* Embed: the items of a response name the text they embed.
Embedded(texts, items) ==
  IF Len(items) = Len(texts) /\ {items[i].index: i \in 1..Len(items)} = 1..Len(texts)
  THEN [i \in 1..Len(texts) |-> (CHOOSE x \in Range(items): x.index = i).vec]
  ELSE <<>>

\* Warm takes the slot, embeds batch after batch, and publishes at the end.
BeginWarm ==
  /\ builder.pc = "begun" /\ slot = None
  /\ slot' = "builder" /\ builder' = [builder EXCEPT !.pc = "warming"]
  /\ UNCHANGED <<deployed, ready, cache, healthy, client>>

WarmBatch ==
  /\ builder.pc = "warming" /\ healthy
  /\ LET docs == Documents(Corpus)
         texts == Capped(SubSeq(docs, Len(builder.rows) + 1, Len(docs)), Batch)
     IN /\ texts # <<>>
        /\ \E index \in [1..Len(texts) -> 1..Len(texts)]:
             LET vecs == Embedded(texts, [i \in 1..Len(texts) |-> [index |-> index[i], vec |-> texts[index[i]]]])
             IN IF vecs = <<>>
                THEN builder' = NoBuild /\ slot' = None
                ELSE /\ builder' = [builder EXCEPT !.rows = @ \o [i \in 1..Len(texts) |-> [doc |-> texts[i], vec |-> vecs[i]]]]
                     /\ UNCHANGED slot
  /\ UNCHANGED <<deployed, ready, cache, healthy, client>>

WarmFails ==
  /\ builder.pc = "warming"
  /\ builder' = NoBuild /\ slot' = None
  /\ UNCHANGED <<deployed, ready, cache, healthy, client>>

Publish ==
  /\ builder.pc = "warming" /\ Len(builder.rows) = Len(Documents(Corpus))
  /\ ready' = builder.rows
  /\ builder' = NoBuild /\ slot' = None
  /\ UNCHANGED <<deployed, cache, healthy, client>>

\* What WriteSnapshot wrote of some corpus, and what may become of it.
Artifact(corpus) ==
  [model |-> "pinned", corpus |-> corpus.revision, clean |-> TRUE,
   rows |-> [i \in 1..Len(Documents(corpus)) |-> [doc |-> Documents(corpus)[i], vec |-> Documents(corpus)[i]]]]
Artifacts ==
  LET written == {Artifact(Corpora[i]): i \in 1..Len(Corpora)} IN
  written \cup {[a EXCEPT !.model = "other"]: a \in written}
          \cup {[a EXCEPT !.rows = SubSeq(@, 2, Len(@))]: a \in written}
          \cup {[a EXCEPT !.clean = FALSE]: a \in written}

\* LoadSnapshot: the exact model, corpus and rows, or nothing is published.
LoadSnapshot ==
  /\ builder.pc = "begun" /\ slot = None
  /\ \E a \in Artifacts:
       ready' = IF /\ a.clean /\ a.model = "pinned" /\ a.corpus = Corpus.revision
                   /\ Len(a.rows) = Len(Documents(Corpus))
                   /\ \A i \in 1..Len(a.rows): a.rows[i].doc = Documents(Corpus)[i]
                THEN a.rows ELSE ready
  /\ builder' = NoBuild
  /\ UNCHANGED <<deployed, slot, cache, healthy, client>>

ChildDies ==
  /\ healthy
  /\ healthy' = FALSE
  /\ UNCHANGED <<deployed, ready, slot, cache, builder, client>>

CacheExpires ==
  /\ \E t \in Terms: cache[t] # None /\ cache' = [cache EXCEPT ![t] = None]
  /\ UNCHANGED <<deployed, ready, slot, healthy, builder, client>>

-----------------------------------------------------------------------------
(* A search, in up to two steps: vector() may leave for the model.         *)

\* The client takes a page: it joins what it has read, or it starts over.
Take(c, page, limit, vec, rows) ==
  LET k == client[c]
      order == OrderOf(Corpus, k.q, rows, vec)
  IN client' = [client EXCEPT ![c] =
       IF ~page.ok THEN [k EXCEPT !.pc = "idle", !.cursor = NoCursor, !.read = <<>>, !.orders = {}]
       ELSE [k EXCEPT !.pc = IF page.next = NoCursor THEN "done" ELSE "idle",
                      !.cursor = page.next,
                      !.read = k.read \o page.items,
                      !.orders = k.orders \cup {order}]]

Ask(c, limit) ==
  /\ client[c].pc = "idle" /\ deployed > 0
  /\ LET k == client[c]
         terms == k.q.terms
         answer(vec) == Take(c, Answer(Corpus, k.q, limit, k.cursor, ready, vec), limit, vec, ready)
     IN \/ /\ terms = {} \/ ready = NoRows \/ ~healthy
           /\ answer(None) /\ UNCHANGED slot
        \/ /\ terms # {} /\ ready # NoRows /\ healthy /\ cache[terms] # None
           /\ answer(cache[terms]) /\ UNCHANGED slot
        \/ /\ terms # {} /\ ready # NoRows /\ healthy /\ cache[terms] = None /\ slot # None
           /\ answer(None) /\ UNCHANGED slot
        \/ /\ terms # {} /\ ready # NoRows /\ healthy /\ cache[terms] = None /\ slot = None
           /\ slot' = c
           /\ client' = [client EXCEPT ![c] = [k EXCEPT !.pc = "embedding", !.limit = limit, !.snap = ready]]
  /\ UNCHANGED <<deployed, ready, cache, healthy, builder>>

\* The model answers, or fails or takes too long: then words alone.
Embed(c) ==
  /\ client[c].pc = "embedding"
  /\ LET k == client[c]
         answer(vec) == Take(c, Answer(Corpus, k.q, k.limit, k.cursor, k.snap, vec), k.limit, vec, k.snap)
     IN \/ answer(None) /\ UNCHANGED cache
        \/ /\ healthy
           /\ \E vec \in Vectors[k.q.terms]:
                answer(vec) /\ cache' = [cache EXCEPT ![k.q.terms] = vec]
  /\ slot' = None
  /\ UNCHANGED <<deployed, ready, healthy, builder>>

\* The answer was lost with its process: the client repeats its request.
Repeat(c) ==
  /\ client[c].pc = "lost"
  /\ client' = [client EXCEPT ![c].pc = "idle"]
  /\ UNCHANGED <<deployed, ready, slot, cache, healthy, builder>>

-----------------------------------------------------------------------------

ClientOf(q) ==
  [pc |-> "idle", q |-> q, limit |-> 0, snap |-> NoRows, cursor |-> NoCursor, read |-> <<>>, orders |-> {}]

SemanticInit ==
  /\ deployed = 0 /\ ready = NoRows /\ slot = None
  /\ cache = [t \in Terms |-> None] /\ healthy = FALSE /\ builder = NoBuild
  /\ \E q \in [Clients -> Queries]: client = [c \in Clients |-> ClientOf(q[c])]

SemanticNext ==
  \/ Deploy \/ BeginWarm \/ WarmBatch \/ WarmFails \/ Publish \/ LoadSnapshot
  \/ ChildDies \/ CacheExpires
  \/ \E c \in Clients: Embed(c) \/ Repeat(c) \/ (\E limit \in Limits: Ask(c, limit))

SemanticSpec == SemanticInit /\ [][SemanticNext]_semanticVars

-----------------------------------------------------------------------------

\* The published vectors are those of every document of the corpus served, each
\* document its own (Warm, LoadSnapshot, Embed).
SnapshotsAreWhole ==
  ready # NoRows =>
    /\ Len(ready) = Len(Documents(Corpus))
    /\ \A i \in 1..Len(ready): ready[i] = [doc |-> Documents(Corpus)[i], vec |-> Documents(Corpus)[i]]

\* The entries a client has read through cursors are the beginning of a single
\* ranking, without a gap or a repetition, and the whole of it at the end:
\* whatever slots were busy, vectors were computed anew, the model process
\* died or the service was redeployed between its pages.  Apps page by plain
\* offsets: theirs are so only if one ranking gave all of them
\* (Search, SearchRanked, SearchApps).
PagesAreOfOneRanking ==
  /\ SnapshotsAreWhole
  /\ \A c \in Clients:
       LET k == client[c] IN
       k.q.over = "entries" \/ Cardinality(k.orders) = 1 =>
         \/ k.read = <<>>
         \/ \E order \in k.orders:
              /\ IsPrefix(k.read, order)
              /\ k.pc = "done" => k.read = order

=============================================================================
