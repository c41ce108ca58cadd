--------------------------- MODULE RegistrySearch ---------------------------
(***************************************************************************)
(* A search of the registry: the catalog store's page for a query, and     *)
(* discovery's answer from it.  Nothing else of a search is kept between   *)
(* calls.                                                                  *)
(***************************************************************************)
EXTENDS LexicalRanking

CONSTANT SearchAsks   \* the searches made, as FindOf has them

\* The store holds finitely many records, each with a place of its own, and a
\* query has finitely many terms.
ASSUME RegistryAssumption ==
  /\ DefaultLimit \in Nat \ {0} /\ MaxPage \in Nat \ {0} /\ MaxScan \in Nat \ {0}
  /\ \A a \in SearchAsks:
       /\ IsFiniteSet(a.rows) /\ IsFiniteSet(a.q.terms)
       /\ "limit" \in DOMAIN a.q /\ a.q.limit \in Int
       /\ \A r \in a.rows: r.ref \in Nat
       /\ \A r, s \in a.rows: r.ref = s.ref => r = s

VARIABLE find

\* An ask: the rows of the store and the query; without a text there are no
\* terms, and a text of stopwords only has none either.
FindOf(ask) == [pc |-> "asked", rows |-> ask.rows, q |-> ask.q, out |-> Refused]

\* The query as the store and discovery see it: a limit is always set.
Limited(q) == [q EXCEPT !.limit = IF @ <= 0 THEN DefaultLimit ELSE @]

AnswerFrom(rows, q) == Discover(CatalogPage(rows, Limited(q)), Limited(q))

SearchRegistry ==
  /\ find.pc = "asked"
  /\ find' = [find EXCEPT !.pc = "answered", !.out = AnswerFrom(find.rows, find.q)]

FindInit == \E ask \in SearchAsks: find = FindOf(ask)
FindSpec == FindInit /\ [][SearchRegistry]_find

-----------------------------------------------------------------------------

\* The two ways in which records the caller may not read, or whose tags do
\* not fit, can keep a record off the store's page: so many rows come before
\* it that the scan ends, or so many matches rank before it that the page is
\* full.
PastTheScan(r, rows, q) == Cardinality({o \in Listed(rows, q): o.ref < r.ref}) >= ScanLimit(q)
OffThePage(r, rows, q) ==
  Cardinality({o \in TextHits(Listed(rows, q), q): Before(o, r, q.terms)}) >= PageLimit(q)

\* The response would be too long, with or without the next cursor and
\* however many digits its estimate has.
OverBudget(cands, q) ==
  \E cursor \in {FALSE, q.cursor}, estimate \in {0, 10, 100}:
    ~(ResponseBytes(cands, cursor, estimate) <= q.max)

\* A registry answer gives only records the caller may read and asked for, in
\* the order of the ranking, within the byte budget together with its own
\* estimate.  It leaves out such a record for three reasons only: the scan or
\* the store's page ended before it, on records of which the caller may not
\* be allowed to read any, or the best one left out does not fit.  Unless the
\* store holds more than the scan and the page take, the answer is the one
\* that the store without its unreadable records gives (Postgres.Search cuts
\* before Service.Search authorizes).
HiddenRecordsOnlyCrowd ==
  find.pc = "answered" =>
    LET rows == find.rows
        q == Limited(find.q)
        out == find.out
        given == Range(out.cands)
        due == {r \in rows: r.ws = q.ws /\ Visible(r, q)}
    IN /\ given \subseteq due
       /\ \A i, j \in DOMAIN out.cands: i < j => Before(out.cands[i], out.cands[j], q.terms)
       /\ out.ok =>
            /\ ResponseBytes(out.cands, q.cursor, out.estimate) <= q.max
            /\ \A r \in due \ given:
                 \/ PastTheScan(r, rows, q)
                 \/ OffThePage(r, rows, q)
                 \/ \E s \in due \ given: /\ s = r \/ Before(s, r, q.terms)
                                          /\ \A c \in given: Before(c, s, q.terms)
                                          /\ OverBudget(Append(out.cands, s), q)
       /\ (/\ \A r \in Listed(rows, q): ~PastTheScan(r, rows, q)
           /\ Cardinality(TextHits(Listed(rows, q), q)) <= PageLimit(q))
            => out = AnswerFrom({r \in rows: r.seen}, find.q)

=============================================================================
