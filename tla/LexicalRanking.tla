--------------------------- MODULE LexicalRanking ---------------------------
(***************************************************************************)
(* The registry's lexical ranking and the searches built on it: the        *)
(* catalog store's candidate page and the discovery answer cut from it.    *)
(* A record has a number ref, its place in the order of kind, artifact ID  *)
(* and version; fields, its stemmed terms in the naming, the classifying   *)
(* and the descriptive fields; kind, tags, state and ws (its workspace);   *)
(* size, the bytes of its candidate in a response; and seen, whether the   *)
(* authorizer lets the caller read it.                                     *)
(***************************************************************************)
EXTENDS Integers, Sequences, FiniteSets, FiniteSetsExt, SequencesExt

CONSTANTS DefaultLimit,  \* the limit of a search that names none
          MaxPage,       \* the store's ceiling on one page
          MaxScan,       \* the rows one text search of the store scores
          FrameBytes,    \* an empty response with a one-digit estimate
          CursorBytes    \* what a next cursor adds to it

TermsOf(fields) == UNION {fields[i]: i \in 1..3}

\* A term counts once and weighs 3, 2 or 1 by the best field it occurs in:
\* once for each of the first one, two and three fields that have it.
Score(fields, terms) ==
  [terms |-> Cardinality(terms \cap TermsOf(fields)),
   weight |-> Cardinality(terms \cap fields[1]) + Cardinality(terms \cap (fields[1] \cup fields[2]))
                + Cardinality(terms \cap TermsOf(fields))]

Better(m, o) ==
  \/ m.terms > o.terms
  \/ m.terms = o.terms /\ m.weight > o.weight

Before(a, b, terms) ==
  LET m == Score(a.fields, terms)
      o == Score(b.fields, terms)
  IN Better(m, o) \/ (~Better(o, m) /\ a.ref < b.ref)

\* The order Before sorts S into: at each place the record that as many come
\* before.
Ranked(S, terms) ==
  [i \in 1..Cardinality(S) |-> CHOOSE r \in S: Cardinality({o \in S: Before(o, r, terms)}) = i - 1]

MatchesFilters(r, kinds, tags) ==
  /\ kinds = {} \/ r.kind \in kinds
  /\ tags \subseteq r.tags

Live(r) == r.state \in {"published", "deprecated"}

-----------------------------------------------------------------------------
(* The catalog store's page for a query q: the terms of its text, text     *)
(* telling whether there is any, the filters and the limit.  Its statement *)
(* reads the first rows in the order of kind, artifact ID and version, as  *)
(* many as the page takes, or MaxScan when there are terms to score; who   *)
(* may read a row and its tags are not part of it.                         *)

PageLimit(q) == IF q.limit \in 1..MaxPage THEN q.limit ELSE MaxPage
ScanLimit(q) == IF q.terms = {} THEN PageLimit(q) ELSE MaxScan

Listed(rows, q) == {r \in rows: r.ws = q.ws /\ Live(r) /\ (q.kinds = {} \/ r.kind \in q.kinds)}
Scanned(rows, q) ==
  {r \in Listed(rows, q): Cardinality({o \in Listed(rows, q): o.ref < r.ref}) < ScanLimit(q)}
TextHits(S, q) == IF q.text THEN {r \in S: Score(r.fields, q.terms).terms > 0} ELSE S

CatalogPage(rows, q) ==
  LET ranked == Ranked(TextHits(Scanned(rows, q), q), q.terms)
  IN SubSeq(ranked, 1, Min({PageLimit(q), Len(ranked)}))

-----------------------------------------------------------------------------
(* Discovery: authorization, filters and ranking over the page, then as    *)
(* many candidates as the limit and the byte budget allow.                 *)

\* Mutant of Visible: the authorizer's answer is dropped.
VisibleToAll(r, q) ==
  /\ Live(r)
  /\ MatchesFilters(r, q.kinds, q.tags)
  /\ q.text => Score(r.fields, q.terms).terms > 0

Visible(r, q) ==
  /\ Live(r)
  /\ r.seen
  /\ MatchesFilters(r, q.kinds, q.tags)
  /\ q.text => Score(r.fields, q.terms).terms > 0

Digits(n) == IF n < 10 THEN 1 ELSE IF n < 100 THEN 2 ELSE 3

ResponseBytes(cands, cursor, estimate) ==
  FrameBytes + (IF cursor THEN CursorBytes ELSE 0) + (Digits(estimate) - 1)
    + SumFunction([i \in 1..Len(cands) |-> cands[i].size])
    + (IF cands = <<>> THEN 0 ELSE Len(cands) - 1)

\* The candidates taken one by one while the response still fits.
TakeWhileFits(ranked, q) ==
  LET fits(n) == ResponseBytes(SubSeq(ranked, 1, n), FALSE, 0) <= q.max
      taken == {n \in 0..Min({q.limit, Len(ranked)}): \A k \in 1..n: fits(k)}
  IN SubSeq(ranked, 1, Max(taken))

\* Candidates leave from the tail until the response with its own estimate
\* fits; a response that cannot shrink further is an error.  The estimate
\* after dropping i candidates is taken from the bytes with the estimate of
\* the round before.
Refused == [ok |-> FALSE, cands |-> <<>>, estimate |-> 0]

Shrink(cands, cursor, max) ==
  LET left(i) == SubSeq(cands, 1, Len(cands) - i)
      estimate[i \in 0..Len(cands)] ==
        (ResponseBytes(left(i), cursor, IF i = 0 THEN 0 ELSE estimate[i - 1]) + 3) \div 4
      fits == {i \in 0..Len(cands): ResponseBytes(left(i), cursor, estimate[i]) <= max}
  IN IF fits = {} THEN Refused
     ELSE [ok |-> TRUE, cands |-> left(Min(fits)), estimate |-> estimate[Min(fits)]]

Discover(page, q) ==
  IF \E i \in 1..Len(page): page[i].ws # q.ws
  THEN Refused
  ELSE LET visible == {r \in Range(page): Visible(r, q)}
       IN Shrink(TakeWhileFits(Ranked(visible, q.terms), q), q.cursor, q.max)

=============================================================================
