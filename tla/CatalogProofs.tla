--------------------------- MODULE CatalogProofs ---------------------------
(***************************************************************************)
(* The catalog.  The scoped index: a partial update makes the snapshot     *)
(* that a rebuild of the same entries makes, publications replace the      *)
(* snapshot they were prepared against, and an answer is the one the       *)
(* current entries give.  The services that answer from it: a ready        *)
(* preparation and a ready composition were true at one instant, since     *)
(* what is lost is lost for good and all of it is read again afterwards.   *)
(* The recipes a ready composition admits run.  The registry's search:     *)
(* its ranking is a sort, its answer the best of what may be seen but for  *)
(* what the scan, the page or the budget left out.                         *)
(***************************************************************************)
EXTENDS ScopedIndex, RecipeRun, CatalogServices, RegistrySearch, FiniteSetTheorems,
        SequenceTheorems, NaturalsInduction, WellFoundedInduction, TLAPS

\* A map from references to the entries that have them.
Mapped(f) == f = [r \in DOMAIN f |-> f[r]] /\ \A r \in DOMAIN f: f[r].ref = r

\* A snapshot is the one a rebuild of its entries makes.
Sound(s) == s = Build(s.entries, s.gen) /\ Mapped(s.entries)

EntriesOf(f) == {f[r]: r \in DOMAIN f}

\* What a partial update makes of the entries.
Edited(old, changed, removed) ==
  [r \in (DOMAIN old \cup DOMAIN changed) \ removed |->
     IF r \in DOMAIN changed THEN changed[r] ELSE old[r]]

-----------------------------------------------------------------------------
(* Postings and binding buckets of a set of entries.                       *)

Postings(S) ==
  [t \in UNION {EntryTerms(e): e \in S} |-> {e.ref: e \in {x \in S: t \in EntryTerms(x)}}]
Buckets(S) == [k \in UNION {KeysOf(e): e \in S} |-> UNION {RowsFor(e, k): e \in S}]

LEMMA BuildMade ==
  ASSUME NEW f, NEW g
  PROVE  /\ Build(f, g) = [gen |-> g, entries |-> f, postings |-> Postings(EntriesOf(f)),
                           bindings |-> Buckets(EntriesOf(f))]
         /\ Build(f, g).gen = g /\ Build(f, g).entries = f
         /\ Build(f, g).postings = Postings(EntriesOf(f))
         /\ Build(f, g).bindings = Buckets(EntriesOf(f))
BY DEF Build, Postings, Buckets, EntriesOf

LEMMA PostingsAt ==
  ASSUME NEW S, NEW t
  PROVE  At(Postings(S), t) = {e.ref: e \in {x \in S: t \in EntryTerms(x)}}
<1> DEFINE found == {e.ref: e \in {x \in S: t \in EntryTerms(x)}}
<1>1. CASE t \in UNION {EntryTerms(e): e \in S}
  BY <1>1 DEF At, Postings
<1>2. CASE t \notin UNION {EntryTerms(e): e \in S}
  <2>1. found = {}
    BY <1>2
  <2>2. At(Postings(S), t) = {}
    BY <1>2 DEF At, Postings
  <2> QED BY <2>1, <2>2
<1> QED BY <1>1, <1>2

LEMMA RowsAreKeyed ==
  ASSUME NEW e, NEW k
  PROVE  /\ RowsFor(e, k) # {} <=> k \in KeysOf(e)
         /\ \A r \in RowsFor(e, k): r.ref = e.ref
<1>1. \A r \in RowsFor(e, k): r.ref = e.ref
  BY DEF RowsFor, Rows
<1>2. ASSUME k \in KeysOf(e) PROVE RowsFor(e, k) # {}
  <2>1. PICK b \in e.binds: k = b.key
    BY <1>2 DEF KeysOf
  <2>2. [ref |-> e.ref, tool |-> b.tool, conn |-> b.conn, key |-> b.key] \in RowsFor(e, k)
    BY <2>1 DEF RowsFor, Rows
  <2> QED BY <2>2
<1>3. ASSUME RowsFor(e, k) # {} PROVE k \in KeysOf(e)
  <2>1. PICK r \in Rows(e): r.key = k
    BY <1>3 DEF RowsFor
  <2>2. PICK b \in e.binds: r = [ref |-> e.ref, tool |-> b.tool, conn |-> b.conn, key |-> b.key]
    BY DEF Rows
  <2> QED BY <2>1, <2>2 DEF KeysOf
<1> QED BY <1>1, <1>2, <1>3

LEMMA BucketsAt ==
  ASSUME NEW S, NEW k
  PROVE  At(Buckets(S), k) = UNION {RowsFor(e, k): e \in S}
<1> DEFINE found == UNION {RowsFor(e, k): e \in S}
<1>1. CASE k \in UNION {KeysOf(e): e \in S}
  BY <1>1 DEF At, Buckets
<1>2. CASE k \notin UNION {KeysOf(e): e \in S}
  <2>1. \A e \in S: RowsFor(e, k) = {}
    BY <1>2, RowsAreKeyed
  <2>2. found = {}
    BY <2>1
  <2>3. At(Buckets(S), k) = {}
    BY <1>2 DEF At, Buckets
  <2> QED BY <2>2, <2>3
<1> QED BY <1>1, <1>2

-----------------------------------------------------------------------------
(* A partial update is a rebuild of the edited entries.                    *)

\* Which entries an edit leaves.
LEMMA EntriesEdited ==
  ASSUME NEW old, NEW changed, NEW removed, Mapped(old), Mapped(changed),
         \A r \in DOMAIN changed: r \notin removed
  PROVE  LET gone == DOMAIN changed \cup removed
             f == Edited(old, changed, removed)
         IN /\ Mapped(f)
            /\ \A e: e \in EntriesOf(f) <=>
                 e \in EntriesOf(changed) \/ (e \in EntriesOf(old) /\ e.ref \notin gone)
            /\ \A e \in EntriesOf(changed): e.ref \in gone
            /\ \A e: e \in {old[r]: r \in gone \cap DOMAIN old} <=> e \in EntriesOf(old) /\ e.ref \in gone
<1> DEFINE gone == DOMAIN changed \cup removed
           f == Edited(old, changed, removed)
           both == {old[r]: r \in gone \cap DOMAIN old}
<1>1. /\ \A r \in DOMAIN old: old[r].ref = r
      /\ \A r \in DOMAIN changed: changed[r].ref = r /\ r \notin removed
  BY DEF Mapped
<1>2. /\ DOMAIN f = (DOMAIN old \cup DOMAIN changed) \ removed
      /\ \A r \in DOMAIN f: f[r] = IF r \in DOMAIN changed THEN changed[r] ELSE old[r]
      /\ f = [r \in DOMAIN f |-> f[r]]
  BY DEF Edited
<1> HIDE DEF f
<1>3. \A r \in DOMAIN f: f[r].ref = r
  BY <1>1, <1>2
<1>4. ASSUME NEW e, e \in EntriesOf(f)
      PROVE  e \in EntriesOf(changed) \/ (e \in EntriesOf(old) /\ e.ref \notin gone)
  <2>1. PICK r \in DOMAIN f: e = f[r]
    BY <1>4 DEF EntriesOf
  <2> QED BY <1>1, <1>2, <2>1 DEF EntriesOf
<1>5. ASSUME NEW e, e \in EntriesOf(changed) PROVE e \in EntriesOf(f) /\ e.ref \in gone
  <2>1. PICK r \in DOMAIN changed: e = changed[r]
    BY <1>5 DEF EntriesOf
  <2>2. r \in DOMAIN f /\ f[r] = e
    BY <1>1, <1>2, <2>1
  <2> QED BY <1>1, <2>1, <2>2 DEF EntriesOf
<1>6. ASSUME NEW e, e \in EntriesOf(old), e.ref \notin gone PROVE e \in EntriesOf(f)
  <2>1. PICK r \in DOMAIN old: e = old[r]
    BY <1>6 DEF EntriesOf
  <2>2. r \in DOMAIN f /\ f[r] = e
    BY <1>1, <1>2, <1>6, <2>1
  <2> QED BY <2>2 DEF EntriesOf
<1>7. ASSUME NEW e, e \in both PROVE e \in EntriesOf(old) /\ e.ref \in gone
  BY <1>1, <1>7 DEF EntriesOf
<1>8. ASSUME NEW e, e \in EntriesOf(old), e.ref \in gone PROVE e \in both
  <2>1. PICK r \in DOMAIN old: e = old[r]
    BY <1>8 DEF EntriesOf
  <2> QED BY <1>1, <1>8, <2>1
<1> HIDE DEF gone, both
<1>9. /\ Mapped(f)
      /\ \A e: e \in EntriesOf(f) <=>
           e \in EntriesOf(changed) \/ (e \in EntriesOf(old) /\ e.ref \notin gone)
      /\ \A e \in EntriesOf(changed): e.ref \in gone
      /\ \A e: e \in both <=> e \in EntriesOf(old) /\ e.ref \in gone
  BY <1>2, <1>3, <1>4, <1>5, <1>6, <1>7, <1>8 DEF Mapped
<1> QED BY <1>9 DEF f, gone, both

\* The posting sets and buckets that are made again, and those that are kept.
PostingMade(P, new, gone, t) ==
  (At(P, t) \ gone) \cup {e.ref: e \in {x \in new: t \in EntryTerms(x)}}
RowsMade(B, new, gone, k) ==
  {r \in At(B, k): r.ref \notin gone} \cup UNION {RowsFor(e, k): e \in new}
PostingsMade(P, new, both, gone) ==
  LET terms == UNION {EntryTerms(e): e \in both}
  IN [t \in {t \in DOMAIN P \cup terms: t \in terms => PostingMade(P, new, gone, t) # {}} |->
        IF t \in terms THEN PostingMade(P, new, gone, t) ELSE P[t]]
BucketsMade(B, new, both, gone) ==
  LET keys == UNION {KeysOf(e): e \in both}
  IN [k \in {k \in DOMAIN B \cup keys: k \in keys => RowsMade(B, new, gone, k) # {}} |->
        IF k \in keys THEN RowsMade(B, new, gone, k) ELSE B[k]]

LEMMA PostingsEdited ==
  ASSUME NEW S, NEW new, NEW both, NEW T, NEW gone,
         \A e: e \in T <=> e \in new \/ (e \in S /\ e.ref \notin gone),
         \A e \in new: e.ref \in gone,
         \A e: e \in both <=> e \in new \/ (e \in S /\ e.ref \in gone)
  PROVE  PostingsMade(Postings(S), new, both, gone) = Postings(T)
<1> DEFINE terms == UNION {EntryTerms(e): e \in both}
           posting(t) == (At(Postings(S), t) \ gone) \cup {e.ref: e \in {x \in new: t \in EntryTerms(x)}}
           made(t) == {e.ref: e \in {x \in T: t \in EntryTerms(x)}}
           all == UNION {EntryTerms(e): e \in T}
           dom == {t \in DOMAIN Postings(S) \cup terms: t \in terms => posting(t) # {}}
<1>1. ASSUME NEW t PROVE posting(t) = made(t)
  <2>1. At(Postings(S), t) = {e.ref: e \in {x \in S: t \in EntryTerms(x)}}
    BY PostingsAt
  <2> QED BY <2>1
<1>2. ASSUME NEW t, t \notin terms, t \in DOMAIN Postings(S) PROVE Postings(S)[t] = made(t)
  <2>1. Postings(S)[t] = {e.ref: e \in {x \in S: t \in EntryTerms(x)}}
    BY <1>2 DEF Postings
  <2>2. \A e \in S: t \in EntryTerms(e) => e.ref \notin gone
    BY <1>2
  <2>3. \A e \in new: t \notin EntryTerms(e)
    BY <1>2
  <2>4. \A e: e \in S /\ t \in EntryTerms(e) <=> e \in T /\ t \in EntryTerms(e)
    BY <2>2, <2>3
  <2> QED BY <2>1, <2>4
<1>3. dom = all
  <2>1. ASSUME NEW t, t \in dom PROVE t \in all
    <3>1. CASE t \in terms
      <4>1. made(t) # {}
        BY <1>1, <2>1, <3>1
      <4> QED BY <4>1
    <3>2. CASE t \notin terms
      <4>1. PICK e \in S: t \in EntryTerms(e)
        BY <2>1, <3>2 DEF Postings
      <4>2. e \in T
        BY <3>2, <4>1
      <4> QED BY <4>1, <4>2
    <3> QED BY <3>1, <3>2
  <2>2. ASSUME NEW t, t \in all PROVE t \in dom
    <3>1. PICK e \in T: t \in EntryTerms(e)
      BY <2>2
    <3>2. e.ref \in made(t)
      BY <3>1
    <3>3. posting(t) # {}
      BY <1>1, <3>2
    <3>4. t \in DOMAIN Postings(S) \cup terms
      BY <3>1 DEF Postings
    <3> QED BY <3>3, <3>4
  <2> QED BY <2>1, <2>2
<1>4. \A t \in dom: (IF t \in terms THEN posting(t) ELSE Postings(S)[t]) = made(t)
  BY <1>1, <1>2
<1>5. Postings(T) = [t \in all |-> made(t)]
  BY DEF Postings
<1> HIDE DEF made, posting, terms, all
<1>6. [t \in dom |-> IF t \in terms THEN posting(t) ELSE Postings(S)[t]] = Postings(T)
  BY <1>3, <1>4, <1>5
<1> QED BY <1>6 DEF posting, terms, PostingsMade, PostingMade

\* The binding buckets that are made again, and those that are kept.
LEMMA BucketsEdited ==
  ASSUME NEW S, NEW new, NEW both, NEW T, NEW gone,
         \A e: e \in T <=> e \in new \/ (e \in S /\ e.ref \notin gone),
         \A e \in new: e.ref \in gone,
         \A e: e \in both <=> e \in new \/ (e \in S /\ e.ref \in gone)
  PROVE  BucketsMade(Buckets(S), new, both, gone) = Buckets(T)
<1> DEFINE keys == UNION {KeysOf(e): e \in both}
           rows(k) == {r \in At(Buckets(S), k): r.ref \notin gone} \cup UNION {RowsFor(e, k): e \in new}
           made(k) == UNION {RowsFor(e, k): e \in T}
           all == UNION {KeysOf(e): e \in T}
           dom == {k \in DOMAIN Buckets(S) \cup keys: k \in keys => rows(k) # {}}
<1>1. ASSUME NEW k PROVE rows(k) = made(k)
  <2>1. At(Buckets(S), k) = UNION {RowsFor(e, k): e \in S}
    BY BucketsAt
  <2>2. \A e: \A r \in RowsFor(e, k): r.ref = e.ref
    BY RowsAreKeyed
  <2>3. ASSUME NEW r, r \in rows(k) PROVE r \in made(k)
    BY <2>1, <2>2, <2>3
  <2>4. ASSUME NEW r, r \in made(k) PROVE r \in rows(k)
    <3>1. PICK e \in T: r \in RowsFor(e, k)
      BY <2>4
    <3>2. CASE e \in new
      BY <3>1, <3>2
    <3>3. CASE e \in S /\ e.ref \notin gone
      BY <2>1, <2>2, <3>1, <3>3
    <3> QED BY <3>2, <3>3
  <2> QED BY <2>3, <2>4
<1>2. ASSUME NEW k, k \notin keys, k \in DOMAIN Buckets(S) PROVE Buckets(S)[k] = made(k)
  <2>1. Buckets(S)[k] = UNION {RowsFor(e, k): e \in S}
    BY <1>2 DEF Buckets
  <2>2. \A e \in S: k \in KeysOf(e) => e.ref \notin gone
    BY <1>2
  <2>3. \A e \in new: k \notin KeysOf(e)
    BY <1>2
  <2>4. \A e: RowsFor(e, k) # {} <=> k \in KeysOf(e)
    BY RowsAreKeyed
  <2>5. \A e: e \in S /\ k \in KeysOf(e) <=> e \in T /\ k \in KeysOf(e)
    BY <2>2, <2>3
  <2>6. \A r: r \in UNION {RowsFor(e, k): e \in S} <=> r \in made(k)
    BY <2>4, <2>5
  <2> QED BY <2>1, <2>6
<1>3. dom = all
  <2>1. ASSUME NEW k, k \in dom PROVE k \in all
    <3>1. CASE k \in keys
      <4>1. PICK r: r \in made(k)
        BY <1>1, <2>1, <3>1
      <4>2. PICK e \in T: r \in RowsFor(e, k)
        BY <4>1
      <4>3. k \in KeysOf(e)
        BY <4>2, RowsAreKeyed
      <4> QED BY <4>2, <4>3
    <3>2. CASE k \notin keys
      <4>1. PICK e \in S: k \in KeysOf(e)
        BY <2>1, <3>2 DEF Buckets
      <4>2. e \in T
        BY <3>2, <4>1
      <4> QED BY <4>1, <4>2
    <3> QED BY <3>1, <3>2
  <2>2. ASSUME NEW k, k \in all PROVE k \in dom
    <3>1. PICK e \in T: k \in KeysOf(e)
      BY <2>2
    <3>2. PICK r: r \in RowsFor(e, k)
      BY <3>1, RowsAreKeyed
    <3>3. r \in made(k)
      BY <3>1, <3>2
    <3>4. rows(k) # {}
      <4>1. r \in rows(k)
        <5> HIDE DEF rows, made
        <5> QED BY <1>1, <3>3
      <4> QED BY <4>1
    <3>5. k \in DOMAIN Buckets(S) \cup keys
      BY <3>1 DEF Buckets
    <3> QED BY <3>4, <3>5
  <2> QED BY <2>1, <2>2
<1>4. \A k \in dom: (IF k \in keys THEN rows(k) ELSE Buckets(S)[k]) = made(k)
  BY <1>1, <1>2
<1>5. Buckets(T) = [k \in all |-> made(k)]
  BY DEF Buckets
<1> HIDE DEF made, rows, keys, all
<1>6. [k \in dom |-> IF k \in keys THEN rows(k) ELSE Buckets(S)[k]] = Buckets(T)
  BY <1>3, <1>4, <1>5
<1> QED BY <1>6 DEF rows, keys, BucketsMade, RowsMade

LEMMA PatchIsRebuild ==
  ASSUME NEW old, NEW changed, NEW removed, Sound(old), Mapped(changed),
         \A r \in DOMAIN changed: r \notin removed
  PROVE  /\ Patch(old, changed, removed) = Build(Edited(old.entries, changed, removed), 0)
         /\ Mapped(Edited(old.entries, changed, removed))
<1> DEFINE gone == DOMAIN changed \cup removed
           f == Edited(old.entries, changed, removed)
           S == EntriesOf(old.entries)
           new == EntriesOf(changed)
           T == EntriesOf(f)
           left == {old.entries[r]: r \in gone \cap DOMAIN old.entries}
           both == new \cup left
           postings == PostingsMade(old.postings, new, both, gone)
           buckets == BucketsMade(old.bindings, new, both, gone)
<1>1. old.postings = Postings(S) /\ old.bindings = Buckets(S) /\ Mapped(old.entries)
  BY BuildMade DEF Sound
<1>2. Patch(old, changed, removed) = [gen |-> 0, entries |-> f, postings |-> postings, bindings |-> buckets]
  BY DEF Patch, Edited, EntriesOf, PostingsMade, PostingMade, BucketsMade, RowsMade
<1>3. /\ Mapped(f)
      /\ \A e: e \in T <=> e \in new \/ (e \in S /\ e.ref \notin gone)
      /\ \A e \in new: e.ref \in gone
      /\ \A e: e \in left <=> e \in S /\ e.ref \in gone
  <2> DEFINE g == old.entries
  <2>1. Mapped(g)
    BY <1>1
  <2> HIDE DEF g
  <2>2. /\ Mapped(Edited(g, changed, removed))
        /\ \A e: e \in EntriesOf(Edited(g, changed, removed)) <=>
             e \in EntriesOf(changed) \/ (e \in EntriesOf(g) /\ e.ref \notin (DOMAIN changed \cup removed))
        /\ \A e \in EntriesOf(changed): e.ref \in (DOMAIN changed \cup removed)
        /\ \A e: e \in {g[r]: r \in (DOMAIN changed \cup removed) \cap DOMAIN g} <=>
             e \in EntriesOf(g) /\ e.ref \in (DOMAIN changed \cup removed)
    BY <2>1, EntriesEdited
  <2> QED BY <2>2 DEF g
<1>4. \A e: e \in both <=> e \in new \/ (e \in S /\ e.ref \in gone)
  BY <1>3
<1>5. postings = Postings(T) /\ buckets = Buckets(T)
  <2> HIDE DEF T, gone, S, new, both
  <2>1. PostingsMade(Postings(S), new, both, gone) = Postings(T)
    BY <1>3, <1>4, PostingsEdited
  <2>2. BucketsMade(Buckets(S), new, both, gone) = Buckets(T)
    BY <1>3, <1>4, BucketsEdited
  <2> QED BY <1>1, <2>1, <2>2
<1> HIDE DEF f, postings, buckets
<1>6. Build(f, 0) = [gen |-> 0, entries |-> f, postings |-> Postings(EntriesOf(f)), bindings |-> Buckets(EntriesOf(f))]
  BY BuildMade
<1> QED BY <1>2, <1>3, <1>5, <1>6 DEF f

-----------------------------------------------------------------------------
(* The invariant: every snapshot is sound, and what a call carries is tied *)
(* to the snapshot it began with.                                          *)

\* The snapshot a call holds, which is the current one if that has not moved.
HoldsBase(j, cur) ==
  /\ Sound(j.base)
  /\ j.base.gen \in Nat /\ j.base.gen <= cur.gen
  /\ j.base.gen = cur.gen => j.base = cur

\* A partial update to publish edits the entries it was prepared against.
EditsCurrent(j, cur) ==
  /\ j.expected \in Nat /\ j.expected <= cur.gen
  /\ j.expected = cur.gen => j.next.entries = Edited(cur.entries, ByRef(j.ups), j.rem)

\* A rollback to publish restores the snapshot before the one it replaces.
RestoresPrevious(j, cur, prev) ==
  /\ j.expected \in Nat /\ j.expected <= cur.gen
  /\ j.expected = cur.gen => j.next.entries = prev.entries

JobShape(j) ==
  j = [pc |-> j.pc, op |-> j.op, base |-> j.base, expected |-> j.expected,
       ups |-> j.ups, rem |-> j.rem, next |-> j.next, q |-> j.q, out |-> j.out]

JobOk(j, cur, prev) ==
  /\ JobShape(j)
  /\ j.pc = "analyze" => /\ HoldsBase(j, cur)
                         /\ j.op = "update" /\ j.expected = j.base.gen
  /\ j.pc = "publish" => /\ Sound(j.next)
                         /\ j.op = "update" => EditsCurrent(j, cur)
                         /\ j.op = "rollback" => RestoresPrevious(j, cur, prev)
  /\ j.pc \in {"gather", "finish"} => /\ HoldsBase(j, cur)
                                      /\ j.op \in {"search", "lookup", "exact"}
  /\ j.pc = "finish" => j.out = AnswerOf(j.base, j.op, j.q)

IndexInv ==
  /\ Sound(current) /\ current.gen \in Nat
  /\ Sound(previous)
  /\ job = [c \in DOMAIN job |-> job[c]]
  /\ \A c \in DOMAIN job: JobOk(job[c], current, previous)

-----------------------------------------------------------------------------
(* Snapshots that are built, and calls that start and end. *)

LEMMA BuiltIsSound ==
  ASSUME NEW f, NEW g, Mapped(f)
  PROVE  Sound(Build(f, g))
<1>1. Build(f, g).entries = f /\ Build(f, g).gen = g
  BY BuildMade
<1> QED BY <1>1 DEF Sound

LEMMA Renumbered ==
  ASSUME NEW s, NEW g, Sound(s)
  PROVE  [s EXCEPT !.gen = g] = Build(s.entries, g)
<1>1. s = [gen |-> s.gen, entries |-> s.entries, postings |-> Postings(EntriesOf(s.entries)),
           bindings |-> Buckets(EntriesOf(s.entries))]
  BY BuildMade DEF Sound
<1>2. [s EXCEPT !.gen = g] = [gen |-> g, entries |-> s.entries, postings |-> Postings(EntriesOf(s.entries)),
                              bindings |-> Buckets(EntriesOf(s.entries))]
  BY <1>1
<1> QED BY <1>2, BuildMade

LEMMA ReferencesAreMapped ==
  ASSUME NEW S
  PROVE  /\ Mapped(ByRef(S))
         /\ DOMAIN ByRef(S) = {e.ref: e \in S}
<1>1. /\ DOMAIN ByRef(S) = {e.ref: e \in S}
      /\ ByRef(S) = [r \in DOMAIN ByRef(S) |-> ByRef(S)[r]]
  BY DEF ByRef
<1>2. ASSUME NEW r, r \in DOMAIN ByRef(S) PROVE ByRef(S)[r].ref = r
  <2>1. PICK e \in S: e.ref = r
    BY <1>1, <1>2
  <2>2. (CHOOSE x \in S: x.ref = r).ref = r
    BY <2>1
  <2> QED BY <1>1, <1>2, <2>2 DEF ByRef
<1> QED BY <1>1, <1>2 DEF Mapped

LEMMA NothingIsSound ==
  Sound(NoSnapshot) /\ NoSnapshot.gen = 0
<1>1. Mapped(<<>>)
  BY DEF Mapped
<1> QED BY <1>1, BuiltIsSound, BuildMade DEF NoSnapshot

LEMMA ResultsAreOk ==
  ASSUME NEW cur, NEW prev
  PROVE  /\ JobOk(Idle, cur, prev)
         /\ JobOk([Idle EXCEPT !.pc = "given"], cur, prev)
BY DEF JobOk, JobShape, Idle

\* A step that leaves the snapshots alone and moves one call.
LEMMA OneCallMoves ==
  ASSUME IndexInv, NEW c \in DOMAIN job, NEW j, JobOk(j, current, previous),
         job' = [job EXCEPT ![c] = j], UNCHANGED <<current, previous>>
  PROVE  IndexInv'
<1>1. /\ DOMAIN job' = DOMAIN job
      /\ job' = [d \in DOMAIN job' |-> job'[d]]
      /\ \A d \in DOMAIN job: job'[d] = IF d = c THEN j ELSE job[d]
  BY DEF IndexInv
<1>2. current' = current /\ previous' = previous
  OBVIOUS
<1>3. \A d \in DOMAIN job': JobOk(job'[d], current, previous)
  BY <1>1 DEF IndexInv
<1> QED BY <1>1, <1>2, <1>3 DEF IndexInv

\* Calls when they start, and when they go on.
UpdateCall(base, g, ups, rem) == [Idle EXCEPT !.pc = "analyze", !.op = "update", !.base = base, !.expected = g, !.ups = ups, !.rem = rem]
RebuildCall(g, ups, next) == [Idle EXCEPT !.pc = "publish", !.op = "rebuild", !.expected = g, !.ups = ups, !.next = next]
RollbackCall(g, next) == [Idle EXCEPT !.pc = "publish", !.op = "rollback", !.expected = g, !.next = next]
ReadCall(op, base, q) == [Idle EXCEPT !.pc = "gather", !.op = op, !.base = base, !.q = q]
Analyzed(i, next) == [i EXCEPT !.pc = "publish", !.base = NoSnapshot, !.next = next]
Replied(i, out) == [i EXCEPT !.pc = "finish", !.out = out]

LEMMA UpdateCallMade ==
  ASSUME NEW base, NEW g, NEW ups, NEW rem
  PROVE  /\ JobShape(UpdateCall(base, g, ups, rem))
         /\ UpdateCall(base, g, ups, rem).pc = "analyze"
         /\ UpdateCall(base, g, ups, rem).op = "update"
         /\ UpdateCall(base, g, ups, rem).base = base
         /\ UpdateCall(base, g, ups, rem).expected = g
<1> DEFINE j == UpdateCall(base, g, ups, rem)
           d == Idle
<1>1. d = [pc |-> d.pc, op |-> d.op, base |-> d.base, expected |-> d.expected, ups |-> d.ups,
           rem |-> d.rem, next |-> d.next, q |-> d.q, out |-> d.out]
  BY DEF Idle
<1>2. j = [d EXCEPT !.pc = "analyze", !.op = "update", !.base = base, !.expected = g, !.ups = ups, !.rem = rem]
  BY DEF UpdateCall
<1> HIDE DEF j, d
<1>3. j = [pc |-> "analyze", op |-> "update", base |-> base, expected |-> g, ups |-> ups,
           rem |-> rem, next |-> d.next, q |-> d.q, out |-> d.out]
  BY <1>1, <1>2
<1>4. JobShape(j) /\ j.pc = "analyze" /\ j.op = "update" /\ j.base = base /\ j.expected = g
  BY <1>3 DEF JobShape
<1> QED BY <1>4 DEF j

LEMMA RebuildCallMade ==
  ASSUME NEW g, NEW ups, NEW next
  PROVE  /\ JobShape(RebuildCall(g, ups, next))
         /\ RebuildCall(g, ups, next).pc = "publish"
         /\ RebuildCall(g, ups, next).op = "rebuild"
         /\ RebuildCall(g, ups, next).next = next
<1> DEFINE j == RebuildCall(g, ups, next)
           d == Idle
<1>1. d = [pc |-> d.pc, op |-> d.op, base |-> d.base, expected |-> d.expected, ups |-> d.ups,
           rem |-> d.rem, next |-> d.next, q |-> d.q, out |-> d.out]
  BY DEF Idle
<1>2. j = [d EXCEPT !.pc = "publish", !.op = "rebuild", !.expected = g, !.ups = ups, !.next = next]
  BY DEF RebuildCall
<1> HIDE DEF j, d
<1>3. j = [pc |-> "publish", op |-> "rebuild", base |-> d.base, expected |-> g, ups |-> ups,
           rem |-> d.rem, next |-> next, q |-> d.q, out |-> d.out]
  BY <1>1, <1>2
<1>4. JobShape(j) /\ j.pc = "publish" /\ j.op = "rebuild" /\ j.next = next
  BY <1>3 DEF JobShape
<1> QED BY <1>4 DEF j

LEMMA RollbackCallMade ==
  ASSUME NEW g, NEW next
  PROVE  /\ JobShape(RollbackCall(g, next))
         /\ RollbackCall(g, next).pc = "publish"
         /\ RollbackCall(g, next).op = "rollback"
         /\ RollbackCall(g, next).expected = g
         /\ RollbackCall(g, next).next = next
<1> DEFINE j == RollbackCall(g, next)
           d == Idle
<1>1. d = [pc |-> d.pc, op |-> d.op, base |-> d.base, expected |-> d.expected, ups |-> d.ups,
           rem |-> d.rem, next |-> d.next, q |-> d.q, out |-> d.out]
  BY DEF Idle
<1>2. j = [d EXCEPT !.pc = "publish", !.op = "rollback", !.expected = g, !.next = next]
  BY DEF RollbackCall
<1> HIDE DEF j, d
<1>3. j = [pc |-> "publish", op |-> "rollback", base |-> d.base, expected |-> g, ups |-> d.ups,
           rem |-> d.rem, next |-> next, q |-> d.q, out |-> d.out]
  BY <1>1, <1>2
<1>4. JobShape(j) /\ j.pc = "publish" /\ j.op = "rollback" /\ j.expected = g /\ j.next = next
  BY <1>3 DEF JobShape
<1> QED BY <1>4 DEF j

LEMMA ReadCallMade ==
  ASSUME NEW op, NEW base, NEW q
  PROVE  /\ JobShape(ReadCall(op, base, q))
         /\ ReadCall(op, base, q).pc = "gather"
         /\ ReadCall(op, base, q).op = op
         /\ ReadCall(op, base, q).base = base
<1> DEFINE j == ReadCall(op, base, q)
           d == Idle
<1>1. d = [pc |-> d.pc, op |-> d.op, base |-> d.base, expected |-> d.expected, ups |-> d.ups,
           rem |-> d.rem, next |-> d.next, q |-> d.q, out |-> d.out]
  BY DEF Idle
<1>2. j = [d EXCEPT !.pc = "gather", !.op = op, !.base = base, !.q = q]
  BY DEF ReadCall
<1> HIDE DEF j, d
<1>3. j = [pc |-> "gather", op |-> op, base |-> base, expected |-> d.expected, ups |-> d.ups,
           rem |-> d.rem, next |-> d.next, q |-> q, out |-> d.out]
  BY <1>1, <1>2
<1>4. JobShape(j) /\ j.pc = "gather" /\ j.op = op /\ j.base = base
  BY <1>3 DEF JobShape
<1> QED BY <1>4 DEF j

LEMMA AnalyzedMade ==
  ASSUME NEW i, NEW next, JobShape(i)
  PROVE  /\ JobShape(Analyzed(i, next))
         /\ Analyzed(i, next).pc = "publish"
         /\ Analyzed(i, next).op = i.op
         /\ Analyzed(i, next).expected = i.expected
         /\ Analyzed(i, next).ups = i.ups
         /\ Analyzed(i, next).rem = i.rem
         /\ Analyzed(i, next).next = next
<1> DEFINE j == Analyzed(i, next)
<1>1. i = [pc |-> i.pc, op |-> i.op, base |-> i.base, expected |-> i.expected, ups |-> i.ups,
           rem |-> i.rem, next |-> i.next, q |-> i.q, out |-> i.out]
  BY DEF JobShape
<1>2. j = [i EXCEPT !.pc = "publish", !.base = NoSnapshot, !.next = next]
  BY DEF Analyzed
<1> HIDE DEF j
<1>3. j = [pc |-> "publish", op |-> i.op, base |-> NoSnapshot, expected |-> i.expected, ups |-> i.ups,
           rem |-> i.rem, next |-> next, q |-> i.q, out |-> i.out]
  BY <1>1, <1>2
<1>4. JobShape(j) /\ j.pc = "publish" /\ j.op = i.op /\ j.expected = i.expected
     /\ j.ups = i.ups /\ j.rem = i.rem /\ j.next = next
  BY <1>3 DEF JobShape
<1> QED BY <1>4 DEF j

LEMMA AnsweredMade ==
  ASSUME NEW i, NEW out, JobShape(i)
  PROVE  /\ JobShape(Replied(i, out))
         /\ Replied(i, out).pc = "finish"
         /\ Replied(i, out).op = i.op
         /\ Replied(i, out).base = i.base
         /\ Replied(i, out).q = i.q
         /\ Replied(i, out).out = out
<1> DEFINE j == Replied(i, out)
<1>1. i = [pc |-> i.pc, op |-> i.op, base |-> i.base, expected |-> i.expected, ups |-> i.ups,
           rem |-> i.rem, next |-> i.next, q |-> i.q, out |-> i.out]
  BY DEF JobShape
<1>2. j = [i EXCEPT !.pc = "finish", !.out = out]
  BY DEF Replied
<1> HIDE DEF j
<1>3. j = [pc |-> "finish", op |-> i.op, base |-> i.base, expected |-> i.expected, ups |-> i.ups,
           rem |-> i.rem, next |-> i.next, q |-> i.q, out |-> out]
  BY <1>1, <1>2
<1>4. JobShape(j) /\ j.pc = "finish" /\ j.op = i.op /\ j.base = i.base /\ j.q = i.q /\ j.out = out
  BY <1>3 DEF JobShape
<1> QED BY <1>4 DEF j

-----------------------------------------------------------------------------
(* The actions. *)

LEMMA BeginUpdateKeeps ==
  ASSUME IndexInv, NEW c \in DOMAIN job, NEW ups, NEW rem, BeginUpdate(c, ups, rem)
  PROVE  IndexInv'
<1> DEFINE j == UpdateCall(current, current.gen, ups, rem)
<1>1. JobShape(j) /\ j.pc = "analyze" /\ j.op = "update" /\ j.base = current /\ j.expected = current.gen
  BY UpdateCallMade
<1>2. job' = [job EXCEPT ![c] = j] /\ UNCHANGED <<current, previous>>
  BY DEF BeginUpdate, Enter, UpdateCall
<1> HIDE DEF j
<1>3. JobOk(j, current, previous)
  BY <1>1 DEF JobOk, HoldsBase, IndexInv
<1> QED BY <1>2, <1>3, OneCallMoves

LEMMA AnalyzeKeeps ==
  ASSUME IndexInv, NEW c \in DOMAIN job, Analyze(c)
  PROVE  IndexInv'
<1> DEFINE b == job[c].base
           ups == job[c].ups
           rem == job[c].rem
           patch == Patch(b, ByRef(ups), rem)
           j == Analyzed(job[c], patch)
<1>1. /\ JobShape(job[c]) /\ HoldsBase(job[c], current)
      /\ job[c].op = "update" /\ job[c].expected = b.gen
  BY DEF Analyze, IndexInv, JobOk
<1>2. UNCHANGED <<current, previous>>
  BY DEF Analyze
<1>3. CASE UniqueRefs(ups) /\ \A e \in ups: e.ref \notin rem /\ Admissible(e)
  <2>1. job' = [job EXCEPT ![c] = j]
    BY <1>3 DEF Analyze, Analyzed
  <2>2. Sound(b) /\ Mapped(ByRef(ups)) /\ \A r \in DOMAIN ByRef(ups): r \notin rem
    <3>1. \A r \in DOMAIN ByRef(ups): \E e \in ups: e.ref = r
      <4>1. DOMAIN ByRef(ups) = {e.ref: e \in ups}
        BY ReferencesAreMapped
      <4> QED BY <4>1
    <3> QED BY <1>1, <1>3, <3>1, ReferencesAreMapped DEF HoldsBase
  <2>3. patch = Build(Edited(b.entries, ByRef(ups), rem), 0) /\ Mapped(Edited(b.entries, ByRef(ups), rem))
    BY <2>2, PatchIsRebuild
  <2>4. Sound(patch) /\ patch.entries = Edited(b.entries, ByRef(ups), rem)
    BY <2>3, BuiltIsSound, BuildMade
  <2> HIDE DEF patch
  <2>5. /\ JobShape(j) /\ j.pc = "publish" /\ j.op = "update" /\ j.expected = b.gen
        /\ j.ups = ups /\ j.rem = rem /\ j.next = patch
    BY <1>1, AnalyzedMade
  <2> HIDE DEF j
  <2>6. EditsCurrent(j, current)
    BY <1>1, <2>4, <2>5 DEF EditsCurrent, HoldsBase
  <2>7. JobOk(j, current, previous)
    BY <2>4, <2>5, <2>6 DEF JobOk
  <2> QED BY <1>2, <2>1, <2>7, OneCallMoves
<1>4. CASE ~(UniqueRefs(ups) /\ \A e \in ups: e.ref \notin rem /\ Admissible(e))
  <2>1. job' = [job EXCEPT ![c] = Idle]
    BY <1>4 DEF Analyze, Leave
  <2> QED BY <1>2, <2>1, OneCallMoves, ResultsAreOk
<1> QED BY <1>3, <1>4

LEMMA RebuildKeeps ==
  ASSUME IndexInv, NEW c \in DOMAIN job, NEW g, NEW ents, Rebuild(c, g, ents)
  PROVE  IndexInv'
<1> DEFINE made == Build(ByRef(ents), 0)
           j == RebuildCall(g, ents, made)
<1>1. Sound(made)
  BY ReferencesAreMapped, BuiltIsSound
<1>2. job' = [job EXCEPT ![c] = j] /\ UNCHANGED <<current, previous>>
  BY DEF Rebuild, Enter, RebuildCall
<1> HIDE DEF made
<1>3. JobShape(j) /\ j.pc = "publish" /\ j.op = "rebuild" /\ j.next = made
  BY RebuildCallMade
<1> HIDE DEF j
<1>4. JobOk(j, current, previous)
  BY <1>1, <1>3 DEF JobOk
<1> QED BY <1>2, <1>4, OneCallMoves

LEMMA RollbackKeeps ==
  ASSUME IndexInv, NEW c \in DOMAIN job, Rollback(c)
  PROVE  IndexInv'
<1> DEFINE j == RollbackCall(current.gen, previous)
<1>1. job' = [job EXCEPT ![c] = j] /\ UNCHANGED <<current, previous>>
  BY DEF Rollback, Enter, RollbackCall
<1>2. JobShape(j) /\ j.pc = "publish" /\ j.op = "rollback" /\ j.expected = current.gen /\ j.next = previous
  BY RollbackCallMade
<1> HIDE DEF j
<1>3. JobOk(j, current, previous)
  BY <1>2 DEF JobOk, RestoresPrevious, IndexInv
<1> QED BY <1>1, <1>3, OneCallMoves

LEMMA BeginReadKeeps ==
  ASSUME IndexInv, NEW c \in DOMAIN job, NEW op \in {"search", "lookup", "exact"}, NEW q,
         BeginRead(c, op, q)
  PROVE  IndexInv'
<1> DEFINE j == ReadCall(op, current, q)
<1>1. job' = [job EXCEPT ![c] = j] /\ UNCHANGED <<current, previous>>
  BY DEF BeginRead, Enter, ReadCall
<1>2. JobShape(j) /\ j.pc = "gather" /\ j.op = op /\ j.base = current
  BY ReadCallMade
<1> HIDE DEF j
<1>3. JobOk(j, current, previous)
  BY <1>2 DEF JobOk, HoldsBase, IndexInv
<1> QED BY <1>1, <1>3, OneCallMoves

LEMMA GatherKeeps ==
  ASSUME IndexInv, NEW c \in DOMAIN job, Gather(c)
  PROVE  IndexInv'
<1> DEFINE out == AnswerOf(job[c].base, job[c].op, job[c].q)
           j == Replied(job[c], out)
<1>1. JobShape(job[c]) /\ HoldsBase(job[c], current) /\ job[c].op \in {"search", "lookup", "exact"}
  BY DEF Gather, IndexInv, JobOk
<1>2. UNCHANGED <<current, previous>>
  BY DEF Gather
<1>3. CASE Asked(job[c].base, job[c].op, job[c].q) \subseteq readable
  <2>1. job' = [job EXCEPT ![c] = j]
    BY <1>3 DEF Gather, Replied
  <2>2. out = AnswerOf(job[c].base, job[c].op, job[c].q)
    OBVIOUS
  <2> HIDE DEF out
  <2>3. /\ JobShape(j) /\ j.pc = "finish" /\ j.op = job[c].op /\ j.base = job[c].base
        /\ j.q = job[c].q /\ j.out = out
    BY <1>1, AnsweredMade
  <2> HIDE DEF j
  <2>4. JobOk(j, current, previous)
    BY <1>1, <2>2, <2>3 DEF JobOk, HoldsBase
  <2> QED BY <1>2, <2>1, <2>4, OneCallMoves
<1>4. CASE ~(Asked(job[c].base, job[c].op, job[c].q) \subseteq readable)
  <2>1. job' = [job EXCEPT ![c] = Idle]
    BY <1>4 DEF Gather, Leave
  <2> QED BY <1>2, <2>1, OneCallMoves, ResultsAreOk
<1> QED BY <1>3, <1>4

LEMMA FinishKeeps ==
  ASSUME IndexInv, NEW c \in DOMAIN job, Finish(c)
  PROVE  IndexInv'
<1> DEFINE j == IF admitted /\ current.gen = job[c].base.gen THEN [Idle EXCEPT !.pc = "given"] ELSE Idle
<1>1. job' = [job EXCEPT ![c] = j] /\ UNCHANGED <<current, previous>>
  BY DEF Finish
<1>2. JobOk(j, current, previous)
  BY ResultsAreOk
<1> HIDE DEF j
<1> QED BY <1>1, <1>2, OneCallMoves

\* What a publication makes current.
LEMMA PublicationMade ==
  ASSUME IndexInv, NEW c \in DOMAIN job, Publish(c), current' # current
  PROVE  /\ job[c].pc = "publish" /\ job[c].expected = current.gen
         /\ previous' = current
         /\ current'.gen = current.gen + 1
         /\ current'.entries = job[c].next.entries
         /\ Sound(current')
         /\ current' = Build(current'.entries, current'.gen)
<1> DEFINE next == job[c].next
           g == job[c].expected + 1
<1>1. /\ job[c].pc = "publish" /\ job[c].expected = current.gen
      /\ previous' = current
      /\ current' = [next EXCEPT !.gen = g]
  BY DEF Publish
<1>2. Sound(next)
  BY <1>1 DEF IndexInv, JobOk
<1>3. current' = Build(next.entries, g)
  <2> HIDE DEF next, g
  <2> QED BY <1>1, <1>2, Renumbered
<1>4. Mapped(next.entries)
  BY <1>2 DEF Sound
<1> HIDE DEF next
<1>5. current'.entries = next.entries /\ current'.gen = g /\ Sound(Build(next.entries, g))
  BY <1>3, <1>4, BuildMade, BuiltIsSound
<1> QED BY <1>1, <1>3, <1>5 DEF next

LEMMA PublishKeeps ==
  ASSUME IndexInv, NEW c \in DOMAIN job, Publish(c)
  PROVE  IndexInv'
<1>1. job' = [job EXCEPT ![c] = Idle]
  BY DEF Publish, Leave
<1>2. CASE current' = current
  <2>1. previous' = previous \/ previous' = current
    BY DEF Publish
  <2>2. CASE previous' = previous
    BY <1>1, <1>2, <2>2, OneCallMoves, ResultsAreOk
  <2>3. CASE previous' # previous
    <3>1. current' = [job[c].next EXCEPT !.gen = job[c].expected + 1] /\ job[c].expected = current.gen
      BY <2>3 DEF Publish
    <3>2. Sound(job[c].next) /\ current.gen \in Nat
      BY DEF IndexInv, JobOk, Publish
    <3>3. current'.gen = current.gen + 1
      <4> DEFINE next == job[c].next
                 g == current.gen + 1
      <4>1. Sound(next) /\ current' = [next EXCEPT !.gen = g]
        BY <3>1, <3>2
      <4> HIDE DEF next, g
      <4>2. current'.gen = g
        BY <4>1, Renumbered, BuildMade
      <4> QED BY <4>2 DEF g
    <3> QED BY <1>2, <3>2, <3>3
  <2> QED BY <2>2, <2>3
<1>3. CASE current' # current
  <2>1. /\ previous' = current /\ current'.gen = current.gen + 1 /\ Sound(current')
        /\ current.gen \in Nat /\ Sound(current)
    BY <1>3, PublicationMade DEF IndexInv
  <2>2. /\ DOMAIN job' = DOMAIN job
        /\ job' = [d \in DOMAIN job' |-> job'[d]]
        /\ \A d \in DOMAIN job: job'[d] = IF d = c THEN Idle ELSE job[d]
    BY <1>1 DEF IndexInv
  <2>3. ASSUME NEW d \in DOMAIN job' PROVE JobOk(job'[d], current', previous')
    <3>1. CASE d = c
      BY <2>2, <3>1, ResultsAreOk
    <3>2. CASE d # c
      <4>1. job'[d] = job[d] /\ JobOk(job[d], current, previous)
        BY <2>2, <3>2 DEF IndexInv
      <4>2. \A g \in Nat: g <= current.gen => g <= current'.gen /\ g # current'.gen
        BY <2>1
      <4>3. HoldsBase(job[d], current) => HoldsBase(job[d], current')
        BY <4>2 DEF HoldsBase
      <4>4. EditsCurrent(job[d], current) => EditsCurrent(job[d], current')
        BY <4>2 DEF EditsCurrent
      <4>5. RestoresPrevious(job[d], current, previous) => RestoresPrevious(job[d], current', previous')
        BY <4>2 DEF RestoresPrevious
      <4> QED BY <4>1, <4>3, <4>4, <4>5 DEF JobOk
    <3> QED BY <3>1, <3>2
  <2>4. current'.gen \in Nat
    BY <2>1
  <2> QED BY <2>1, <2>2, <2>3, <2>4 DEF IndexInv
<1> QED BY <1>2, <1>3

-----------------------------------------------------------------------------
(* The invariant holds. *)

LEMMA IndexStarts == IndexInit => IndexInv
<1> SUFFICES ASSUME IndexInit PROVE IndexInv
  OBVIOUS
<1>1. PICK S \in Contents: current = Build(ByRef(S), 1)
  BY DEF IndexInit
<1>2. Sound(current) /\ current.gen = 1
  <2> DEFINE f == ByRef(S)
  <2>1. Mapped(f) /\ current = Build(f, 1)
    BY <1>1, ReferencesAreMapped
  <2> HIDE DEF f
  <2> QED BY <2>1, BuiltIsSound, BuildMade
<1>3. Sound(previous)
  BY NothingIsSound DEF IndexInit
<1>4. PICK cast \in Casts: job = [c \in cast |-> Idle]
  BY DEF IndexInit
<1>5. job = [c \in DOMAIN job |-> job[c]] /\ \A c \in DOMAIN job: job[c] = Idle
  BY <1>4
<1> QED BY <1>2, <1>3, <1>5, ResultsAreOk DEF IndexInv

LEMMA IndexSteps == IndexInv /\ [IndexNext]_indexVars => IndexInv'
<1> SUFFICES ASSUME IndexInv, [IndexNext]_indexVars PROVE IndexInv'
  OBVIOUS
<1>1. ASSUME NEW c \in DOMAIN job, NEW d \in Edits, BeginUpdate(c, d.ups, d.rem) PROVE IndexInv'
  BY <1>1, BeginUpdateKeeps
<1>2. ASSUME NEW c \in DOMAIN job, NEW g, NEW S \in Contents, Rebuild(c, g, S) PROVE IndexInv'
  BY <1>2, RebuildKeeps
<1>3. ASSUME NEW c \in DOMAIN job, Analyze(c) \/ Rollback(c) \/ Publish(c) PROVE IndexInv'
  BY <1>3, AnalyzeKeeps, RollbackKeeps, PublishKeeps
<1>4. ASSUME NEW c \in DOMAIN job, NEW op \in {"search", "lookup", "exact"}, NEW q, BeginRead(c, op, q)
      PROVE  IndexInv'
  BY <1>4, BeginReadKeeps
<1>5. ASSUME NEW c \in DOMAIN job, Gather(c) \/ Finish(c) PROVE IndexInv'
  BY <1>5, GatherKeeps, FinishKeeps
<1>6. CASE UNCHANGED <<current, previous, job>>
  BY <1>6 DEF IndexInv
<1>7. ASSUME NEW r, Withdraw(r) PROVE IndexInv'
  BY <1>6, <1>7 DEF Withdraw
<1>8. CASE CloseGate
  BY <1>6, <1>8 DEF CloseGate
<1> QED BY <1>1, <1>2, <1>3, <1>4, <1>5, <1>6, <1>7, <1>8
       DEF IndexNext, ActiveWriters, ActiveReaders, indexVars

\* The inductive invariant: whatever withdraws, closes or overtakes it, a
\* call carries the snapshot it began with, and what it has prepared is what
\* that snapshot gives (begin, Update, Rebuild, Rollback, publish, finish).
THEOREM IndexStaysSound == IndexSpec => []IndexInv
<1> QED BY IndexStarts, IndexSteps, PTL DEF IndexSpec

-----------------------------------------------------------------------------
(* Publications. *)

\* The body of PublishesAreSerial.
LEMMA PublicationIsSerial ==
  ASSUME IndexInv, [IndexNext]_indexVars, current' # current
  PROVE  /\ current'.gen = current.gen + 1
         /\ previous' = current
         /\ current' = Build(current'.entries, current'.gen)
         /\ \E c \in ActiveWriters:
              LET j == job[c]
                  changed == ByRef(j.ups)
              IN /\ j.pc = "publish" /\ job'[c] = Idle
                 /\ j.op = "update" =>
                      current'.entries =
                        [r \in (DOMAIN current.entries \cup DOMAIN changed) \ j.rem |->
                           IF r \in DOMAIN changed THEN changed[r] ELSE current.entries[r]]
                 /\ j.op = "rollback" => current'.entries = previous.entries
<1>1. PICK c \in ActiveWriters: Publish(c)
  BY DEF IndexNext, indexVars, BeginUpdate, Rebuild, Analyze, Rollback, BeginRead, Gather, Finish,
         Withdraw, CloseGate, Enter
<1>2. c \in DOMAIN job
  BY DEF ActiveWriters
<1>3. /\ job[c].pc = "publish" /\ job[c].expected = current.gen
      /\ previous' = current
      /\ current'.gen = current.gen + 1
      /\ current'.entries = job[c].next.entries
      /\ current' = Build(current'.entries, current'.gen)
  BY <1>1, <1>2, PublicationMade
<1>4. job'[c] = Idle
  BY <1>1, <1>2 DEF Publish, Leave
<1>5. /\ job[c].op = "update" => EditsCurrent(job[c], current)
      /\ job[c].op = "rollback" => RestoresPrevious(job[c], current, previous)
  BY <1>2, <1>3 DEF IndexInv, JobOk
<1>6. job[c].op = "update" =>
        current'.entries = Edited(current.entries, ByRef(job[c].ups), job[c].rem)
  BY <1>3, <1>5 DEF EditsCurrent
<1>7. job[c].op = "rollback" => current'.entries = previous.entries
  BY <1>3, <1>5 DEF RestoresPrevious
<1> QED BY <1>3, <1>4, <1>6, <1>7 DEF Edited

\* Every publication replaces the snapshot it was prepared against, and what
\* it makes current is what a full rebuild of the same entries makes, however
\* updates, rebuilds and rollbacks overtake one another (scoped_index.go
\* Update, Rebuild, Rollback, publish).
THEOREM PublishesStaySerial == IndexSpec => PublishesAreSerial
<1>1. IndexInv /\ [IndexNext]_indexVars =>
        [current' # current =>
           /\ current'.gen = current.gen + 1
           /\ previous' = current
           /\ current' = Build(current'.entries, current'.gen)
           /\ \E c \in ActiveWriters:
                LET j == job[c]
                    changed == ByRef(j.ups)
                IN /\ j.pc = "publish" /\ job'[c] = Idle
                   /\ j.op = "update" =>
                        current'.entries =
                          [r \in (DOMAIN current.entries \cup DOMAIN changed) \ j.rem |->
                             IF r \in DOMAIN changed THEN changed[r] ELSE current.entries[r]]
                   /\ j.op = "rollback" => current'.entries = previous.entries]_indexVars
  BY PublicationIsSerial
<1> QED BY <1>1, IndexStaysSound, PTL DEF IndexSpec, PublishesAreSerial

-----------------------------------------------------------------------------
(* Answers. *)

\* What a scan of a snapshot's entries finds for a search.
Hits(s, q) ==
  {e \in EntriesOf(s.entries): EntryTerms(e) \cap q.terms # {} /\ MatchesFilters(e, q.kinds, q.tags)}

\* The postings lead a search to the entries a scan of them all finds.
LEMMA PostingsFindHits ==
  ASSUME NEW s, NEW q, Sound(s)
  PROVE  {e \in {s.entries[r]: r \in SearchRefs(s, q)}: MatchesFilters(e, q.kinds, q.tags)} = Hits(s, q)
<1> DEFINE S == EntriesOf(s.entries)
           found == {e \in {s.entries[r]: r \in SearchRefs(s, q)}: MatchesFilters(e, q.kinds, q.tags)}
<1>1. s.postings = Postings(S) /\ \A r \in DOMAIN s.entries: s.entries[r].ref = r
  BY BuildMade DEF Sound, Mapped
<1>2. \A e \in S: e.ref \in DOMAIN s.entries /\ s.entries[e.ref] = e
  BY <1>1 DEF EntriesOf
<1>3. \A t: At(s.postings, t) = {e.ref: e \in {x \in S: t \in EntryTerms(x)}}
  BY <1>1, PostingsAt
<1>4. ASSUME NEW e, e \in found PROVE e \in Hits(s, q)
  <2>1. PICK r \in SearchRefs(s, q): e = s.entries[r]
    BY <1>4
  <2>2. PICK t \in q.terms: r \in At(s.postings, t)
    BY <2>1 DEF SearchRefs
  <2>3. PICK x \in S: t \in EntryTerms(x) /\ r = x.ref
    BY <1>3, <2>2
  <2>4. x = e
    BY <1>2, <2>1, <2>3
  <2> QED BY <1>4, <2>2, <2>3, <2>4 DEF Hits
<1>5. ASSUME NEW e, e \in Hits(s, q) PROVE e \in found
  <2>1. e \in S /\ MatchesFilters(e, q.kinds, q.tags)
    BY <1>5 DEF Hits
  <2>2. PICK t \in q.terms: t \in EntryTerms(e)
    BY <1>5 DEF Hits
  <2>3. e.ref \in At(s.postings, t)
    BY <1>3, <2>1, <2>2
  <2>4. e.ref \in SearchRefs(s, q)
    BY <2>2, <2>3 DEF SearchRefs
  <2> QED BY <1>2, <2>1, <2>4
<1> QED BY <1>4, <1>5

\* The items a scan of the entries gives.
IsScan(items, s, op, q) ==
  /\ op = "search" => items = SubSeq(Ranked(Hits(s, q), q.terms), 1,
                                     Min({q.limit, Len(Ranked(Hits(s, q), q.terms))}))
  /\ op = "lookup" => items = UNION {RowsFor(e, q): e \in EntriesOf(s.entries)}
  /\ op = "exact" => items = {e \in EntriesOf(s.entries): e.ref = q}

LEMMA AnswersAreScans ==
  ASSUME NEW s, NEW op \in {"search", "lookup", "exact"}, NEW q, Sound(s),
         AnswerOf(s, op, q).status = "complete"
  PROVE  IsScan(AnswerOf(s, op, q).items, s, op, q)
<1>1. Incomplete.status # "complete" /\ \A x: Complete(x).items = x
  BY DEF Incomplete, Complete
<1>2. CASE op = "search"
  <2> DEFINE found == {e \in {s.entries[r]: r \in SearchRefs(s, q)}: MatchesFilters(e, q.kinds, q.tags)}
             cands(F) == SubSeq(Ranked(F, q.terms), 1, Min({q.limit, Len(Ranked(F, q.terms))}))
  <2>1. found = Hits(s, q)
    BY PostingsFindHits
  <2>2. AnswerOf(s, op, q) = SearchAnswer(s, q)
    BY <1>2 DEF AnswerOf
  <2>3. SearchAnswer(s, q) = Incomplete \/ SearchAnswer(s, q) = Complete(cands(found))
    BY DEF SearchAnswer
  <2> HIDE DEF found, cands
  <2>4. AnswerOf(s, op, q).items = cands(Hits(s, q))
    BY <1>1, <2>1, <2>2, <2>3
  <2> QED BY <1>2, <2>4 DEF cands, IsScan
<1>3. CASE op = "lookup"
  <2>1. At(s.bindings, q) = UNION {RowsFor(e, q): e \in EntriesOf(s.entries)}
    BY BuildMade, BucketsAt DEF Sound
  <2>2. AnswerOf(s, op, q) = LookupAnswer(s, q)
    BY <1>3 DEF AnswerOf
  <2>3. LookupAnswer(s, q) = Incomplete \/ LookupAnswer(s, q) = Complete(At(s.bindings, q))
    BY DEF LookupAnswer
  <2> QED BY <1>1, <1>3, <2>1, <2>2, <2>3 DEF IsScan
<1>4. CASE op = "exact"
  <2>1. AnswerOf(s, op, q) = ExactAnswer(s, q)
    BY <1>4 DEF AnswerOf
  <2>2. \A r \in DOMAIN s.entries: s.entries[r].ref = r
    BY DEF Sound, Mapped
  <2>3. (IF q \in DOMAIN s.entries THEN {s.entries[q]} ELSE {}) = {e \in EntriesOf(s.entries): e.ref = q}
    BY <2>2 DEF EntriesOf
  <2> QED BY <1>1, <1>4, <2>1, <2>3 DEF ExactAnswer, IsScan
<1> QED BY <1>2, <1>3, <1>4

\* An answer is given by Finish, while its snapshot is the current one.
LEMMA AnswerIsCurrent ==
  ASSUME IndexInv, [IndexNext]_indexVars, NEW c \in ActiveReaders,
         job[c].pc = "finish", job'[c].pc = "given"
  PROVE  /\ admitted
         /\ job[c].base = current
         /\ job[c].op \in {"search", "lookup", "exact"}
         /\ job[c].out = AnswerOf(current, job[c].op, job[c].q)
<1>1. /\ c \in DOMAIN job
      /\ \A d \in DOMAIN job: \A j: job' = [job EXCEPT ![d] = j] => job'[c] = IF d = c THEN j ELSE job[c]
  BY DEF IndexInv, ActiveReaders
<1>2. Idle.pc = "idle"
  BY DEF Idle
<1>3. ASSUME NEW d \in DOMAIN job, NEW j, Enter(d, j) PROVE FALSE
  <2>1. job[d].pc = "idle" /\ job' = [job EXCEPT ![d] = j]
    BY <1>3 DEF Enter
  <2> QED BY <1>1, <2>1
<1>4. ASSUME NEW d \in DOMAIN job, Analyze(d) \/ Gather(d) \/ Publish(d) PROVE FALSE
  <2>1. d # c /\ \E j: job' = [job EXCEPT ![d] = j]
    BY <1>4 DEF Analyze, Gather, Publish, Leave
  <2> QED BY <1>1, <2>1
<1>5. job' # job
  OBVIOUS
<1>6. PICK d \in DOMAIN job: Finish(d)
  BY <1>3, <1>4, <1>5
     DEF IndexNext, indexVars, ActiveWriters, ActiveReaders, BeginUpdate, Rebuild, Rollback, BeginRead,
         Withdraw, CloseGate
<1>7. d = c /\ admitted /\ current.gen = job[c].base.gen
  <2>1. job' = [job EXCEPT ![d] = IF admitted /\ current.gen = job[d].base.gen
                                  THEN [Idle EXCEPT !.pc = "given"] ELSE Idle]
    BY <1>6 DEF Finish
  <2> QED BY <1>1, <1>2, <2>1
<1> QED BY <1>1, <1>7 DEF IndexInv, JobOk, HoldsBase

\* An answer is given while the gate accepts the scope, and says what a scan
\* of all the entries that are current at that moment says (scoped_index.go
\* Search, Lookup, Exact, finish).
THEOREM AnswersStayCurrent == IndexSpec => AnswersAreCurrent
<1>1. IndexInv /\ [IndexNext]_indexVars =>
        [\A c \in ActiveReaders: job[c].pc = "finish" /\ job'[c].pc = "given" =>
           LET S == {current.entries[r]: r \in DOMAIN current.entries}
               out == job[c].out
               q == job[c].q
               hits == {e \in S: EntryTerms(e) \cap q.terms # {} /\ MatchesFilters(e, q.kinds, q.tags)}
           IN /\ admitted
              /\ out.status = "complete" =>
                   CASE job[c].op = "search" ->
                          out.items = SubSeq(Ranked(hits, q.terms), 1, Min({q.limit, Len(Ranked(hits, q.terms))}))
                     [] job[c].op = "lookup" -> out.items = UNION {RowsFor(e, q): e \in S}
                     [] job[c].op = "exact" -> out.items = {e \in S: e.ref = q}]_indexVars
  <2> SUFFICES ASSUME IndexInv, [IndexNext]_indexVars, NEW c \in ActiveReaders,
                      job[c].pc = "finish", job'[c].pc = "given"
               PROVE  LET S == EntriesOf(current.entries)
                          out == job[c].out
                          q == job[c].q
                      IN /\ admitted
                         /\ out.status = "complete" =>
                              CASE job[c].op = "search" ->
                                     out.items = SubSeq(Ranked(Hits(current, q), q.terms), 1,
                                                        Min({q.limit, Len(Ranked(Hits(current, q), q.terms))}))
                                [] job[c].op = "lookup" -> out.items = UNION {RowsFor(e, q): e \in S}
                                [] job[c].op = "exact" -> out.items = {e \in S: e.ref = q}
    BY DEF EntriesOf, Hits
  <2> DEFINE op == job[c].op
             out == job[c].out
             q == job[c].q
  <2>1. admitted /\ op \in {"search", "lookup", "exact"} /\ out = AnswerOf(current, op, q) /\ Sound(current)
    BY AnswerIsCurrent DEF IndexInv
  <2>2. ASSUME out.status = "complete" PROVE IsScan(out.items, current, op, q)
    <3> HIDE DEF op, q, out
    <3>1. IsScan(AnswerOf(current, op, q).items, current, op, q)
      BY <2>1, <2>2, AnswersAreScans
    <3> QED BY <2>1, <3>1
  <2> QED BY <2>1, <2>2 DEF IsScan
<1> QED BY <1>1, IndexStaysSound, PTL DEF IndexSpec, AnswersAreCurrent

-----------------------------------------------------------------------------
(* The world: what is lost is lost for good. *)

States == {"published", "deprecated", "revoked", "absent"}

WorldTyped ==
  /\ state \in [Artifacts -> States] /\ member \in BOOLEAN
  /\ conn \in [gen: Nat, ready: BOOLEAN] /\ task \in [gen: Nat, ok: BOOLEAN]
  /\ now \in Nat

\* Only the rival may still be published; any other artifact that is not
\* live, and every revoked one, never is again.
Lost(a) == ~Alive(a) /\ (a = "rival" => state[a] = "revoked")
RivalKnown(b) == b = "rival" => state["rival"] # "absent"

LEMMA LostForGood ==
  ASSUME WorldTyped, [WorldNext]_worldVars
  PROVE  /\ WorldTyped'
         /\ \A a \in Artifacts: Lost(a) => Lost(a)'
         /\ \A b \in Bindings: RivalKnown(b) => RivalKnown(b)'
         /\ ~member => ~member'
         /\ conn.gen <= conn'.gen /\ (conn'.gen = conn.gen => conn' = conn)
         /\ task.gen <= task'.gen /\ (task'.gen = task.gen => task' = task)
         /\ now <= now'
<1>1. CASE UNCHANGED worldVars
  BY <1>1 DEF worldVars, WorldTyped, Lost, Alive, RivalKnown
<1>2. ASSUME NEW a \in Artifacts, Revoke(a) PROVE
         /\ WorldTyped' /\ UNCHANGED <<member, conn, task, now>>
         /\ \A b \in Artifacts: Lost(b) => Lost(b)'
         /\ \A b \in Bindings: RivalKnown(b) => RivalKnown(b)'
  BY <1>2 DEF Revoke, WorldTyped, States, Lost, Alive, RivalKnown, Artifacts, Bindings
<1>3. CASE PublishRival
  <2>1. /\ WorldTyped' /\ UNCHANGED <<member, conn, task, now>>
        /\ \A b \in Artifacts: Lost(b) => Lost(b)'
        /\ \A b \in Bindings: RivalKnown(b) => RivalKnown(b)'
    BY <1>3 DEF PublishRival, WorldTyped, States, Lost, Alive, RivalKnown, Artifacts, Bindings
  <2> QED BY <2>1 DEF WorldTyped
<1>4. CASE Offboard
  <2>1. member' = FALSE /\ UNCHANGED <<state, conn, task, now>>
    BY <1>4 DEF Offboard
  <2>2. WorldTyped'
    BY <2>1 DEF WorldTyped
  <2>3. /\ \A a \in Artifacts: Lost(a) => Lost(a)'
        /\ \A b \in Bindings: RivalKnown(b) => RivalKnown(b)'
    BY <2>1 DEF Lost, Alive, RivalKnown
  <2>4. conn.gen <= conn'.gen /\ task.gen <= task'.gen /\ now <= now'
    BY <2>1 DEF WorldTyped
  <2> QED BY <2>1, <2>2, <2>3, <2>4
<1>5. CASE ChangeConnection
  BY <1>5 DEF ChangeConnection, WorldTyped, Lost, Alive, RivalKnown
<1>6. CASE ChangeAdmission
  BY <1>6 DEF ChangeAdmission, WorldTyped, Lost, Alive, RivalKnown
<1>7. CASE Tick
  BY <1>7 DEF Tick, WorldTyped, Lost, Alive, RivalKnown
<1>8. ASSUME NEW a \in Artifacts, Revoke(a) PROVE
         /\ conn.gen <= conn'.gen /\ (conn'.gen = conn.gen => conn' = conn)
         /\ task.gen <= task'.gen /\ (task'.gen = task.gen => task' = task)
         /\ now <= now' /\ (~member => ~member')
  BY <1>2, <1>8 DEF WorldTyped
<1> QED BY <1>1, <1>2, <1>3, <1>4, <1>5, <1>6, <1>7, <1>8 DEF WorldNext

\* What was alive and has been seen is either alive still or lost.
LEMMA AliveOrLost ==
  ASSUME WorldTyped, NEW a \in Artifacts, RivalKnown(a)
  PROVE  Alive(a) \/ Lost(a)
BY DEF WorldTyped, States, Alive, Lost, RivalKnown

-----------------------------------------------------------------------------
(* A resolution: what it finds is pinned, and what it would have to find    *)
(* again it cannot, once something of it is lost.                          *)

Pins(b) == <<"cap", b, "tool", "prov">>
Pinnable(closure) == \E b \in Bindings: RivalKnown(b) /\ closure \in {<<>>, Pins(b)}

ResInv ==
  /\ {"pc", "owned", "binding", "out"} \subseteq DOMAIN res
  /\ res.binding \in Bindings /\ RivalKnown(res.binding)
  /\ res.pc \in {"persist", "resolved"} => res.out.finding.closure \in {<<>>, Pins(res.binding)}
  /\ res.pc = "resolved" => \E p \in pinned: p.out = res.out

\* Whether a closure names an artifact.
Names(closure, a) ==
  \/ closure # <<>> /\ a \in {"cap", "tool", "prov"}
  \/ \E b \in Bindings: a = b /\ closure = Pins(b)

\* What a resolution has still to read at each of its steps.
Unread(pc) ==
  IF pc = "skill" THEN {"skill", "cap", "bind", "rival", "tool", "prov"}
  ELSE IF pc = "capability" THEN {"cap", "bind", "rival", "tool", "prov"}
  ELSE IF pc \in {"search", "binding"} THEN {"bind", "rival", "tool", "prov"}
  ELSE IF pc = "tool" THEN {"tool", "prov"}
  ELSE IF pc = "provider" THEN {"prov"} ELSE {}

\* The resolution in progress cannot end in the finding f.
Misses(f) ==
  \/ res.pc \in {"rest", "failed"}
  \/ res.pc = "skill" /\ ~member
  \/ \E a \in Unread(res.pc): (a = "skill" \/ Names(f.closure, a)) /\ Lost(a)
  \/ res.pc \in {"tool", "provider"} /\ f.closure \notin {<<>>, Pins(res.binding)}
  \/ res.pc \in {"persist", "resolved"} /\ res.out.finding # f

LEMMA PinsDiffer ==
  /\ \A b \in Bindings: Pins(b) # <<>>
  /\ \A b, c \in Bindings: Pins(b) = Pins(c) => b = c
BY DEF Pins, Bindings

LEMMA FindingPins ==
  ASSUME NEW status, NEW b
  PROVE  /\ Finding(status, b).closure \in {<<>>, Pins(b)}
         /\ status \in {"incomplete", "requires_selection"} => Finding(status, b).closure = <<>>
BY DEF Finding, Pinned, Pins

LEMMA ConcludeFacts ==
  ASSUME ResInv, NEW status, NEW b \in {res.binding, "bind"}, Conclude(Finding(status, b)),
         b = res.binding \/ status \in {"incomplete", "requires_selection"}, UNCHANGED state, UNCHANGED pinned
  PROVE  /\ ResInv' /\ res'.pc = "persist" /\ res'.out.finding = Finding(status, b)
<1>1. /\ res' = [res EXCEPT !.pc = "persist", !.out = [status |-> Aggregate(Finding(status, b)),
                                                     finding |-> Finding(status, b)]]
  BY DEF Conclude
<1> DEFINE f == Finding(status, b)
<1>2. f.closure \in {<<>>, Pins(res.binding)}
  BY FindingPins
<1> HIDE DEF f
<1>3. /\ res'.pc = "persist" /\ res'.out.finding = f /\ res'.binding = res.binding
      /\ {"pc", "owned", "binding", "out"} \subseteq DOMAIN res'
  BY <1>1 DEF ResInv, f
<1>4. ResInv'
  BY <1>2, <1>3 DEF ResInv, RivalKnown
<1> QED BY <1>3, <1>4 DEF f

\* A failed resolution, and a step to the next read.
LEMMA RaiseFacts ==
  ASSUME ResInv, Raise, UNCHANGED state
  PROVE  ResInv' /\ res'.pc = "failed"
<1>1. res' = [pc |-> "failed", owned |-> FALSE, binding |-> "bind", out |-> NoResult]
  BY DEF Raise, Resting
<1> QED BY <1>1 DEF ResInv, RivalKnown, Bindings

LEMMA ReadFacts ==
  ASSUME ResInv, NEW pc, NextRead(pc), pc \notin {"persist", "resolved"}, UNCHANGED state
  PROVE  ResInv' /\ res'.pc = pc /\ res'.binding = res.binding
BY DEF ResInv, NextRead, RivalKnown

\* One step of the resolution: it keeps the invariant, and misses the finding
\* if it was to miss it.
LEMMA ReadSkillFacts ==
  ASSUME WorldTyped, ResInv, ReadSkill, UNCHANGED <<worldVars, pinned>>, NEW f, Pinnable(f.closure)
  PROVE  ResInv' /\ (Misses(f) => Misses(f)')
<1>1. UNCHANGED <<state, member>>
  BY DEF worldVars
<1>2. CASE Readable("skill")
  <2>1. NextRead("capability") /\ res.pc = "skill"
    BY <1>2 DEF ReadSkill
  <2>2. ResInv' /\ res'.pc = "capability"
    BY <1>1, <2>1, ReadFacts
  <2>3. member /\ Alive("skill")
    BY <1>2 DEF Readable
  <2>4. Misses(f) => \E a \in {"cap", "bind", "rival", "tool", "prov"}: Names(f.closure, a) /\ Lost(a)
    BY <2>1, <2>3 DEF Misses, Unread, Lost
  <2>5. (\E a \in {"cap", "bind", "rival", "tool", "prov"}: Names(f.closure, a) /\ Lost(a)) => Misses(f)'
    BY <1>1, <2>2 DEF Misses, Unread, Lost, Alive
  <2> QED BY <2>2, <2>4, <2>5
<1>3. CASE ~Readable("skill")
  <2>1. ResInv' /\ res'.pc = "failed"
    BY <1>1, <1>3, RaiseFacts DEF ReadSkill
  <2> QED BY <2>1 DEF Misses
<1> QED BY <1>2, <1>3

LEMMA ConcludeMisses ==
  ASSUME ResInv, NEW status, status \in {"incomplete", "requires_selection"}, NEW b \in {res.binding, "bind"},
         Conclude(Finding(status, b)), UNCHANGED <<state, pinned>>,
         NEW f, Pinnable(f.closure), Misses(f), res.pc \in {"capability", "search", "binding"}
  PROVE  Misses(f)'
<1>1. res'.pc = "persist" /\ res'.out.finding = Finding(status, b)
  BY ConcludeFacts
<1>2. Finding(status, b).closure = <<>>
  BY FindingPins
<1>3. PICK a \in Unread(res.pc): (a = "skill" \/ Names(f.closure, a))
  BY DEF Misses
<1>4. a # "skill"
  BY <1>3 DEF Unread
<1>5. f.closure # <<>>
  BY <1>3, <1>4, PinsDiffer DEF Names
<1> QED BY <1>1, <1>2, <1>5 DEF Misses

LEMMA ReadCapabilityFacts ==
  ASSUME WorldTyped, ResInv, ReadCapability, UNCHANGED <<worldVars, pinned>>, NEW f, Pinnable(f.closure)
  PROVE  ResInv' /\ (Misses(f) => Misses(f)')
<1>1. UNCHANGED <<state, member>> /\ res.pc = "capability"
  BY DEF worldVars, ReadCapability
<1>2. CASE Readable("cap")
  <2>1. NextRead("search")
    BY <1>2 DEF ReadCapability
  <2>2. ResInv' /\ res'.pc = "search"
    BY <1>1, <2>1, ReadFacts
  <2>3. Alive("cap")
    BY <1>2 DEF Readable
  <2>4. Misses(f) => \E a \in {"bind", "rival", "tool", "prov"}: Names(f.closure, a) /\ Lost(a)
    BY <1>1, <2>3 DEF Misses, Unread, Lost
  <2>5. (\E a \in {"bind", "rival", "tool", "prov"}: Names(f.closure, a) /\ Lost(a)) => Misses(f)'
    BY <1>1, <2>2 DEF Misses, Unread, Lost, Alive
  <2> QED BY <2>2, <2>4, <2>5
<1>3. CASE Raise
  <2>1. ResInv' /\ res'.pc = "failed"
    BY <1>1, <1>3, RaiseFacts
  <2> QED BY <2>1 DEF Misses
<1>4. CASE Conclude(Finding("incomplete", "bind"))
  <2>1. ResInv'
    BY <1>1, <1>4, ConcludeFacts
  <2>2. Misses(f) => Misses(f)'
    BY <1>1, <1>4, ConcludeMisses
  <2> QED BY <2>1, <2>2
<1> QED BY <1>2, <1>3, <1>4 DEF ReadCapability

LEMMA SearchBindingsFacts ==
  ASSUME WorldTyped, ResInv, SearchBindings, UNCHANGED <<worldVars, pinned>>, NEW f, Pinnable(f.closure)
  PROVE  ResInv' /\ (Misses(f) => Misses(f)')
<1> DEFINE matches == {b \in Bindings: Alive(b)}
           pick == CHOOSE b \in matches: TRUE
<1>1. UNCHANGED <<state, member>> /\ res.pc = "search"
  BY DEF worldVars, SearchBindings
<1>2. ASSUME NEW status \in {"incomplete", "requires_selection"}, Conclude(Finding(status, "bind"))
      PROVE  ResInv' /\ (Misses(f) => Misses(f)')
  <2>1. ResInv'
    BY <1>1, <1>2, ConcludeFacts
  <2>2. Misses(f) => Misses(f)'
    BY <1>1, <1>2, ConcludeMisses
  <2> QED BY <2>1, <2>2
<1>3. ASSUME matches # {}, res' = [res EXCEPT !.pc = "binding", !.binding = pick]
      PROVE  ResInv' /\ (Misses(f) => Misses(f)')
  <2>1. pick \in Bindings /\ Alive(pick)
    BY <1>3
  <2> HIDE DEF pick
  <2>2. RivalKnown(pick)
    BY <2>1 DEF RivalKnown, Alive
  <2>3. res'.pc = "binding" /\ res'.binding = pick /\ {"pc", "owned", "binding", "out"} \subseteq DOMAIN res'
    BY <1>3 DEF ResInv
  <2>4. ResInv'
    BY <1>1, <2>1, <2>2, <2>3 DEF ResInv, RivalKnown
  <2>5. Misses(f) => \E a \in {"bind", "rival", "tool", "prov"}: Names(f.closure, a) /\ Lost(a)
    BY <1>1 DEF Misses, Unread
  <2>6. (\E a \in {"bind", "rival", "tool", "prov"}: Names(f.closure, a) /\ Lost(a)) => Misses(f)'
    BY <1>1, <2>3 DEF Misses, Unread, Lost, Alive
  <2> QED BY <2>4, <2>5, <2>6
<1>4. \/ Conclude(Finding("incomplete", "bind"))
      \/ Conclude(Finding("requires_selection", "bind"))
      \/ matches # {} /\ res' = [res EXCEPT !.pc = "binding", !.binding = pick]
  BY DEF SearchBindings
<1> QED BY <1>2, <1>3, <1>4

LEMMA ReadBindingFacts ==
  ASSUME WorldTyped, ResInv, ReadBinding, UNCHANGED <<worldVars, pinned>>, NEW f, Pinnable(f.closure)
  PROVE  ResInv' /\ (Misses(f) => Misses(f)')
<1>1. UNCHANGED <<state, member>> /\ res.pc = "binding"
  BY DEF worldVars, ReadBinding
<1>2. ASSUME Readable(res.binding), NextRead("tool") PROVE ResInv' /\ (Misses(f) => Misses(f)')
  <2>1. ResInv' /\ res'.pc = "tool" /\ res'.binding = res.binding
    BY <1>1, <1>2, ReadFacts
  <2>2. Alive(res.binding) /\ res.binding \in Bindings
    BY <1>2 DEF Readable, ResInv
  <2>3. ASSUME Misses(f) PROVE Misses(f)'
    <3>1. PICK a \in {"bind", "rival", "tool", "prov"}: Names(f.closure, a) /\ Lost(a)
      BY <1>1, <2>3 DEF Misses, Unread
    <3>2. CASE a \in {"tool", "prov"}
      <4>1. a \in Unread("tool") /\ Lost(a)'
        BY <1>1, <3>1, <3>2 DEF Unread, Lost, Alive
      <4> QED BY <2>1, <3>1, <4>1 DEF Misses
    <3>3. CASE a \in Bindings
      <4>1. f.closure = Pins(a)
        BY <3>1, <3>3 DEF Names, Bindings
      <4>2. a # res.binding
        BY <2>2, <3>1 DEF Lost
      <4>3. f.closure \notin {<<>>, Pins(res.binding)}
        BY <2>2, <3>3, <4>1, <4>2, PinsDiffer
      <4> QED BY <2>1, <4>3 DEF Misses
    <3> QED BY <3>2, <3>3 DEF Bindings
  <2> QED BY <2>1, <2>3
<1>3. CASE Raise
  <2>1. ResInv' /\ res'.pc = "failed"
    BY <1>1, <1>3, RaiseFacts
  <2> QED BY <2>1 DEF Misses
<1>4. CASE Conclude(Finding("incomplete", res.binding))
  <2>1. ResInv'
    BY <1>1, <1>4, ConcludeFacts
  <2>2. Misses(f) => Misses(f)'
    BY <1>1, <1>4, ConcludeMisses
  <2> QED BY <2>1, <2>2
<1> QED BY <1>2, <1>3, <1>4 DEF ReadBinding

LEMMA ReadToolFacts ==
  ASSUME WorldTyped, ResInv, ReadTool, UNCHANGED <<worldVars, pinned>>, NEW f, Pinnable(f.closure)
  PROVE  ResInv' /\ (Misses(f) => Misses(f)')
<1>1. UNCHANGED <<state, member>> /\ res.pc = "tool"
  BY DEF worldVars, ReadTool
<1>2. ASSUME Alive("tool"), NextRead("provider") PROVE ResInv' /\ (Misses(f) => Misses(f)')
  <2>1. ResInv' /\ res'.pc = "provider" /\ res'.binding = res.binding
    BY <1>1, <1>2, ReadFacts
  <2>2. Misses(f) => \/ Names(f.closure, "prov") /\ Lost("prov")
                     \/ f.closure \notin {<<>>, Pins(res.binding)}
    BY <1>1, <1>2 DEF Misses, Unread, Lost
  <2>3. (Names(f.closure, "prov") /\ Lost("prov")) => Misses(f)'
    BY <1>1, <2>1 DEF Misses, Unread, Lost, Alive
  <2>4. f.closure \notin {<<>>, Pins(res.binding)} => Misses(f)'
    BY <2>1 DEF Misses
  <2> QED BY <2>1, <2>2, <2>3, <2>4
<1>3. CASE Raise
  <2>1. ResInv' /\ res'.pc = "failed"
    BY <1>1, <1>3, RaiseFacts
  <2> QED BY <2>1 DEF Misses
<1> QED BY <1>2, <1>3 DEF ReadTool

LEMMA ReadProviderFacts ==
  ASSUME WorldTyped, ResInv, ReadProvider, UNCHANGED <<worldVars, pinned>>, NEW f, Pinnable(f.closure)
  PROVE  ResInv' /\ (Misses(f) => Misses(f)')
<1>1. UNCHANGED <<state, member>> /\ res.pc = "provider"
  BY DEF worldVars, ReadProvider
<1>2. ASSUME NEW status, Alive("prov"), Conclude(Finding(status, res.binding))
      PROVE  ResInv' /\ (Misses(f) => Misses(f)')
  <2>1. ResInv' /\ res'.pc = "persist" /\ res'.out.finding = Finding(status, res.binding)
    BY <1>1, <1>2, ConcludeFacts
  <2>2. Finding(status, res.binding).closure \in {<<>>, Pins(res.binding)}
    BY FindingPins
  <2>3. Misses(f) => f.closure \notin {<<>>, Pins(res.binding)}
    BY <1>1, <1>2 DEF Misses, Unread, Lost
  <2>4. f.closure \notin {<<>>, Pins(res.binding)} => Misses(f)'
    BY <2>1, <2>2 DEF Misses
  <2> QED BY <2>1, <2>3, <2>4
<1>3. CASE Raise
  <2>1. ResInv' /\ res'.pc = "failed"
    BY <1>1, <1>3, RaiseFacts
  <2> QED BY <2>1 DEF Misses
<1> QED BY <1>2, <1>3 DEF ReadProvider

LEMMA PersistFacts ==
  ASSUME WorldTyped, ResInv, Persist, UNCHANGED worldVars, NEW f, Pinnable(f.closure)
  PROVE  ResInv' /\ pinned \subseteq pinned' /\ (Misses(f) => Misses(f)')
<1>1. UNCHANGED <<state, member>> /\ res.pc = "persist"
  BY DEF worldVars, Persist
<1>2. ASSUME pinned' = pinned \cup {[out |-> res.out, expires |-> LeaseExpiry]}, NextRead("resolved")
      PROVE  ResInv' /\ pinned \subseteq pinned' /\ (Misses(f) => Misses(f)')
  <2>1. /\ res'.pc = "resolved" /\ res'.binding = res.binding /\ res'.out = res.out
        /\ {"pc", "owned", "binding", "out"} \subseteq DOMAIN res'
    BY <1>2 DEF ResInv, NextRead
  <2>2. [out |-> res.out, expires |-> LeaseExpiry] \in pinned'
    BY <1>2
  <2>3. \E p \in pinned': p.out = res'.out
    BY <2>1, <2>2
  <2>4. ResInv'
    BY <1>1, <2>1, <2>3 DEF ResInv, RivalKnown
  <2>5. Misses(f) => res.out.finding # f
    BY <1>1 DEF Misses, Unread
  <2>6. res.out.finding # f => Misses(f)'
    BY <2>1 DEF Misses
  <2> QED BY <1>2, <2>4, <2>5, <2>6
<1>3. ASSUME Raise, UNCHANGED pinned PROVE ResInv' /\ pinned \subseteq pinned' /\ (Misses(f) => Misses(f)')
  <2>1. ResInv' /\ res'.pc = "failed"
    BY <1>1, <1>3, RaiseFacts
  <2> QED BY <1>3, <2>1 DEF Misses
<1> QED BY <1>2, <1>3 DEF Persist

LEMMA ResolveFacts ==
  ASSUME WorldTyped, ResInv, ResolveStep, UNCHANGED worldVars, NEW f, Pinnable(f.closure)
  PROVE  ResInv' /\ pinned \subseteq pinned' /\ (Misses(f) => Misses(f)')
BY ReadSkillFacts, ReadCapabilityFacts, SearchBindingsFacts, ReadBindingFacts, ReadToolFacts,
   ReadProviderFacts, PersistFacts DEF ResolveStep

\* The world moves on: what was to be missed still is.
LEMMA WorldMisses ==
  ASSUME WorldTyped, ResInv, [WorldNext]_worldVars, UNCHANGED <<res, pinned>>, NEW f, Misses(f)
  PROVE  Misses(f)'
<1>1. /\ \A a \in Artifacts: Lost(a) => Lost(a)'
      /\ ~member => ~member'
  BY LostForGood
<1>2. Unread(res.pc) \subseteq Artifacts
  BY DEF Unread, Artifacts
<1>3. \A a \in Unread(res.pc): Lost(a) => Lost(a)'
  BY <1>1, <1>2
<1> QED BY <1>1, <1>3 DEF Misses

LEMMA WorldPins ==
  ASSUME WorldTyped, [WorldNext]_worldVars, NEW closure, Pinnable(closure)
  PROVE  Pinnable(closure)'
BY LostForGood DEF Pinnable

-----------------------------------------------------------------------------
(* Preparation. *)

EarlyPcs == {"asked", "scan", "confirm", "lexical", "documents", "query", "rank", "candidates"}
FoundPcs == {"package", "package_again", "contracts", "final"}
DecidedPcs == {"resolve", "baseline", "readiness", "connected"} \cup FoundPcs
AgainPcs == {"resolve", "baseline", "readiness", "connected", "admit", "answered", "failed"}

PrepTyped ==
  /\ {"pc", "ask", "ports", "mode", "records", "todo", "ranks", "ranked", "again", "task", "base", "seen",
      "conn", "got", "status", "sound"} \subseteq DOMAIN prep
  /\ prep.task \in Nat /\ prep.conn \in Nat /\ prep.seen.gen \in Nat /\ prep.again \in BOOLEAN
  /\ prep.again => prep.pc \in AgainPcs
  /\ prep.status = "ready" => prep.pc = "answered"

\* What was decided was so when it was read, and is so while its generation is.
TaskDecided ==
  prep.pc \in DecidedPcs \/ prep.again =>
    prep.task <= task.gen /\ (task.gen = prep.task => task.ok)
ConnectionSeen ==
  prep.pc = "connected" =>
    prep.seen.gen <= conn.gen /\ (conn.gen = prep.seen.gen => conn.ready)
ResultGot ==
  prep.pc \in FoundPcs \/ prep.again =>
    /\ prep.got.status = "ready" /\ Pinnable(prep.got.finding.closure)
    /\ \E p \in pinned: p.out = prep.got
    /\ prep.ports => prep.conn <= conn.gen /\ (conn.gen = prep.conn => conn.ready)

TaskMoved == task.gen # prep.task
ConnectionMoved == prep.ports /\ conn.gen # prep.conn
Amiss ==
  \/ ~member \/ Lost("skill")
  \/ \E a \in {"cap", "bind", "rival", "tool", "prov"}: Names(prep.got.finding.closure, a) /\ Lost(a)

\* An answer that would not be sound will not be given: what is wrong is still
\* to be read, by the steps that are left.
Rechecking ==
  \/ prep.pc = "final"
  \/ prep.again /\ prep.pc \in {"resolve", "readiness"}
  \/ prep.again /\ prep.pc = "baseline" /\ prep.ports
PrepCaught ==
  /\ Rechecking => prep.sound \/ TaskMoved \/ ConnectionMoved \/ Amiss
  /\ prep.again /\ prep.pc = "baseline" /\ ~prep.ports =>
       prep.sound \/ TaskMoved \/ Misses(prep.got.finding)
  /\ prep.again /\ prep.pc = "connected" =>
       prep.sound \/ TaskMoved \/ prep.seen.gen # prep.conn \/ Misses(prep.got.finding)
  /\ prep.again /\ prep.pc = "admit" => prep.sound \/ TaskMoved

PrepInv ==
  /\ PrepTyped /\ TaskDecided /\ ConnectionSeen /\ ResultGot /\ PrepCaught /\ ReadyAnswersHeld

LEMMA PrepInitInv == PreparationInit => PrepInv
<1> SUFFICES ASSUME NEW ask, NEW ports, prep = PrepOf(ask, ports) PROVE PrepInv
  BY DEF PreparationInit
<1>1. prep.pc = "asked" /\ prep.again = FALSE /\ prep.status = "no_match"
  BY DEF PrepOf
<1>2. PrepTyped
  BY <1>1 DEF PrepTyped, PrepOf, NoDecision
<1> QED BY <1>1, <1>2 DEF PrepInv, TaskDecided, ConnectionSeen, ResultGot, PrepCaught, Rechecking,
           ReadyAnswersHeld, DecidedPcs, FoundPcs

LEMMA PrepWorld ==
  ASSUME WorldTyped, ResInv, PrepInv, [WorldNext]_worldVars, UNCHANGED <<res, pinned, prep>>
  PROVE  PrepInv'
<1>1. /\ WorldTyped' /\ (~member => ~member')
      /\ conn.gen <= conn'.gen /\ (conn'.gen = conn.gen => conn' = conn)
      /\ task.gen <= task'.gen /\ (task'.gen = task.gen => task' = task)
  BY LostForGood
<1>2. \A a \in Artifacts: Lost(a) => Lost(a)'
  BY LostForGood
<1>3. conn.gen \in Nat /\ conn'.gen \in Nat /\ task.gen \in Nat /\ task'.gen \in Nat
  BY <1>1 DEF WorldTyped
<1>4. prep.task \in Nat /\ prep.conn \in Nat /\ prep.seen.gen \in Nat
  BY DEF PrepInv, PrepTyped
<1>5. PrepTyped'
  BY DEF PrepInv, PrepTyped
<1>6. TaskDecided'
  BY <1>1, <1>3, <1>4 DEF PrepInv, TaskDecided
<1>7. ConnectionSeen'
  BY <1>1, <1>3, <1>4 DEF PrepInv, ConnectionSeen
<1>8. ResultGot'
  <2>1. ASSUME prep.pc \in FoundPcs \/ prep.again PROVE Pinnable(prep.got.finding.closure)'
    BY <2>1, WorldPins DEF PrepInv, ResultGot
  <2> QED BY <1>1, <1>3, <1>4, <2>1 DEF PrepInv, ResultGot
<1>9. PrepCaught'
  <2>1. TaskDecided /\ TaskMoved /\ (prep.pc \in DecidedPcs \/ prep.again) => TaskMoved'
    BY <1>1, <1>3, <1>4 DEF TaskDecided, TaskMoved
  <2>2. ResultGot /\ ConnectionMoved /\ (prep.pc \in FoundPcs \/ prep.again) => ConnectionMoved'
    BY <1>1, <1>3, <1>4 DEF ResultGot, ConnectionMoved
  <2>3. Amiss => Amiss'
    BY <1>1, <1>2 DEF Amiss, Artifacts
  <2>4. Misses(prep.got.finding) => Misses(prep.got.finding)'
    BY WorldMisses
  <2>5. Rechecking => prep.pc \in FoundPcs \/ prep.again
    BY DEF Rechecking, FoundPcs
  <2>6. Rechecking' = Rechecking
    BY DEF Rechecking
  <2>7. prep.pc \in FoundPcs => prep.pc \in DecidedPcs
    BY DEF DecidedPcs
  <2> QED BY <2>1, <2>2, <2>3, <2>4, <2>5, <2>6, <2>7 DEF PrepInv, PrepCaught
<1>10. ReadyAnswersHeld'
  BY DEF PrepInv, ReadyAnswersHeld
<1> QED BY <1>5, <1>6, <1>7, <1>8, <1>9, <1>10 DEF PrepInv

LEMMA PrepResolver ==
  ASSUME WorldTyped, ResInv, PrepInv, ResolveStep, UNCHANGED <<worldVars, prep>>
  PROVE  PrepInv'
<1>1. UNCHANGED <<state, member, conn, task>>
  BY DEF worldVars
<1>2. pinned \subseteq pinned'
  <2>1. Pinnable(<<>>)
    BY DEF Pinnable, Bindings, RivalKnown
  <2>2. [closure |-> <<>>].closure = <<>>
    OBVIOUS
  <2> QED BY <2>1, <2>2, ResolveFacts
<1>3. ASSUME prep.again PROVE Misses(prep.got.finding) => Misses(prep.got.finding)'
  BY <1>3, ResolveFacts DEF PrepInv, ResultGot
<1>4. Amiss' = Amiss
  BY <1>1 DEF Amiss, Lost, Alive
<1>5. \A closure: Pinnable(closure)' = Pinnable(closure)
  BY <1>1 DEF Pinnable, RivalKnown
<1>6. PrepCaught'
  BY <1>1, <1>3, <1>4 DEF PrepInv, PrepCaught, Rechecking, TaskMoved, ConnectionMoved
<1>7. ResultGot'
  BY <1>1, <1>2, <1>5 DEF PrepInv, ResultGot
<1> QED BY <1>1, <1>2, <1>6, <1>7 DEF PrepInv, PrepTyped, TaskDecided, ConnectionSeen, ReadyAnswersHeld

\* A step before anything was decided: it ranks, or ends without a result.
LEMMA EarlyStep ==
  ASSUME PrepInv, prep.pc \in EarlyPcs, UNCHANGED <<worldVars, pinned>>,
         DOMAIN prep' = DOMAIN prep, prep'.again = prep.again, prep'.task = prep.task, prep'.conn = prep.conn,
         prep'.seen = prep.seen, prep'.pc \in EarlyPcs \cup {"admit", "answered", "failed"},
         prep'.status # "ready"
  PROVE  PrepInv'
<1>1. ~prep.again
  BY DEF PrepInv, PrepTyped, EarlyPcs, AgainPcs
<1>2. PrepTyped'
  BY <1>1 DEF PrepInv, PrepTyped
<1>3. prep'.pc \notin DecidedPcs
  BY DEF EarlyPcs, DecidedPcs, FoundPcs
<1>4. prep'.pc \notin FoundPcs /\ prep'.pc # "connected" /\ prep'.pc # "final"
  BY <1>3 DEF DecidedPcs, FoundPcs
<1>5. ~prep'.again
  BY <1>1
<1> QED BY <1>2, <1>3, <1>4, <1>5
       DEF PrepInv, TaskDecided, ConnectionSeen, ResultGot, PrepCaught, Rechecking, ReadyAnswersHeld

\* A step that ends the call without a ready answer.
LEMMA LastStep ==
  ASSUME PrepInv, UNCHANGED <<worldVars, pinned>>, NEW s, s # "ready", Fail \/ Reply(s),
         prep.pc # "answered"
  PROVE  PrepInv'
<1>1. /\ DOMAIN prep' = DOMAIN prep /\ prep'.again = prep.again /\ prep'.task = prep.task
      /\ prep'.conn = prep.conn /\ prep'.seen = prep.seen /\ prep'.got = prep.got
      /\ prep'.ports = prep.ports /\ prep'.pc \in {"answered", "failed"} /\ prep'.status # "ready"
  BY DEF PrepInv, PrepTyped, Fail, Reply
<1>2. PrepTyped'
  BY <1>1 DEF PrepInv, PrepTyped, AgainPcs
<1>3. prep'.pc \notin DecidedPcs /\ prep'.pc \notin FoundPcs /\ prep'.pc \notin {"connected", "final", "resolve",
        "readiness", "baseline", "admit"}
  BY <1>1 DEF DecidedPcs, FoundPcs
<1>4. TaskDecided'
  BY <1>1, <1>3 DEF PrepInv, TaskDecided, worldVars
<1>5. ResultGot'
  BY <1>1, <1>3 DEF PrepInv, ResultGot, worldVars, Pinnable, RivalKnown
<1> QED BY <1>1, <1>2, <1>3, <1>4, <1>5 DEF PrepInv, ConnectionSeen, PrepCaught, Rechecking, ReadyAnswersHeld

LEMMA EarlySteps ==
  ASSUME PrepInv, UNCHANGED <<worldVars, pinned>>,
         \/ SearchSkills \/ ScanRecord \/ ConfirmRecord \/ RankLexically
         \/ EmbedDocuments \/ EmbedQuery \/ RankCandidates \/ RecheckCandidates
  PROVE  PrepInv'
<1> DEFINE Early == /\ prep.pc \in EarlyPcs /\ DOMAIN prep' = DOMAIN prep
                    /\ prep'.again = prep.again /\ prep'.task = prep.task /\ prep'.conn = prep.conn
                    /\ prep'.seen = prep.seen
                    /\ prep'.pc \in EarlyPcs \cup {"admit", "answered", "failed"}
                    /\ prep'.status # "ready"
<1>0. prep.pc \in EarlyPcs => prep.status # "ready"
  BY DEF PrepInv, PrepTyped, EarlyPcs
<1>00. {"pc", "ask", "ports", "mode", "records", "todo", "ranks", "ranked", "again", "task", "base", "seen",
        "conn", "got", "status", "sound"} \subseteq DOMAIN prep
  BY DEF PrepInv, PrepTyped
<1>1. CASE SearchSkills
  <2>1. Early
    BY <1>0, <1>00, <1>1 DEF SearchSkills, EarlyPcs
  <2> QED BY <2>1, EarlyStep
<1>2. CASE ScanRecord
  <2>1. Early
    BY <1>0, <1>00, <1>2 DEF ScanRecord, EarlyPcs
  <2> QED BY <2>1, EarlyStep
<1>3. CASE ConfirmRecord
  <2>1. Early
    BY <1>0, <1>00, <1>3 DEF ConfirmRecord, Fail, EarlyPcs
  <2> QED BY <2>1, EarlyStep
<1>4. CASE RankLexically
  <2>1. Early
    BY <1>0, <1>00, <1>4 DEF RankLexically, EarlyPcs
  <2> QED BY <2>1, EarlyStep
<1>5. ASSUME NEW pc \in EarlyPcs, NEW next \in EarlyPcs, EmbedStep(pc, next) PROVE PrepInv'
  <2>1. Early
    BY <1>0, <1>00, <1>5 DEF EmbedStep, EmbeddingFails, Reply, EarlyPcs
  <2> QED BY <2>1, EarlyStep
<1>6. CASE EmbedDocuments
  BY <1>5, <1>6 DEF EmbedDocuments, EarlyPcs
<1>7. CASE EmbedQuery
  BY <1>5, <1>7 DEF EmbedQuery, EarlyPcs
<1>8. CASE RankCandidates
  <2>1. Early
    BY <1>0, <1>00, <1>8 DEF RankCandidates, EarlyPcs
  <2> QED BY <2>1, EarlyStep
<1>9. CASE RecheckCandidates
  <2>1. Early
    BY <1>0, <1>00, <1>9 DEF RecheckCandidates, Fail, Reply, EarlyPcs
  <2> QED BY <2>1, EarlyStep
<1> QED BY <1>1, <1>2, <1>3, <1>4, <1>6, <1>7, <1>8, <1>9

LEMMA AdmitTaskInv ==
  ASSUME WorldTyped, PrepInv, AdmitTask, UNCHANGED <<worldVars, pinned>>
  PROVE  PrepInv'
<1>1. prep.pc = "admit"
  BY DEF AdmitTask
<1>2. ASSUME NEW s, s # "ready", Fail \/ Reply(s) PROVE PrepInv'
  BY <1>1, <1>2, LastStep
<1>3. ASSUME prep.again, task.ok, task.gen = prep.task, Reply("ready") PROVE PrepInv'
  <2>1. /\ DOMAIN prep' = DOMAIN prep /\ prep'.again = prep.again /\ prep'.task = prep.task
        /\ prep'.conn = prep.conn /\ prep'.seen = prep.seen /\ prep'.got = prep.got
        /\ prep'.ports = prep.ports /\ prep'.sound = prep.sound /\ prep'.pc = "answered"
    BY <1>3 DEF PrepInv, PrepTyped, Reply
  <2>2. prep.sound
    BY <1>1, <1>3 DEF PrepInv, PrepCaught, TaskMoved
  <2>3. ReadyAnswersHeld'
    BY <1>3, <2>1, <2>2 DEF ReadyAnswersHeld, PrepInv, ResultGot
  <2>4. PrepTyped'
    BY <2>1 DEF PrepInv, PrepTyped, AgainPcs
  <2>5. TaskDecided'
    BY <1>3, <2>1 DEF PrepInv, TaskDecided, worldVars
  <2>6. ResultGot'
    BY <1>3, <2>1 DEF PrepInv, ResultGot, worldVars, Pinnable, RivalKnown
  <2> QED BY <2>1, <2>3, <2>4, <2>5, <2>6 DEF PrepInv, ConnectionSeen, PrepCaught, Rechecking
<1>4. ASSUME ~prep.again, task.ok, prep' = [prep EXCEPT !.pc = "resolve", !.task = task.gen] PROVE PrepInv'
  <2>1. /\ DOMAIN prep' = DOMAIN prep /\ prep'.again = prep.again /\ prep'.task = task.gen
        /\ prep'.conn = prep.conn /\ prep'.seen = prep.seen /\ prep'.pc = "resolve"
        /\ prep'.status = prep.status
    BY <1>4 DEF PrepInv, PrepTyped
  <2>2. task.gen \in Nat /\ prep.status # "ready"
    BY <1>1 DEF WorldTyped, PrepInv, PrepTyped
  <2>3. PrepTyped'
    BY <1>4, <2>1, <2>2 DEF PrepInv, PrepTyped
  <2>4. TaskDecided'
    BY <1>4, <2>1, <2>2 DEF TaskDecided, worldVars
  <2> QED BY <1>4, <2>1, <2>3, <2>4
         DEF PrepInv, ConnectionSeen, ResultGot, PrepCaught, Rechecking, ReadyAnswersHeld, FoundPcs
<1> QED BY <1>2, <1>3, <1>4 DEF AdmitTask

\* The steps that only go on to the next, and change no decision.
OnlyOn(pc) ==
  /\ DOMAIN prep' = DOMAIN prep /\ prep'.again = prep.again /\ prep'.task = prep.task
  /\ prep'.conn = prep.conn /\ prep'.seen = prep.seen /\ prep'.got = prep.got
  /\ prep'.ports = prep.ports /\ prep'.sound = prep.sound /\ prep'.status = prep.status /\ prep'.pc = pc

LEMMA ResolveBaselineInv ==
  ASSUME WorldTyped, ResInv, PrepInv, ResolveBaseline, UNCHANGED worldVars
  PROVE  ResInv' /\ PrepInv'
<1>1. prep.pc = "resolve" /\ UNCHANGED <<state, member, conn, task, pinned>>
  BY DEF ResolveBaseline, worldVars
<1>2. OnlyOn("baseline")
  BY DEF ResolveBaseline, GoTo, OnlyOn, PrepInv, PrepTyped
<1>3. res' = [pc |-> "skill", owned |-> FALSE, binding |-> "bind", out |-> NoResult]
  BY DEF ResolveBaseline, StartResolve, Resting
<1>4. ResInv'
  BY <1>3 DEF ResInv, RivalKnown, Bindings
<1>5. PrepTyped'
  BY <1>1, <1>2 DEF PrepInv, PrepTyped, OnlyOn, AgainPcs
<1>6. TaskDecided' /\ ConnectionSeen'
  BY <1>1, <1>2 DEF PrepInv, TaskDecided, ConnectionSeen, OnlyOn, DecidedPcs
<1>7. ResultGot'
  BY <1>1, <1>2 DEF PrepInv, ResultGot, OnlyOn, FoundPcs, Pinnable, RivalKnown
<1>8. PrepCaught'
  <2>1. CASE prep.again
    <3>1. prep.sound \/ TaskMoved \/ ConnectionMoved \/ Amiss
      BY <1>1, <2>1 DEF PrepInv, PrepCaught, Rechecking
    <3>2. TaskMoved' = TaskMoved /\ ConnectionMoved' = ConnectionMoved /\ Amiss' = Amiss
      BY <1>1, <1>2 DEF TaskMoved, ConnectionMoved, Amiss, OnlyOn, Lost, Alive
    <3>3. Amiss => Misses(prep.got.finding)'
      <4>1. res'.pc = "skill" /\ prep'.got = prep.got /\ UNCHANGED <<state, member>>
        BY <1>1, <1>2, <1>3 DEF OnlyOn
      <4> QED BY <4>1 DEF Amiss, Misses, Unread, Lost, Alive
    <3>4. ~prep.ports => ~ConnectionMoved
      BY DEF ConnectionMoved
    <3> QED BY <1>2, <3>1, <3>2, <3>3, <3>4 DEF PrepCaught, Rechecking, OnlyOn
  <2>2. CASE ~prep.again
    BY <1>2, <2>2 DEF PrepCaught, Rechecking, OnlyOn
  <2> QED BY <2>1, <2>2
<1>9. ReadyAnswersHeld'
  BY <1>2 DEF ReadyAnswersHeld, OnlyOn
<1> QED BY <1>4, <1>5, <1>6, <1>7, <1>8, <1>9 DEF PrepInv

\* The result that is accepted is pinned, and its connection was ready.
LEMMA AcceptFirst ==
  ASSUME WorldTyped, PrepInv, ~prep.again, prep.pc \in {"baseline", "readiness", "connected"},
         NEW out, NEW gen, Accept(out, gen), UNCHANGED <<worldVars, pinned>>,
         out.status = "ready" =>
           /\ Pinnable(out.finding.closure) /\ (\E p \in pinned: p.out = out)
           /\ gen \in Nat /\ (prep.ports => gen <= conn.gen /\ (conn.gen = gen => conn.ready))
  PROVE  PrepInv'
<1>1. ASSUME NEW s, s # "ready", Reply(s) PROVE PrepInv'
  BY <1>1, LastStep
<1>2. ASSUME out.status = "ready", prep' = [prep EXCEPT !.pc = "package", !.conn = gen, !.got = out]
      PROVE  PrepInv'
  <2>1. /\ DOMAIN prep' = DOMAIN prep /\ prep'.again = prep.again /\ prep'.task = prep.task
        /\ prep'.conn = gen /\ prep'.seen = prep.seen /\ prep'.got = out
        /\ prep'.ports = prep.ports /\ prep'.status = prep.status /\ prep'.pc = "package"
    BY <1>2 DEF PrepInv, PrepTyped
  <2>2. prep.status # "ready" /\ gen \in Nat
    BY <1>2 DEF PrepInv, PrepTyped
  <2>3. PrepTyped'
    BY <2>1, <2>2 DEF PrepInv, PrepTyped
  <2>4. TaskDecided'
    BY <2>1 DEF PrepInv, TaskDecided, DecidedPcs, worldVars
  <2>5. ResultGot'
    BY <1>2, <2>1 DEF ResultGot, worldVars, Pinnable, RivalKnown
  <2> QED BY <2>1, <2>3, <2>4, <2>5 DEF PrepInv, ConnectionSeen, PrepCaught, Rechecking, ReadyAnswersHeld
<1>3. \/ out.status = "ready" /\ prep' = [prep EXCEPT !.pc = "package", !.conn = gen, !.got = out]
      \/ Reply("unsupported") \/ Reply("requires_connection")
  BY DEF Accept
<1> QED BY <1>1, <1>2, <1>3

\* The second result is the first one, or the call fails.
LEMMA AcceptAgain ==
  ASSUME WorldTyped, PrepInv, prep.again, prep.pc \in {"baseline", "readiness", "connected"},
         NEW out, NEW gen, Accept(out, gen), UNCHANGED <<worldVars, pinned>>,
         gen = prep.conn /\ out.status = prep.got.status /\ out.finding = prep.got.finding
           => prep.sound \/ TaskMoved
  PROVE  PrepInv'
<1>1. CASE Fail
  <2>1. "unsupported" # "ready" /\ prep.pc # "answered"
    OBVIOUS
  <2> QED BY <1>1, <2>1, LastStep
<1>2. ASSUME prep.sound \/ TaskMoved, prep' = [prep EXCEPT !.pc = "admit"] PROVE PrepInv'
  <2>1. OnlyOn("admit")
    BY <1>2 DEF PrepInv, PrepTyped, OnlyOn
  <2>2. PrepTyped'
    BY <2>1 DEF PrepInv, PrepTyped, OnlyOn, AgainPcs
  <2>3. TaskDecided' /\ ConnectionSeen'
    BY <2>1 DEF PrepInv, TaskDecided, ConnectionSeen, OnlyOn, worldVars
  <2>4. ResultGot'
    BY <2>1 DEF PrepInv, ResultGot, OnlyOn, Pinnable, RivalKnown, worldVars
  <2>5. TaskMoved' = TaskMoved /\ prep'.sound = prep.sound /\ prep'.pc = "admit"
    BY <2>1 DEF TaskMoved, OnlyOn, worldVars
  <2>6. PrepCaught'
    BY <1>2, <2>5 DEF PrepCaught, Rechecking
  <2>7. ReadyAnswersHeld'
    BY <2>5 DEF ReadyAnswersHeld
  <2> QED BY <2>2, <2>3, <2>4, <2>6, <2>7 DEF PrepInv
<1> QED BY <1>1, <1>2 DEF Accept

LEMMA RestingInv == ASSUME res' = Resting PROVE ResInv'
BY DEF ResInv, Resting, RivalKnown, Bindings

LEMMA BaselineResolvedInv ==
  ASSUME WorldTyped, ResInv, PrepInv, BaselineResolved, UNCHANGED worldVars
  PROVE  ResInv' /\ PrepInv'
<1>1. ResInv' /\ prep.pc = "baseline" /\ UNCHANGED pinned
  BY RestingInv DEF BaselineResolved
<1>2. CASE Fail
  <2>1. "unsupported" # "ready" /\ prep.pc # "answered"
    BY <1>1
  <2> QED BY <1>1, <1>2, <2>1, LastStep
<1>3. ASSUME res.pc = "resolved", ~prep.ports, Accept(res.out, 0) PROVE PrepInv'
  <2>1. CASE prep.again
    <3>1. prep.sound \/ TaskMoved \/ Misses(prep.got.finding)
      BY <1>1, <1>3, <2>1 DEF PrepInv, PrepCaught
    <3>2. Misses(prep.got.finding) => res.out.finding # prep.got.finding
      BY <1>3 DEF Misses, Unread
    <3> QED BY <1>1, <1>3, <2>1, <3>1, <3>2, AcceptAgain
  <2>2. CASE ~prep.again
    <3>1. Pinnable(res.out.finding.closure) /\ \E p \in pinned: p.out = res.out
      BY <1>3 DEF ResInv, Pinnable
    <3> QED BY <1>1, <1>3, <2>2, <3>1, AcceptFirst
  <2> QED BY <2>1, <2>2
<1>4. ASSUME prep.ports, prep' = [prep EXCEPT !.pc = "readiness", !.base = res.out.finding] PROVE PrepInv'
  <2>1. OnlyOn("readiness")
    BY <1>4 DEF PrepInv, PrepTyped, OnlyOn
  <2>2. PrepTyped'
    BY <1>1, <2>1 DEF PrepInv, PrepTyped, OnlyOn, AgainPcs
  <2>3. TaskDecided' /\ ConnectionSeen'
    BY <1>1, <2>1 DEF PrepInv, TaskDecided, ConnectionSeen, OnlyOn, DecidedPcs, worldVars
  <2>4. ResultGot'
    BY <1>1, <2>1 DEF PrepInv, ResultGot, OnlyOn, FoundPcs, Pinnable, RivalKnown, worldVars
  <2>5. UNCHANGED <<state, member, conn, task>>
    BY DEF worldVars
  <2>6. TaskMoved' = TaskMoved /\ ConnectionMoved' = ConnectionMoved /\ Amiss' = Amiss
    BY <2>1, <2>5 DEF TaskMoved, ConnectionMoved, Amiss, OnlyOn, Lost, Alive
  <2>7. prep.again => prep.sound \/ TaskMoved \/ ConnectionMoved \/ Amiss
    BY <1>1, <1>4 DEF PrepInv, PrepCaught, Rechecking
  <2>8. PrepCaught'
    BY <2>1, <2>6, <2>7 DEF PrepCaught, Rechecking, OnlyOn
  <2>9. ReadyAnswersHeld'
    BY <2>1 DEF ReadyAnswersHeld, OnlyOn
  <2> QED BY <2>2, <2>3, <2>4, <2>8, <2>9 DEF PrepInv
<1> QED BY <1>1, <1>2, <1>3, <1>4 DEF BaselineResolved

LEMMA CheckReadinessInv ==
  ASSUME WorldTyped, ResInv, PrepInv, CheckReadiness, UNCHANGED worldVars
  PROVE  ResInv' /\ PrepInv'
<1>1. prep.pc = "readiness" /\ UNCHANGED <<state, member, conn, task, pinned>>
  BY DEF CheckReadiness, worldVars
<1>2. ASSUME Fail, UNCHANGED res PROVE ResInv' /\ PrepInv'
  <2>1. "unsupported" # "ready" /\ prep.pc # "answered"
    BY <1>1
  <2>2. PrepInv'
    BY <1>1, <1>2, <2>1, LastStep
  <2> QED BY <1>1, <1>2, <2>2 DEF ResInv, RivalKnown
<1>3. ASSUME NEW out, out.status = "incomplete", Accept(out, conn.gen), UNCHANGED res PROVE ResInv' /\ PrepInv'
  <2>1. CASE prep.again
    <3>1. out.status # prep.got.status
      BY <1>3, <2>1 DEF PrepInv, ResultGot
    <3> QED BY <1>1, <1>3, <2>1, <3>1, AcceptAgain DEF ResInv, RivalKnown
  <2>2. CASE ~prep.again
    <3>1. out.status # "ready"
      BY <1>3
    <3> QED BY <1>1, <1>3, <2>2, <3>1, AcceptFirst DEF ResInv, RivalKnown
  <2> QED BY <2>1, <2>2
<1>4. ASSUME conn.ready, NEW w, prep' = [prep EXCEPT !.pc = "connected", !.seen = [gen |-> conn.gen, until |-> now + w]],
             StartResolve(TRUE)
      PROVE  ResInv' /\ PrepInv'
  <2>1. /\ DOMAIN prep' = DOMAIN prep /\ prep'.again = prep.again /\ prep'.task = prep.task
        /\ prep'.conn = prep.conn /\ prep'.seen.gen = conn.gen /\ prep'.got = prep.got
        /\ prep'.ports = prep.ports /\ prep'.sound = prep.sound /\ prep'.status = prep.status
        /\ prep'.pc = "connected"
    BY <1>4 DEF PrepInv, PrepTyped
  <2>2. res' = [pc |-> "skill", owned |-> TRUE, binding |-> "bind", out |-> NoResult]
    BY <1>4 DEF StartResolve, Resting
  <2>3. ResInv'
    BY <2>2 DEF ResInv, RivalKnown, Bindings
  <2>4. conn.gen \in Nat
    BY DEF WorldTyped
  <2>5. PrepTyped'
    BY <1>1, <2>1, <2>4 DEF PrepInv, PrepTyped, AgainPcs
  <2>6. TaskDecided'
    BY <1>1, <2>1 DEF PrepInv, TaskDecided, DecidedPcs
  <2>7. ConnectionSeen'
    BY <1>1, <1>4, <2>1, <2>4 DEF ConnectionSeen
  <2>8. ResultGot'
    BY <1>1, <2>1 DEF PrepInv, ResultGot, FoundPcs, Pinnable, RivalKnown
  <2>9. PrepCaught'
    <3>1. ASSUME prep.again
          PROVE  (prep.sound \/ TaskMoved \/ prep.seen.gen # prep.conn \/ Misses(prep.got.finding))'
      <4>1. prep.sound \/ TaskMoved \/ ConnectionMoved \/ Amiss
        BY <1>1, <3>1 DEF PrepInv, PrepCaught, Rechecking
      <4>2. TaskMoved' = TaskMoved /\ (ConnectionMoved => prep'.seen.gen # prep'.conn)
        BY <1>1, <2>1 DEF TaskMoved, ConnectionMoved
      <4>3. res'.pc = "skill"
        BY <2>2
      <4>4. Amiss => Misses(prep.got.finding)'
        BY <1>1, <2>1, <4>3 DEF Amiss, Misses, Unread, Lost, Alive
      <4> QED BY <2>1, <4>1, <4>2, <4>4
    <3> QED BY <2>1, <3>1 DEF PrepCaught, Rechecking
  <2>10. ReadyAnswersHeld'
    BY <2>1 DEF ReadyAnswersHeld
  <2> QED BY <2>3, <2>5, <2>6, <2>7, <2>8, <2>9, <2>10 DEF PrepInv
<1>5. [status |-> "incomplete", finding |-> prep.base].status = "incomplete"
  OBVIOUS
<1> QED BY <1>2, <1>3, <1>4, <1>5 DEF CheckReadiness

LEMMA ConnectedResolvedInv ==
  ASSUME WorldTyped, ResInv, PrepInv, ConnectedResolved, UNCHANGED worldVars
  PROVE  ResInv' /\ PrepInv'
<1>1. ResInv' /\ prep.pc = "connected" /\ UNCHANGED pinned
  BY RestingInv DEF ConnectedResolved
<1>2. CASE Fail
  <2>1. "unsupported" # "ready" /\ prep.pc # "answered"
    BY <1>1
  <2> QED BY <1>1, <1>2, <2>1, LastStep
<1>3. ASSUME res.pc = "resolved", Accept(res.out, prep.seen.gen) PROVE PrepInv'
  <2>1. CASE prep.again
    <3>1. prep.sound \/ TaskMoved \/ prep.seen.gen # prep.conn \/ Misses(prep.got.finding)
      BY <1>1, <2>1 DEF PrepInv, PrepCaught
    <3>2. Misses(prep.got.finding) => res.out.finding # prep.got.finding
      BY <1>3 DEF Misses, Unread
    <3> QED BY <1>1, <1>3, <2>1, <3>1, <3>2, AcceptAgain
  <2>2. CASE ~prep.again
    <3>1. Pinnable(res.out.finding.closure) /\ \E p \in pinned: p.out = res.out
      BY <1>3 DEF ResInv, Pinnable
    <3>2. prep.seen.gen \in Nat /\ prep.seen.gen <= conn.gen /\ (conn.gen = prep.seen.gen => conn.ready)
      BY <1>1 DEF PrepInv, PrepTyped, ConnectionSeen
    <3> QED BY <1>1, <1>3, <2>2, <3>1, <3>2, AcceptFirst
  <2> QED BY <2>1, <2>2
<1> QED BY <1>1, <1>2, <1>3 DEF ConnectedResolved

\* A step between two reads of what was found.
LEMMA FoundStep ==
  ASSUME PrepInv, prep.pc \in FoundPcs, NEW pc \in FoundPcs \ {"final"}, OnlyOn(pc),
         UNCHANGED <<worldVars, pinned>>
  PROVE  PrepInv'
<1>1. ~prep.again /\ prep.status # "ready"
  BY DEF PrepInv, PrepTyped, FoundPcs, AgainPcs
<1>2. PrepTyped'
  BY <1>1 DEF PrepInv, PrepTyped, OnlyOn
<1>3. TaskDecided'
  BY DEF PrepInv, TaskDecided, OnlyOn, DecidedPcs, worldVars
<1>4. ResultGot'
  BY DEF PrepInv, ResultGot, OnlyOn, Pinnable, RivalKnown, worldVars
<1>5. prep'.pc \notin {"connected", "final", "answered"} /\ ~prep'.again
  BY <1>1 DEF OnlyOn, FoundPcs
<1> QED BY <1>2, <1>3, <1>4, <1>5 DEF PrepInv, ConnectionSeen, PrepCaught, Rechecking, ReadyAnswersHeld

LEMMA ReadPackageInv ==
  ASSUME PrepInv, ReadPackage, UNCHANGED <<worldVars, pinned>>
  PROVE  PrepInv'
<1>1. prep.pc \in {"package", "package_again"}
  BY DEF ReadPackage
<1>2. ASSUME NEW s, s # "ready", Fail \/ Reply(s) PROVE PrepInv'
  BY <1>1, <1>2, LastStep
<1>3. \/ Fail \/ Reply("unsupported") \/ OnlyOn("package_again") \/ OnlyOn("contracts")
  BY DEF ReadPackage, GoTo, OnlyOn, PrepInv, PrepTyped
<1>4. prep.pc \in FoundPcs
  BY <1>1 DEF FoundPcs
<1>5. "package_again" \in FoundPcs \ {"final"} /\ "contracts" \in FoundPcs \ {"final"}
  BY DEF FoundPcs
<1> QED BY <1>2, <1>3, <1>4, <1>5, FoundStep

\* The instant of the answer: what does not hold is lost or has moved.
LEMMA FactsHoldOrNot ==
  ASSUME WorldTyped, PrepInv, prep.pc \in FoundPcs
  PROVE  FactsHold \/ TaskMoved \/ ConnectionMoved \/ Amiss
<1>1. /\ Pinnable(prep.got.finding.closure)
      /\ prep.ports => (conn.gen = prep.conn => conn.ready)
      /\ task.gen = prep.task => task.ok
  BY DEF PrepInv, ResultGot, TaskDecided, DecidedPcs
<1>2. ASSUME ~Amiss PROVE member /\ Alive("skill") /\ \A i \in DOMAIN prep.got.finding.closure:
                              Alive(prep.got.finding.closure[i])
  <2>1. member /\ Alive("skill")
    BY <1>2, AliveOrLost DEF Amiss, RivalKnown, Artifacts
  <2>2. PICK b \in Bindings: RivalKnown(b) /\ prep.got.finding.closure \in {<<>>, Pins(b)}
    BY <1>1 DEF Pinnable
  <2>3. CASE prep.got.finding.closure = <<>>
    BY <2>1, <2>3
  <2>4. CASE prep.got.finding.closure = Pins(b)
    <3>1. \A a \in {"cap", "tool", "prov", b}: Names(prep.got.finding.closure, a)
      BY <2>4, PinsDiffer DEF Names
    <3>2. \A a \in {"cap", "tool", "prov", b}: ~Lost(a)
      BY <1>2, <3>1 DEF Amiss, Bindings
    <3>3. \A a \in {"cap", "tool", "prov", b}: Alive(a)
      BY <2>2, <3>2, AliveOrLost DEF RivalKnown, Artifacts, Bindings
    <3> QED BY <2>1, <2>4, <3>3 DEF Pins
  <2> QED BY <2>2, <2>3, <2>4
<1>3. ~TaskMoved => task = [gen |-> prep.task, ok |-> TRUE]
  BY <1>1 DEF TaskMoved, WorldTyped
<1>4. ~ConnectionMoved => (prep.ports => conn = [gen |-> prep.conn, ready |-> TRUE])
  BY <1>1 DEF ConnectionMoved, WorldTyped
<1> QED BY <1>2, <1>3, <1>4 DEF FactsHold, Maintained

LEMMA FetchContractInv ==
  ASSUME WorldTyped, PrepInv, FetchContract, UNCHANGED <<worldVars, pinned>>
  PROVE  PrepInv'
<1>1. prep.pc = "contracts" /\ prep.pc \in FoundPcs /\ UNCHANGED <<state, member, conn, task>>
  BY DEF FetchContract, FoundPcs, worldVars
<1>2. CASE Fail
  <2>1. "unsupported" # "ready" /\ prep.pc # "answered"
    BY <1>1
  <2> QED BY <1>2, <2>1, LastStep
<1>3. CASE OnlyOn("contracts")
  <2>1. "contracts" \in FoundPcs \ {"final"}
    BY DEF FoundPcs
  <2> QED BY <1>1, <1>3, <2>1, FoundStep
<1>4. ASSUME NEW todo, prep' = [prep EXCEPT !.pc = "final", !.todo = todo, !.sound = FactsHold] PROVE PrepInv'
  <2>1. /\ DOMAIN prep' = DOMAIN prep /\ prep'.again = prep.again /\ prep'.task = prep.task
        /\ prep'.conn = prep.conn /\ prep'.seen = prep.seen /\ prep'.got = prep.got
        /\ prep'.ports = prep.ports /\ prep'.status = prep.status /\ prep'.pc = "final"
    BY <1>4 DEF PrepInv, PrepTyped
  <2>2. FactsHold => prep'.sound
    BY <1>4, Zenon DEF PrepInv, PrepTyped
  <2>3. ~prep.again /\ prep.status # "ready"
    BY <1>1 DEF PrepInv, PrepTyped, AgainPcs
  <2>4. PrepTyped'
    BY <2>1, <2>3 DEF PrepInv, PrepTyped
  <2>5. TaskDecided'
    BY <1>1, <2>1 DEF PrepInv, TaskDecided, DecidedPcs
  <2>6. ResultGot'
    BY <1>1, <2>1 DEF PrepInv, ResultGot, Pinnable, RivalKnown
  <2>7. TaskMoved' = TaskMoved /\ ConnectionMoved' = ConnectionMoved /\ Amiss' = Amiss
    BY <1>1, <2>1 DEF TaskMoved, ConnectionMoved, Amiss, Lost, Alive
  <2>8. FactsHold \/ TaskMoved \/ ConnectionMoved \/ Amiss
    BY <1>1, FactsHoldOrNot
  <2>9. PrepCaught'
    BY <2>1, <2>2, <2>3, <2>7, <2>8 DEF PrepCaught
  <2> QED BY <2>1, <2>3, <2>4, <2>5, <2>6, <2>9 DEF PrepInv, ConnectionSeen, ReadyAnswersHeld
<1>5. \/ Fail \/ OnlyOn("contracts")
      \/ \E todo: prep' = [prep EXCEPT !.pc = "final", !.todo = todo, !.sound = FactsHold]
  <2>1. CASE prep.todo = <<>>
    BY <2>1 DEF FetchContract
  <2>2. CASE prep.todo # <<>>
    BY <2>2, <1>1 DEF FetchContract, OnlyOn, PrepInv, PrepTyped
  <2> QED BY <2>1, <2>2
<1> QED BY <1>2, <1>3, <1>4, <1>5

LEMMA FinalRecheckInv ==
  ASSUME PrepInv, FinalRecheck, UNCHANGED <<worldVars, pinned>>
  PROVE  PrepInv'
<1> DEFINE Kept == /\ DOMAIN prep' = DOMAIN prep /\ prep'.task = prep.task /\ prep'.conn = prep.conn
                   /\ prep'.seen = prep.seen /\ prep'.got = prep.got /\ prep'.ports = prep.ports
                   /\ prep'.sound = prep.sound /\ prep'.status = prep.status
<1>1. prep.pc = "final" /\ UNCHANGED <<state, member, conn, task>>
  BY DEF FinalRecheck, worldVars
<1>2. CASE Fail
  <2>1. "unsupported" # "ready" /\ prep.pc # "answered"
    BY <1>1
  <2> QED BY <1>2, <2>1, LastStep
<1>3. ASSUME Kept, (prep'.pc = "final" /\ prep'.again = prep.again) \/ (prep'.pc = "resolve" /\ prep'.again = TRUE)
      PROVE  PrepInv'
  <2>1. prep.status # "ready" /\ ~prep.again
    BY <1>1 DEF PrepInv, PrepTyped, AgainPcs
  <2>2. PrepTyped'
    BY <1>1, <1>3, <2>1 DEF PrepInv, PrepTyped, AgainPcs
  <2>3. TaskDecided'
    BY <1>1, <1>3 DEF PrepInv, TaskDecided, DecidedPcs, FoundPcs
  <2>4. ResultGot'
    BY <1>1, <1>3 DEF PrepInv, ResultGot, FoundPcs, Pinnable, RivalKnown
  <2>5. TaskMoved' = TaskMoved /\ ConnectionMoved' = ConnectionMoved /\ Amiss' = Amiss
    BY <1>1, <1>3 DEF TaskMoved, ConnectionMoved, Amiss, Lost, Alive
  <2>6. prep.sound \/ TaskMoved \/ ConnectionMoved \/ Amiss
    BY <1>1 DEF PrepInv, PrepCaught, Rechecking
  <2>7. PrepCaught'
    BY <1>3, <2>5, <2>6 DEF PrepCaught
  <2> QED BY <1>3, <2>1, <2>2, <2>3, <2>4, <2>7 DEF PrepInv, ConnectionSeen, ReadyAnswersHeld
<1>4. \/ Fail
      \/ Kept /\ prep'.pc = "final" /\ prep'.again = prep.again
      \/ Kept /\ prep'.pc = "resolve" /\ prep'.again = TRUE
  BY <1>1 DEF FinalRecheck, PrepInv, PrepTyped
<1> QED BY <1>2, <1>3, <1>4

LEMMA PrepStepInv ==
  ASSUME WorldTyped, ResInv, PrepInv, PrepareStep, UNCHANGED worldVars
  PROVE  ResInv' /\ PrepInv'
<1>1. ASSUME UNCHANGED <<res, pinned>> PROVE ResInv'
  BY <1>1 DEF ResInv, RivalKnown, worldVars
<1>2. CASE \/ SearchSkills \/ ScanRecord \/ ConfirmRecord \/ RankLexically
           \/ EmbedDocuments \/ EmbedQuery \/ RankCandidates \/ RecheckCandidates
  <2>1. UNCHANGED <<res, pinned>>
    BY <1>2 DEF SearchSkills, ScanRecord, ConfirmRecord, RankLexically, EmbedDocuments, EmbedQuery, EmbedStep,
                RankCandidates, RecheckCandidates, Unresting
  <2> QED BY <1>1, <1>2, <2>1, EarlySteps
<1>3. CASE AdmitTask \/ ReadPackage \/ FetchContract \/ FinalRecheck
  <2>1. UNCHANGED <<res, pinned>>
    BY <1>3 DEF AdmitTask, ReadPackage, FetchContract, FinalRecheck, Unresting
  <2> QED BY <1>1, <1>3, <2>1, AdmitTaskInv, ReadPackageInv, FetchContractInv, FinalRecheckInv
<1>4. CASE ResolveBaseline \/ BaselineResolved \/ CheckReadiness \/ ConnectedResolved
  BY <1>4, ResolveBaselineInv, BaselineResolvedInv, CheckReadinessInv, ConnectedResolvedInv
<1> QED BY <1>2, <1>3, <1>4 DEF PrepareStep

-----------------------------------------------------------------------------
(* Composition. *)

CompTyped ==
  /\ {"pc", "fits", "todo", "found", "gen", "bundle", "again", "first", "until", "status", "sound"}
       \subseteq DOMAIN comp
  /\ comp.todo \in Seq(Artifacts)
  /\ comp.found \subseteq Bindings /\ (\A b \in comp.found: RivalKnown(b))
  /\ comp.bundle.binding \in Bindings \cup {"none"} /\ RivalKnown(comp.bundle.binding)
  /\ comp.pc = "tool" => \E b \in Bindings: comp.found = {b}
  /\ comp.again \in BOOLEAN /\ comp.first.until \in Nat
  /\ comp.status = "ready" => comp.pc = "answered"

\* What the second assembly has still to read before its lookup.
BundleLost(A) == \E a \in A: a \in ClosureOf(comp.bundle.binding) /\ Lost(a)
Selected(b) == b # "none" /\ comp.found = {b}

\* A bundle that did not hold when it was first accepted is not assembled a
\* second time: what was wrong with it is still to be read, or its binding is
\* not the one that was found.
CompCaught ==
  comp.again =>
    /\ comp.pc \in {"skill", "skill_again"} =>
         comp.sound \/ ~member \/ BundleLost({"skill", "cap", "bind", "rival", "tool", "prov"})
    /\ comp.pc = "capability" => comp.sound \/ BundleLost({"cap", "bind", "rival", "tool", "prov"})
    /\ comp.pc = "lookup" => comp.sound \/ BundleLost({"bind", "rival", "tool", "prov"})
    /\ comp.pc = "verify" =>
         \/ comp.sound
         \/ /\ comp.bundle.binding # "none"
            /\ Selected(comp.bundle.binding) => \E i \in DOMAIN comp.todo: comp.todo[i] \in Artifacts /\ Lost(comp.todo[i])
    /\ comp.pc = "tool" => comp.sound \/ comp.found # {comp.bundle.binding}
    /\ comp.pc = "check" => comp.sound

CompInv == CompTyped /\ CompCaught /\ ComposedAnswersHeld

LEMMA CompInitInv == ComposingInit => CompInv
<1> SUFFICES ASSUME NEW fits, comp = CompOf(fits) PROVE CompInv
  BY DEF ComposingInit
<1>1. /\ comp.pc = "skill" /\ comp.again = FALSE /\ comp.status = "none" /\ comp.found = {}
      /\ comp.todo = <<>> /\ comp.bundle.binding = "none" /\ comp.first.until = 0
  BY DEF CompOf, NoBundle, NoCheck
<1>2. {"pc", "fits", "todo", "found", "gen", "bundle", "again", "first", "until", "status", "sound"}
        \subseteq DOMAIN comp
  BY DEF CompOf
<1>3. CompTyped
  <2>1. RivalKnown("none") /\ "none" \in Bindings \cup {"none"} /\ 0 \in Nat /\ <<>> \in Seq(Artifacts)
    BY DEF RivalKnown
  <2>2. comp.again \in BOOLEAN /\ comp.pc # "tool" /\ comp.status # "ready"
    BY <1>1
  <2> QED BY <1>1, <1>2, <2>1, <2>2 DEF CompTyped
<1> QED BY <1>1, <1>3 DEF CompInv, CompCaught, ComposedAnswersHeld

LEMMA CompWorld ==
  ASSUME WorldTyped, CompInv, [WorldNext]_worldVars, UNCHANGED comp
  PROVE  CompInv'
<1>1. /\ \A a \in Artifacts: Lost(a) => Lost(a)'
      /\ \A b \in Bindings: RivalKnown(b) => RivalKnown(b)'
      /\ ~member => ~member'
  BY LostForGood
<1>2. RivalKnown("none")'
  BY DEF RivalKnown
<1>3. CompTyped'
  BY <1>1, <1>2 DEF CompInv, CompTyped
<1>4. ASSUME NEW A \in SUBSET Artifacts, BundleLost(A) PROVE BundleLost(A)'
  BY <1>1, <1>4 DEF BundleLost, ClosureOf
<1>5. /\ BundleLost({"skill", "cap", "bind", "rival", "tool", "prov"}) =>
           BundleLost({"skill", "cap", "bind", "rival", "tool", "prov"})'
      /\ BundleLost({"cap", "bind", "rival", "tool", "prov"}) => BundleLost({"cap", "bind", "rival", "tool", "prov"})'
      /\ BundleLost({"bind", "rival", "tool", "prov"}) => BundleLost({"bind", "rival", "tool", "prov"})'
  BY <1>4 DEF Artifacts
<1>6. CompCaught'
  BY <1>1, <1>5 DEF CompInv, CompCaught, Selected
<1> QED BY <1>3, <1>6 DEF CompInv, ComposedAnswersHeld

LEMMA BundleLostKept ==
  ASSUME UNCHANGED worldVars, comp'.bundle = comp.bundle, NEW A
  PROVE  BundleLost(A)' = BundleLost(A)
BY DEF worldVars, BundleLost, ClosureOf, Lost, Alive

\* A call that ends without a ready answer.
LEMMA CompEnds ==
  ASSUME CompInv, UNCHANGED worldVars, comp.pc # "answered",
         Broken \/ \E s: s # "ready" /\ Answered(s)
  PROVE  CompInv'
<1>1. UNCHANGED state
  BY DEF worldVars
<1>2. /\ DOMAIN comp' = DOMAIN comp /\ comp'.todo = comp.todo /\ comp'.found = comp.found
      /\ comp'.bundle = comp.bundle /\ comp'.again = comp.again /\ comp'.first = comp.first
      /\ \/ comp'.pc = "failed" /\ comp'.status = comp.status /\ comp.pc # "answered"
         \/ comp'.pc = "answered" /\ comp'.status # "ready"
  BY DEF CompInv, CompTyped, Broken, Answered
<1>3. comp'.status # "ready"
  BY <1>2 DEF CompInv, CompTyped
<1>4. CompTyped'
  BY <1>1, <1>2, <1>3 DEF CompInv, CompTyped, RivalKnown
<1>5. CompCaught' /\ ComposedAnswersHeld'
  BY <1>2, <1>3 DEF CompCaught, ComposedAnswersHeld
<1> QED BY <1>4, <1>5 DEF CompInv

\* A step that only moves on.
LEMMA CompMoves ==
  ASSUME CompInv, UNCHANGED worldVars, NEW pc, ThenRead(pc), pc # "answered", comp.pc # "answered",
         pc = "tool" => \E b \in Bindings: comp.found = {b}
  PROVE  /\ CompTyped' /\ ComposedAnswersHeld'
         /\ comp'.pc = pc /\ comp'.found = comp.found /\ comp'.bundle = comp.bundle /\ comp'.again = comp.again
         /\ comp'.sound = comp.sound /\ comp'.todo = comp.todo
<1>1. UNCHANGED state
  BY DEF worldVars
<1>2. /\ DOMAIN comp' = DOMAIN comp /\ comp'.found = comp.found /\ comp'.bundle = comp.bundle
      /\ comp'.again = comp.again /\ comp'.first = comp.first /\ comp'.status = comp.status
      /\ comp'.pc = pc /\ comp'.sound = comp.sound /\ comp'.todo = comp.todo
  BY DEF CompInv, CompTyped, ThenRead
<1>3. CompTyped'
  BY <1>1, <1>2 DEF CompInv, CompTyped, RivalKnown
<1> QED BY <1>2, <1>3 DEF ComposedAnswersHeld

LEMMA ComposeSkillInv ==
  ASSUME CompInv, ComposeSkill, UNCHANGED worldVars
  PROVE  CompInv'
<1>1. UNCHANGED <<state, member>> /\ comp.pc \in {"skill", "skill_again"}
  BY DEF worldVars, ComposeSkill
<1>2. CASE Broken
  BY <1>1, <1>2, CompEnds
<1>3. ASSUME Readable("skill"), NEW pc \in {"skill_again", "capability"}, ThenRead(pc) PROVE CompInv'
  <2>1. /\ CompTyped' /\ ComposedAnswersHeld'
        /\ comp'.pc = pc /\ comp'.bundle = comp.bundle /\ comp'.again = comp.again /\ comp'.sound = comp.sound
    BY <1>1, <1>3, CompMoves
  <2>2. member /\ Alive("skill")
    BY <1>3 DEF Readable
  <2>3. comp.again => comp.sound \/ BundleLost({"skill", "cap", "bind", "rival", "tool", "prov"})
    BY <1>1, <2>2 DEF CompInv, CompCaught
  <2>4. BundleLost({"skill", "cap", "bind", "rival", "tool", "prov"}) => BundleLost({"cap", "bind", "rival", "tool", "prov"})
    BY <2>2 DEF BundleLost, Lost
  <2>5. \A A: BundleLost(A)' = BundleLost(A)
    BY <2>1, BundleLostKept
  <2>6. CompCaught'
    BY <1>3, <2>1, <2>3, <2>4, <2>5 DEF CompCaught
  <2> QED BY <2>1, <2>6 DEF CompInv
<1> QED BY <1>1, <1>2, <1>3 DEF ComposeSkill

LEMMA ComposeCapabilityInv ==
  ASSUME CompInv, ComposeCapability, UNCHANGED worldVars
  PROVE  CompInv'
<1>1. UNCHANGED <<state, member>> /\ comp.pc = "capability"
  BY DEF worldVars, ComposeCapability
<1>2. CASE Broken
  BY <1>1, <1>2, CompEnds
<1>3. ASSUME Readable("cap"), ThenRead("lookup") PROVE CompInv'
  <2>1. /\ CompTyped' /\ ComposedAnswersHeld'
        /\ comp'.pc = "lookup" /\ comp'.bundle = comp.bundle /\ comp'.again = comp.again /\ comp'.sound = comp.sound
    BY <1>1, <1>3, CompMoves
  <2>2. Alive("cap")
    BY <1>3 DEF Readable
  <2>3. comp.again => comp.sound \/ BundleLost({"cap", "bind", "rival", "tool", "prov"})
    BY <1>1 DEF CompInv, CompCaught
  <2>4. BundleLost({"cap", "bind", "rival", "tool", "prov"}) => BundleLost({"bind", "rival", "tool", "prov"})
    BY <2>2 DEF BundleLost, Lost
  <2>5. \A A: BundleLost(A)' = BundleLost(A)
    BY <2>1, BundleLostKept
  <2>6. CompCaught'
    BY <2>1, <2>3, <2>4, <2>5 DEF CompCaught
  <2> QED BY <2>1, <2>6 DEF CompInv
<1> QED BY <1>2, <1>3 DEF ComposeCapability

\* The rows of the lookup, and what is read of them.
RowsToRead(rows) ==
  IF rows = {} THEN <<>>
  ELSE IF "rival" \in rows THEN <<"rival", "bind", "tool", "prov">>
  ELSE <<"bind", "tool", "prov">>

LEMMA RowsCover ==
  ASSUME NEW b \in Bindings, NEW a \in {b, "tool", "prov"}
  PROVE  \E i \in DOMAIN RowsToRead({b}): RowsToRead({b})[i] = a
<1>1. CASE b = "bind"
  <2>1. RowsToRead({b}) = <<"bind", "tool", "prov">>
    BY <1>1 DEF RowsToRead
  <2> QED BY <1>1, <2>1
<1>2. CASE b = "rival"
  <2>1. RowsToRead({b}) = <<"rival", "bind", "tool", "prov">>
    BY <1>2 DEF RowsToRead
  <2> QED BY <1>2, <2>1
<1> QED BY <1>1, <1>2 DEF Bindings

LEMMA LookupCandidatesInv ==
  ASSUME CompInv, LookupCandidates, UNCHANGED worldVars
  PROVE  CompInv'
<1>1. UNCHANGED <<state, member>> /\ comp.pc = "lookup" /\ comp.status # "ready"
  BY DEF worldVars, LookupCandidates, CompInv, CompTyped
<1>2. CASE Broken \/ Answered("incomplete_budget")
  BY <1>1, <1>2, CompEnds
<1>3. ASSUME NEW rows \in {{"bind"}, {b \in Bindings: Alive(b)}}, NEW g,
             comp' = [comp EXCEPT !.pc = "verify", !.found = rows, !.gen = g, !.todo = RowsToRead(rows)]
      PROVE  CompInv'
  <2>1. /\ comp'.pc = "verify" /\ comp'.found = rows /\ comp'.todo = RowsToRead(rows)
        /\ DOMAIN comp' = DOMAIN comp /\ comp'.bundle = comp.bundle /\ comp'.again = comp.again
        /\ comp'.first = comp.first /\ comp'.status = comp.status /\ comp'.sound = comp.sound
    BY <1>3 DEF CompInv, CompTyped
  <2>2. rows \subseteq Bindings /\ (\A b \in rows: RivalKnown(b)) /\ RowsToRead(rows) \in Seq(Artifacts)
    <3>1. rows \subseteq Bindings /\ (\A b \in rows: RivalKnown(b))
      BY DEF Bindings, RivalKnown, Alive
    <3>2. RowsToRead(rows) \in Seq(Artifacts)
      <4>1. RowsToRead(rows) \in {<<>>, <<"rival", "bind", "tool", "prov">>, <<"bind", "tool", "prov">>}
        BY DEF RowsToRead
      <4>2. "rival" \in Artifacts /\ "bind" \in Artifacts /\ "tool" \in Artifacts /\ "prov" \in Artifacts
        BY DEF Artifacts
      <4>3. /\ <<>> \in Seq(Artifacts) /\ <<"rival", "bind", "tool", "prov">> \in Seq(Artifacts)
            /\ <<"bind", "tool", "prov">> \in Seq(Artifacts)
        BY <4>2
      <4> QED BY <4>1, <4>3
    <3> QED BY <3>1, <3>2
  <2>3. CompTyped'
    BY <1>1, <2>1, <2>2 DEF CompInv, CompTyped, RivalKnown
  <2>4. ASSUME comp.again, ~comp.sound
        PROVE  /\ comp.bundle.binding # "none"
               /\ rows = {comp.bundle.binding} =>
                    \E i \in DOMAIN RowsToRead(rows): RowsToRead(rows)[i] \in Artifacts /\ Lost(RowsToRead(rows)[i])
    <3>1. PICK a \in {"bind", "rival", "tool", "prov"}: a \in ClosureOf(comp.bundle.binding) /\ Lost(a)
      BY <1>1, <2>4 DEF CompInv, CompCaught, BundleLost
    <3>2. comp.bundle.binding # "none" /\ a \in {comp.bundle.binding, "tool", "prov"}
      BY <3>1 DEF ClosureOf
    <3>3. comp.bundle.binding \in Bindings /\ a \in Artifacts
      BY <3>2 DEF CompInv, CompTyped, Artifacts
    <3>4. rows = {comp.bundle.binding} => \E i \in DOMAIN RowsToRead(rows): RowsToRead(rows)[i] = a
      BY <3>2, <3>3, RowsCover
    <3> QED BY <3>1, <3>2, <3>3, <3>4
  <2>5. \A a: Lost(a)' = Lost(a)
    BY <1>1 DEF Lost, Alive
  <2>6. CompCaught'
    <3>1. ASSUME comp.again
          PROVE  \/ comp.sound
                 \/ /\ comp.bundle.binding # "none"
                    /\ rows = {comp.bundle.binding} =>
                         \E i \in DOMAIN RowsToRead(rows):
                           RowsToRead(rows)[i] \in Artifacts /\ Lost(RowsToRead(rows)[i])'
      BY <2>4, <2>5, <3>1
    <3> QED BY <2>1, <3>1 DEF CompCaught, Selected
  <2>7. ComposedAnswersHeld'
    BY <2>1 DEF ComposedAnswersHeld
  <2> QED BY <2>3, <2>6, <2>7 DEF CompInv
<1> QED BY <1>2, <1>3 DEF LookupCandidates, RowsToRead

\* The bundle of the first pass is one that can be checked; that of the second
\* was already checked.
LEMMA BundleInv ==
  ASSUME CompInv, UNCHANGED worldVars, comp.pc # "answered", NEW b, Bundle(b),
         b.binding \in Bindings \cup {"none"}, RivalKnown(b.binding),
         comp.again /\ b = comp.bundle => comp.sound
  PROVE  CompInv'
<1>1. UNCHANGED state /\ comp.status # "ready"
  BY DEF worldVars, CompInv, CompTyped
<1>2. CASE comp.again /\ b = comp.bundle
  <2>1. ThenRead("check")
    BY <1>2 DEF Bundle
  <2>2. CompTyped' /\ ComposedAnswersHeld' /\ comp'.pc = "check" /\ comp'.sound = comp.sound
    BY <2>1, CompMoves
  <2> QED BY <1>2, <2>2 DEF CompInv, CompCaught
<1>3. CASE comp.again /\ b # comp.bundle
  <2>1. Answered("stale") /\ "stale" # "ready"
    BY <1>3 DEF Bundle
  <2> QED BY <2>1, CompEnds
<1>4. CASE ~comp.again
  <2>1. comp' = [comp EXCEPT !.pc = "check", !.bundle = b]
    BY <1>4 DEF Bundle
  <2>2. /\ comp'.pc = "check" /\ comp'.bundle = b /\ DOMAIN comp' = DOMAIN comp /\ comp'.todo = comp.todo
        /\ comp'.found = comp.found /\ comp'.again = comp.again /\ comp'.first = comp.first /\ comp'.status = comp.status
    BY <2>1 DEF CompInv, CompTyped
  <2>3. CompTyped'
    BY <1>1, <2>2 DEF CompInv, CompTyped, RivalKnown
  <2> QED BY <1>4, <2>2, <2>3 DEF CompInv, CompCaught, ComposedAnswersHeld
<1> QED BY <1>2, <1>3, <1>4

LEMMA LostInTail ==
  ASSUME NEW s \in Seq(Artifacts), s # <<>>, ~Lost(Head(s)),
         \E i \in DOMAIN s: s[i] \in Artifacts /\ Lost(s[i])
  PROVE  \E i \in DOMAIN Tail(s): Tail(s)[i] \in Artifacts /\ Lost(Tail(s)[i])
<1>1. PICK i \in 1..Len(s): Lost(s[i])
  OBVIOUS
<1>2. i # 1 /\ i - 1 \in DOMAIN Tail(s) /\ Tail(s)[i - 1] = s[i] /\ s[i] \in Artifacts
  BY <1>1
<1> QED BY <1>1, <1>2

LEMMA VerifyCandidatesInv ==
  ASSUME CompInv, VerifyCandidates, UNCHANGED worldVars
  PROVE  CompInv'
<1>1. UNCHANGED state /\ comp.pc = "verify" /\ comp.status # "ready"
  BY DEF worldVars, VerifyCandidates, CompInv, CompTyped
<1>2. CASE Broken \/ Answered("requires_connection") \/ Answered("requires_selection")
  BY <1>1, <1>2, CompEnds
<1>3. ASSUME comp.todo # <<>>, Readable(Head(comp.todo)), comp' = [comp EXCEPT !.todo = Tail(@)]
      PROVE  CompInv'
  <2>1. /\ comp'.pc = "verify" /\ comp'.found = comp.found /\ comp'.todo = Tail(comp.todo)
        /\ DOMAIN comp' = DOMAIN comp /\ comp'.bundle = comp.bundle /\ comp'.again = comp.again
        /\ comp'.first = comp.first /\ comp'.status = comp.status /\ comp'.sound = comp.sound
    BY <1>1, <1>3 DEF CompInv, CompTyped
  <2>2. comp.todo \in Seq(Artifacts) /\ Tail(comp.todo) \in Seq(Artifacts)
    BY <1>3 DEF CompInv, CompTyped
  <2>3. CompTyped'
    BY <1>1, <2>1, <2>2 DEF CompInv, CompTyped, RivalKnown
  <2>4. \A a: Lost(a)' = Lost(a)
    BY <1>1 DEF Lost, Alive
  <2>5. (\E i \in DOMAIN comp.todo: comp.todo[i] \in Artifacts /\ Lost(comp.todo[i])) =>
          \E i \in DOMAIN Tail(comp.todo): Tail(comp.todo)[i] \in Artifacts /\ Lost(Tail(comp.todo)[i])
    BY <1>3, <2>2, LostInTail DEF Readable, Lost
  <2>6. CompCaught'
    BY <1>1, <2>1, <2>4, <2>5 DEF CompInv, CompCaught, Selected
  <2> QED BY <2>1, <2>3, <2>6 DEF CompInv, ComposedAnswersHeld
<1>4. ASSUME comp.todo = <<>>, Bundle(NoBundle) PROVE CompInv'
  <2>1. NoBundle.binding = "none" /\ RivalKnown("none")
    BY DEF NoBundle, RivalKnown
  <2>2. comp.again /\ NoBundle = comp.bundle => comp.sound
    BY <1>1, <2>1 DEF CompInv, CompCaught
  <2> HIDE DEF NoBundle
  <2> QED BY <1>1, <1>4, <2>1, <2>2, BundleInv
<1>5. ASSUME comp.todo = <<>>, Cardinality(comp.found) = 1, ThenRead("tool") PROVE CompInv'
  <2>1. \E b \in Bindings: comp.found = {b}
    <3>1. comp.found \subseteq Bindings /\ IsFiniteSet(Bindings)
      <4>1. IsFiniteSet({} \cup {"bind"}) /\ IsFiniteSet(({} \cup {"bind"}) \cup {"rival"})
        BY FS_EmptySet, FS_AddElement
      <4>2. Bindings = ({} \cup {"bind"}) \cup {"rival"}
        BY DEF Bindings
      <4> QED BY <4>1, <4>2 DEF CompInv, CompTyped
    <3>2. IsFiniteSet(comp.found)
      BY <3>1, FS_Subset
    <3> QED BY <1>5, <3>1, <3>2, FS_Singleton
  <2>2. /\ CompTyped' /\ ComposedAnswersHeld'
        /\ comp'.pc = "tool" /\ comp'.found = comp.found /\ comp'.bundle = comp.bundle /\ comp'.again = comp.again
        /\ comp'.sound = comp.sound
    BY <1>1, <1>5, <2>1, CompMoves
  <2>3. comp.again => comp.sound \/ comp.found # {comp.bundle.binding}
    BY <1>1, <1>5 DEF CompInv, CompCaught, Selected
  <2> QED BY <2>2, <2>3 DEF CompInv, CompCaught
<1> QED BY <1>1, <1>2, <1>3, <1>4, <1>5 DEF VerifyCandidates

LEMMA ReadToolSchemasInv ==
  ASSUME CompInv, ReadToolSchemas, UNCHANGED worldVars
  PROVE  CompInv'
<1>1. comp.pc = "tool"
  BY DEF ReadToolSchemas
<1>2. CASE Broken
  BY <1>1, <1>2, CompEnds
<1>3. PICK b \in Bindings: comp.found = {b}
  BY <1>1 DEF CompInv, CompTyped
<1>4. (CHOOSE c \in comp.found: TRUE) = b /\ RivalKnown(b)
  BY <1>3 DEF CompInv, CompTyped
<1>5. ASSUME NEW w, w.binding = b, Bundle(w) PROVE CompInv'
  <2>1. comp.again /\ w = comp.bundle => comp.sound
    BY <1>1, <1>3, <1>5 DEF CompInv, CompCaught
  <2>2. w.binding \in Bindings \cup {"none"} /\ RivalKnown(w.binding)
    BY <1>4, <1>5
  <2> QED BY <1>1, <1>5, <2>1, <2>2, BundleInv
<1>6. CASE Bundle([binding |-> b, gen |-> comp.gen])
  <2>1. [binding |-> b, gen |-> comp.gen].binding = b
    OBVIOUS
  <2> QED BY <1>5, <1>6, <2>1
<1> QED BY <1>2, <1>4, <1>6 DEF ReadToolSchemas

\* The authority's first answer: whatever of the bundle does not hold then is
\* lost by then.
LEMMA CheckFirstInv ==
  ASSUME WorldTyped, CompInv, CheckFirst, UNCHANGED worldVars
  PROVE  CompInv'
<1>1. UNCHANGED <<state, member>> /\ comp.pc = "check" /\ comp.status # "ready"
  BY DEF worldVars, CheckFirst, CompInv, CompTyped
<1>2. CASE Broken \/ Answered("stale") \/ Answered("denied")
  BY <1>1, <1>2, CompEnds
<1>3. ASSUME NEW w \in 1..2,
             comp' = [comp EXCEPT !.pc = "skill", !.again = TRUE, !.first = Decision(w), !.sound = BundleHolds]
      PROVE  CompInv'
  <2>1. /\ comp'.pc = "skill" /\ comp'.again = TRUE /\ comp'.first = Decision(w) /\ comp'.sound = BundleHolds
        /\ DOMAIN comp' = DOMAIN comp /\ comp'.todo = comp.todo /\ comp'.found = comp.found
        /\ comp'.bundle = comp.bundle
        /\ comp'.status = comp.status
    BY <1>3 DEF CompInv, CompTyped
  <2>2. Decision(w).until \in Nat
    BY DEF Decision, WorldTyped
  <2>3. CompTyped'
    BY <1>1, <2>1, <2>2 DEF CompInv, CompTyped, RivalKnown
  <2>4. BundleHolds \/ ~member \/ BundleLost({"skill", "cap", "bind", "rival", "tool", "prov"})
    <3>1. SUFFICES ASSUME member, NEW a \in ClosureOf(comp.bundle.binding), ~Alive(a)
                   PROVE  BundleLost({"skill", "cap", "bind", "rival", "tool", "prov"})
      BY DEF BundleHolds
    <3>2. a \in {"skill", "cap", "bind", "rival", "tool", "prov"} /\ RivalKnown(a)
      BY DEF ClosureOf, CompInv, CompTyped, Bindings, RivalKnown
    <3>3. a \in Artifacts
      BY <3>2 DEF Artifacts
    <3>4. Lost(a)
      BY <3>1, <3>2, <3>3, AliveOrLost
    <3> QED BY <3>1, <3>2, <3>4 DEF BundleLost
  <2>5. \A A: BundleLost(A)' = BundleLost(A)
    BY <2>1, BundleLostKept
  <2>6. CompCaught' /\ ComposedAnswersHeld'
    BY <1>1, <2>1, <2>4, <2>5 DEF CompCaught, ComposedAnswersHeld
  <2> QED BY <2>3, <2>6 DEF CompInv
<1> QED BY <1>2, <1>3 DEF CheckFirst

LEMMA MinOfTwo ==
  ASSUME NEW x \in Nat, NEW y \in Nat
  PROVE  Min({x, y}) <= x
<1>1. \E m \in {x, y}: \A n \in {x, y}: n >= m
  OBVIOUS
<1>2. Min({x, y}) \in {x, y} /\ \A n \in {x, y}: n >= Min({x, y})
  BY <1>1 DEF Min
<1> QED BY <1>2

LEMMA CheckFinalInv ==
  ASSUME WorldTyped, CompInv, CheckFinal, UNCHANGED worldVars
  PROVE  CompInv'
<1>1. UNCHANGED state /\ comp.pc = "check" /\ comp.again /\ comp.sound
  BY DEF worldVars, CheckFinal, CompInv, CompCaught
<1>2. CASE Broken \/ Answered("stale") \/ Answered("denied")
  BY <1>1, <1>2, CompEnds
<1>3. ASSUME NEW w \in 1..2,
             comp' = [comp EXCEPT !.pc = "answered",
                                  !.status = IF comp.fits THEN "ready" ELSE "budget_exceeded",
                                  !.until = Min({comp.first.until, Decision(w).until})]
      PROVE  CompInv'
  <2>1. /\ comp'.pc = "answered" /\ comp'.until = Min({comp.first.until, Decision(w).until})
        /\ DOMAIN comp' = DOMAIN comp /\ comp'.todo = comp.todo /\ comp'.found = comp.found
        /\ comp'.bundle = comp.bundle
        /\ comp'.again = comp.again /\ comp'.first = comp.first /\ comp'.sound = comp.sound
    BY <1>3 DEF CompInv, CompTyped
  <2>2. Decision(w).until \in Nat /\ comp.first.until \in Nat
    BY DEF Decision, WorldTyped, CompInv, CompTyped
  <2>3. comp'.until <= comp.first.until
    BY <2>1, <2>2, MinOfTwo
  <2>4. CompTyped'
    BY <1>1, <2>1 DEF CompInv, CompTyped, RivalKnown
  <2>5. CompCaught' /\ ComposedAnswersHeld'
    BY <1>1, <2>1, <2>3 DEF CompCaught, ComposedAnswersHeld
  <2> QED BY <2>4, <2>5 DEF CompInv
<1> QED BY <1>2, <1>3 DEF CheckFinal

-----------------------------------------------------------------------------
(* Both services at work in one world. *)

ServicesInv == WorldTyped /\ ResInv /\ PrepInv /\ CompInv

LEMMA ServicesInitInv == ServicesInit => ServicesInv
<1> SUFFICES ASSUME ServicesInit PROVE ServicesInv
  OBVIOUS
<1>1. WorldTyped
  BY DEF ServicesInit, WorldInit, WorldTyped, States
<1>2. ResInv
  BY DEF ServicesInit, ResolutionInit, ResInv, Resting, Bindings, RivalKnown
<1> QED BY <1>1, <1>2, PrepInitInv, CompInitInv DEF ServicesInit, ServicesInv

LEMMA ServicesStepInv ==
  ASSUME ServicesInv, [ServicesNext]_servicesVars
  PROVE  ServicesInv'
<1> USE DEF ServicesInv
<1>1. ASSUME [WorldNext]_worldVars, UNCHANGED <<resVars, prep, comp>> PROVE ServicesInv'
  <2>1. UNCHANGED <<res, pinned, prep, comp>>
    BY <1>1 DEF resVars
  <2>2. WorldTyped'
    BY <1>1, LostForGood
  <2>3. ResInv'
    BY <1>1, <2>1, LostForGood DEF ResInv
  <2> QED BY <1>1, <2>1, <2>2, <2>3, PrepWorld, CompWorld
<1>2. CASE ResolverMoves
  <2>1. ResolveStep /\ UNCHANGED worldVars /\ UNCHANGED prep /\ UNCHANGED comp
    BY <1>2 DEF ResolverMoves
  <2>2. Pinnable([closure |-> <<>>].closure)
    BY DEF Pinnable, Bindings, RivalKnown
  <2>3. ResInv'
    BY <2>1, <2>2, ResolveFacts
  <2>4. WorldTyped'
    BY <2>1 DEF worldVars, WorldTyped
  <2>5. CompInv'
    BY <2>1, CompWorld
  <2> QED BY <2>1, <2>3, <2>4, <2>5, PrepResolver
<1>3. CASE PreparationMoves
  <2>1. PrepareStep /\ UNCHANGED worldVars /\ UNCHANGED comp
    BY <1>3 DEF PreparationMoves
  <2>2. WorldTyped'
    BY <2>1 DEF worldVars, WorldTyped
  <2>3. CompInv'
    BY <2>1, CompWorld
  <2> QED BY <2>1, <2>2, <2>3, PrepStepInv
<1>4. CASE ComposingMoves
  <2>1. ComposeStep /\ UNCHANGED worldVars /\ UNCHANGED <<shape, res, pinned>> /\ UNCHANGED prep
    BY <1>4 DEF ComposingMoves, resVars
  <2>2. WorldTyped'
    BY <2>1 DEF worldVars, WorldTyped
  <2>3. CompInv'
    BY <2>1, ComposeSkillInv, ComposeCapabilityInv, LookupCandidatesInv, VerifyCandidatesInv, ReadToolSchemasInv,
       CheckFirstInv, CheckFinalInv DEF ComposeStep
  <2>4. ResInv'
    BY <2>1 DEF ResInv, RivalKnown, worldVars
  <2>5. PrepInv'
    BY <2>1, PrepWorld
  <2> QED BY <2>2, <2>3, <2>4, <2>5
<1>5. CASE UNCHANGED servicesVars
  BY <1>1, <1>5 DEF servicesVars
<1>6. CASE WorldMoves
  BY <1>1, <1>6 DEF WorldMoves
<1> QED BY <1>2, <1>3, <1>4, <1>5, <1>6 DEF ServicesNext

\* A ready preparation and a ready composition were true at one instant
\* within their call, however policy, artifacts, connection, task and clock
\* move in between (Service.Prepare with resolveCurrent and admitTask in
\* preparation; the second assembly and the second check in composition).
THEOREM PreparedFactsStayHeld == ServicesSpec => []PreparedFactsHeld
<1>1. ServicesInv => PreparedFactsHeld
  BY DEF ServicesInv, PrepInv, CompInv, PreparedFactsHeld
<1> QED BY <1>1, ServicesInitInv, ServicesStepInv, PTL DEF ServicesSpec

-----------------------------------------------------------------------------
(* Schemas.                                                                *)

\* Every non-empty set of naturals has a least member.
LEMMA LeastExists ==
  ASSUME NEW S \in SUBSET Nat, S # {}
  PROVE  \E x \in S: \A y \in S: x <= y
<1> DEFINE Less == {p \in Nat \X Nat: p[1] < p[2]}
<1>1. IsWellFoundedOn(Less, Nat)
  BY NatLessThanWellFounded DEF OpToRel
<1>2. PICK x \in S: \A y \in S: ~(<<y, x>> \in Less)
  <2> HIDE DEF Less
  <2> QED BY <1>1, WFMin
<1>3. \A y \in S: ~(y < x)
  BY <1>2
<1> QED BY <1>3

\* What holds of zero and goes up by one holds up to any bound.
LEMMA Climb ==
  ASSUME NEW N \in Nat, NEW G, 0 \in G, \A n \in 1..N: n - 1 \in G => n \in G
  PROVE  0..N \subseteq G
<1> DEFINE Out == {n \in 0..N: n \notin G}
<1>1. SUFFICES ASSUME Out # {} PROVE FALSE
  OBVIOUS
<1>2. Out \in SUBSET Nat
  OBVIOUS
<1>3. PICK m \in Out: \A x \in Out: m <= x
  <2> HIDE DEF Out
  <2> QED BY <1>1, <1>2, LeastExists
<1>4. m \in 1..N /\ m - 1 \in 0..N /\ ~(m <= m - 1) /\ m \notin G
  BY <1>3
<1> QED BY <1>3, <1>4

\* The levels below two schemas, or a schema and a value, are what their
\* definition says.
LEMMA LevelsFacts ==
  ASSUME NEW kind, NEW a, NEW b
  PROVE  /\ Levels(kind, a, b)[0] = {<<a, b>>}
         /\ \A n \in 1..(MaxDepth + 1):
              Levels(kind, a, b)[n] = UNION {Below(kind, p): p \in Levels(kind, a, b)[n - 1]}
<1> DEFINE N == MaxDepth + 1
           Down(L) == UNION {Below(kind, p): p \in L}
           Is(f, m) == f = [n \in 0..m |-> IF n = 0 THEN {<<a, b>>} ELSE Down(f[n - 1])]
           Good(m) == \E f: Is(f, m)
           Bad == {m \in 0..N: ~Good(m)}
<1>1. N \in Nat
  BY SchemaAssumption
<1>2. Levels(kind, a, b) = CHOOSE f: Is(f, N)
  BY DEF Levels
<1> HIDE DEF Down, N
<1>3. Good(0)
  <2> DEFINE z == [n \in 0..0 |-> {<<a, b>>}]
  <2>1. Is(z, 0)
    OBVIOUS
  <2> HIDE DEF z, Is
  <2> QED BY <2>1
<1>4. ASSUME NEW m \in 1..N, Good(m - 1) PROVE Good(m)
  <2>1. PICK f: Is(f, m - 1)
    BY <1>4
  <2> DEFINE g == [n \in 0..m |-> IF n = m THEN Down(f[m - 1]) ELSE f[n]]
  <2>2. m \in Nat /\ m - 1 \in Nat
    BY <1>1
  <2>3. ASSUME NEW n \in 0..m PROVE g[n] = IF n = 0 THEN {<<a, b>>} ELSE Down(g[n - 1])
    <3>1. CASE n = m
      <4>1. m - 1 \in 0..m /\ m - 1 # m /\ m \in 0..m /\ n # 0
        BY <2>2, <3>1
      <4>2. g[m] = Down(f[m - 1]) /\ g[m - 1] = f[m - 1]
        BY <4>1
      <4> QED BY <3>1, <4>1, <4>2
    <3>2. CASE n # m
      <4>1. n \in 0..(m - 1) /\ (n = 0 \/ (n - 1 \in 0..m /\ n - 1 # m))
        BY <2>2, <3>2
      <4>2. f[n] = IF n = 0 THEN {<<a, b>>} ELSE Down(f[n - 1])
        BY <2>1, <4>1
      <4>3. g[n] = f[n] /\ (n # 0 => g[n - 1] = f[n - 1])
        BY <3>2, <4>1
      <4> QED BY <4>2, <4>3
    <3> QED BY <3>1, <3>2
  <2>4. g = [n \in 0..m |-> g[n]]
    OBVIOUS
  <2> HIDE DEF g
  <2>5. Is(g, m)
    BY <2>3, <2>4
  <2> HIDE DEF Is
  <2> QED BY <2>5
<1>5. Good(N)
  <2> HIDE DEF Good
  <2>1. SUFFICES ASSUME Bad # {} PROVE FALSE
    BY <1>1
  <2>2. Bad \in SUBSET Nat
    BY <1>1
  <2>3. PICK m \in Bad: \A x \in Bad: m <= x
    <3> HIDE DEF Bad
    <3> QED BY <2>1, <2>2, LeastExists
  <2>4. m \in 0..N /\ ~Good(m)
    BY <2>3
  <2>5. m \in 1..N /\ m - 1 \in 0..N /\ ~(m <= m - 1)
    BY <1>1, <1>3, <2>4
  <2>6. Good(m - 1)
    BY <2>3, <2>5
  <2> QED BY <1>4, <2>4, <2>5, <2>6
<1>6. Is(Levels(kind, a, b), N)
  <2> HIDE DEF Is
  <2> QED BY <1>2, <1>5
<1>7. \A n \in 1..N: n \in 0..N /\ n # 0
  BY <1>1
<1>8. 0 \in 0..N
  BY <1>1
<1> DEFINE L == Levels(kind, a, b)
<1>9. \A n \in 0..N: L[n] = IF n = 0 THEN {<<a, b>>} ELSE Down(L[n - 1])
  BY <1>6
<1>10. L[0] = {<<a, b>>} /\ \A n \in 1..N: L[n] = Down(L[n - 1])
  <2> HIDE DEF L
  <2> QED BY <1>7, <1>8, <1>9
<1> QED BY <1>10 DEF Down, N

\* A pointer is followed one name at a time.
PointsOn(x, name) == IF x.type = "object" /\ name \in x.req THEN x.props[name] ELSE NoSchema

Follows(at, s, path) ==
  at[0] = s /\ \A n \in 1..Len(path): at[n] = PointsOn(at[n - 1], path[n])

LEMMA SchemaAtFacts ==
  ASSUME NEW s, NEW path, Len(path) \in Nat
  PROVE  \E at: Follows(at, s, path) /\ SchemaAt(s, path) = at[Len(path)]
<1> DEFINE N == Len(path)
           Is(f, m) == f = [n \in 0..m |-> IF n = 0 THEN s ELSE PointsOn(f[n - 1], path[n])]
           Good(m) == \E f: Is(f, m)
           Bad == {m \in 0..N: ~Good(m)}
           L == CHOOSE f: Is(f, N)
<1>1. N \in Nat
  OBVIOUS
<1>2. SchemaAt(s, path) = L[N]
  BY DEF SchemaAt, PointsOn
<1> HIDE DEF N
<1>3. Good(0)
  <2> DEFINE z == [n \in 0..0 |-> s]
  <2>1. Is(z, 0)
    OBVIOUS
  <2> HIDE DEF z, Is
  <2> QED BY <2>1
<1>4. ASSUME NEW m \in 1..N, Good(m - 1) PROVE Good(m)
  <2>1. PICK f: Is(f, m - 1)
    BY <1>4
  <2> DEFINE g == [n \in 0..m |-> IF n = m THEN PointsOn(f[m - 1], path[m]) ELSE f[n]]
  <2>2. m \in Nat /\ m - 1 \in Nat
    BY <1>1
  <2>3. ASSUME NEW n \in 0..m PROVE g[n] = IF n = 0 THEN s ELSE PointsOn(g[n - 1], path[n])
    <3>1. CASE n = m
      <4>1. m - 1 \in 0..m /\ m - 1 # m /\ m \in 0..m /\ n # 0
        BY <2>2, <3>1
      <4>2. g[m] = PointsOn(f[m - 1], path[m]) /\ g[m - 1] = f[m - 1]
        BY <4>1
      <4> QED BY <3>1, <4>1, <4>2
    <3>2. CASE n # m
      <4>1. n \in 0..(m - 1) /\ (n = 0 \/ (n - 1 \in 0..m /\ n - 1 # m))
        BY <2>2, <3>2
      <4>2. f[n] = IF n = 0 THEN s ELSE PointsOn(f[n - 1], path[n])
        BY <2>1, <4>1
      <4>3. g[n] = f[n] /\ (n # 0 => g[n - 1] = f[n - 1])
        BY <3>2, <4>1
      <4> QED BY <4>2, <4>3
    <3> QED BY <3>1, <3>2
  <2>4. g = [n \in 0..m |-> g[n]]
    OBVIOUS
  <2> HIDE DEF g
  <2>5. Is(g, m)
    BY <2>3, <2>4
  <2> HIDE DEF Is
  <2> QED BY <2>5
<1>5. Good(N)
  <2> HIDE DEF Good
  <2>1. SUFFICES ASSUME Bad # {} PROVE FALSE
    BY <1>1
  <2>2. Bad \in SUBSET Nat
    BY <1>1
  <2>3. PICK m \in Bad: \A x \in Bad: m <= x
    <3> HIDE DEF Bad
    <3> QED BY <2>1, <2>2, LeastExists
  <2>4. m \in 0..N /\ ~Good(m)
    BY <2>3
  <2>5. m \in 1..N /\ m - 1 \in 0..N /\ ~(m <= m - 1)
    BY <1>1, <1>3, <2>4
  <2>6. Good(m - 1)
    BY <2>3, <2>5
  <2> QED BY <1>4, <2>4, <2>5, <2>6
<1>6. Is(L, N)
  <2> HIDE DEF Is
  <2> QED BY <1>5
<1>7. \A n \in 0..N: L[n] = IF n = 0 THEN s ELSE PointsOn(L[n - 1], path[n])
  BY <1>6
<1>8. L[0] = s /\ \A n \in 1..N: L[n] = PointsOn(L[n - 1], path[n])
  <2>1. 0 \in 0..N /\ \A n \in 1..N: n \in 0..N /\ n # 0
    BY <1>1
  <2> HIDE DEF L
  <2> QED BY <1>7, <2>1
<1> HIDE DEF L
<1>9. Follows(L, s, path) /\ SchemaAt(s, path) = L[Len(path)]
  BY <1>2, <1>8 DEF N, Follows
<1> HIDE DEF N
<1> QED BY <1>9

\* A valid schema has the keywords of its type, and agrees with itself.
LEMMA ValidPlace ==
  ASSUME NEW x, KeywordsValid(x)
  PROVE  /\ Agrees(x, x)
         /\ x.type \in {"object", "array"} \cup {"string"} \cup Scalars
         /\ x.type = "object" => x.req \subseteq DOMAIN x.props
         /\ x.type = "array" => x.max \in 1..MaxArrayBound
         /\ x.type = "string" => x.max \in 1..MaxStringBound
<1>1. x.type \in {"string", "array"} => x.max \in Int
  BY SchemaAssumption DEF KeywordsValid, Scalars
<1> QED BY <1>1 DEF KeywordsValid, Agrees, Scalars

LEMMA PartsBelow ==
  ASSUME NEW x, NEW y, NEW kind, Meets(kind, <<x, y>>),
         NEW k \in DOMAIN Parts("schema", x) \cap DOMAIN Parts(kind, y)
  PROVE  <<Parts("schema", x)[k], Parts(kind, y)[k]>> \in Below(kind, <<x, y>>)
BY DEF Below

LEMMA BelowParts ==
  ASSUME NEW p, NEW kind, NEW q \in Below(kind, p)
  PROVE  /\ Meets(kind, p)
         /\ \E k \in DOMAIN Parts("schema", p[1]) \cap DOMAIN Parts(kind, p[2]):
              q = <<Parts("schema", p[1])[k], Parts(kind, p[2])[k]>>
BY DEF Below

LEMMA RootIsValid ==
  ASSUME NEW s, SchemaValid(s)
  PROVE  KeywordsValid(s)
<1>1. 0 \in 0..MaxDepth /\ <<s, s>> \in Levels("schema", s, s)[0]
  BY LevelsFacts, SchemaAssumption
<1> QED BY <1>1 DEF SchemaValid

\* The parts of a valid schema are valid: their levels are among its own,
\* one further down.
LEMMA PartsAreValid ==
  ASSUME NEW s, SchemaValid(s), NEW k \in DOMAIN Parts("schema", s)
  PROVE  SchemaValid(Parts("schema", s)[k])
<1> DEFINE c == Parts("schema", s)[k]
           G == {n \in 0..MaxDepth: Levels("schema", c, c)[n] \subseteq Levels("schema", s, s)[n + 1]}
<1>1. MaxDepth \in Nat
  BY SchemaAssumption
<1>2. /\ Levels("schema", s, s)[0] = {<<s, s>>}
      /\ \A n \in 1..(MaxDepth + 1):
           Levels("schema", s, s)[n] = UNION {Below("schema", p): p \in Levels("schema", s, s)[n - 1]}
  BY LevelsFacts
<1>3. /\ Levels("schema", c, c)[0] = {<<c, c>>}
      /\ \A n \in 1..(MaxDepth + 1):
           Levels("schema", c, c)[n] = UNION {Below("schema", p): p \in Levels("schema", c, c)[n - 1]}
  BY LevelsFacts
<1>4. <<c, c>> \in Below("schema", <<s, s>>)
  <2>1. Meets("schema", <<s, s>>)
    BY RootIsValid, ValidPlace DEF Meets
  <2> QED BY <2>1, PartsBelow
<1> HIDE DEF c
<1>5. 0 \in G
  <2>1. Levels("schema", s, s)[1] = UNION {Below("schema", p): p \in Levels("schema", s, s)[0]}
    BY <1>1, <1>2
  <2> QED BY <1>1, <1>2, <1>3, <1>4, <2>1
<1>6. ASSUME NEW n \in 1..MaxDepth, n - 1 \in G PROVE n \in G
  <2>1. n \in 1..(MaxDepth + 1) /\ n + 1 \in 1..(MaxDepth + 1) /\ (n + 1) - 1 = n /\ (n - 1) + 1 = n
    BY <1>1
  <2>2. Levels("schema", c, c)[n - 1] \subseteq Levels("schema", s, s)[n]
    BY <1>6, <2>1
  <2>3. Levels("schema", s, s)[n + 1] = UNION {Below("schema", p): p \in Levels("schema", s, s)[n]}
    BY <1>2, <2>1
  <2>4. Levels("schema", c, c)[n] = UNION {Below("schema", p): p \in Levels("schema", c, c)[n - 1]}
    BY <1>3, <2>1
  <2>5. n \in 0..MaxDepth
    BY <1>1
  <2> QED BY <2>2, <2>3, <2>4, <2>5
<1>7. 0..MaxDepth \subseteq G
  <2> HIDE DEF G
  <2> QED BY <1>1, <1>5, <1>6, Climb
<1>8. ASSUME NEW n \in 0..MaxDepth, NEW p \in Levels("schema", c, c)[n] PROVE KeywordsValid(p[1])
  <2>1. p \in Levels("schema", s, s)[n + 1]
    BY <1>7
  <2>2. n + 1 \in 0..MaxDepth \/ n + 1 = MaxDepth + 1
    BY <1>1
  <2> QED BY <2>1, <2>2 DEF SchemaValid
<1>9. Levels("schema", c, c)[MaxDepth + 1] = {}
  <2>1. MaxDepth \in 0..MaxDepth /\ MaxDepth + 1 \in 1..(MaxDepth + 1) /\ (MaxDepth + 1) - 1 = MaxDepth
    BY <1>1
  <2>2. Levels("schema", c, c)[MaxDepth] = {}
    BY <1>7, <2>1 DEF SchemaValid
  <2>3. Levels("schema", c, c)[MaxDepth + 1] = UNION {Below("schema", p): p \in Levels("schema", c, c)[MaxDepth]}
    BY <1>3, <2>1
  <2> QED BY <2>2, <2>3
<1> QED BY <1>8, <1>9 DEF SchemaValid, c

LEMMA ObjectParts ==
  ASSUME NEW s, s.type = "object"
  PROVE  Parts("schema", s) = s.props
BY DEF Parts

LEMMA ArrayParts ==
  ASSUME NEW s, s.type = "array"
  PROVE  Parts("schema", s) = [i \in 1..s.max |-> s.items]
BY DEF Parts

LEMMA ItemsAreValid ==
  ASSUME NEW s, SchemaValid(s), s.type = "array"
  PROVE  SchemaValid(s.items) /\ s.max \in 1..MaxArrayBound
<1>1. s.max \in 1..MaxArrayBound
  BY RootIsValid, ValidPlace
<1>2. 1 \in 1..s.max
  BY <1>1, SchemaAssumption
<1>3. 1 \in DOMAIN Parts("schema", s) /\ Parts("schema", s)[1] = s.items
  BY <1>2, ArrayParts
<1> QED BY <1>1, <1>3, PartsAreValid

\* What a pointer reaches in a valid schema is valid, or nothing.
LEMMA ReachedIsValid ==
  ASSUME NEW s, SchemaValid(s), NEW path, Len(path) \in Nat
  PROVE  SchemaAt(s, path) = NoSchema \/ SchemaValid(SchemaAt(s, path))
<1> DEFINE N == Len(path)
<1>0. PICK at: Follows(at, s, path) /\ SchemaAt(s, path) = at[Len(path)]
  BY SchemaAtFacts
<1>1. /\ at[0] = s /\ SchemaAt(s, path) = at[N]
      /\ \A n \in 1..N: at[n] = PointsOn(at[n - 1], path[n])
  BY <1>0 DEF Follows
<1> DEFINE G == {n \in 0..N: at[n] = NoSchema \/ SchemaValid(at[n])}
<1>2. N \in Nat
  OBVIOUS
<1> HIDE DEF N
<1>3. 0 \in G
  BY <1>1, <1>2
<1>4. ASSUME NEW n \in 1..N, n - 1 \in G PROVE n \in G
  <2> DEFINE x == at[n - 1]
  <2>1. at[n] = PointsOn(x, path[n]) /\ n \in 0..N
    BY <1>1, <1>2
  <2>2. x = NoSchema \/ SchemaValid(x)
    BY <1>4
  <2> HIDE DEF x
  <2>3. CASE x = NoSchema
    BY <2>1, <2>3 DEF NoSchema, PointsOn
  <2>4. CASE SchemaValid(x) /\ x.type = "object" /\ path[n] \in x.req
    <3>1. path[n] \in DOMAIN x.props
      BY <2>4, RootIsValid, ValidPlace
    <3>2. SchemaValid(x.props[path[n]])
      BY <2>4, <3>1, PartsAreValid, ObjectParts
    <3> QED BY <2>1, <2>4, <3>2 DEF PointsOn
  <2> QED BY <2>1, <2>2, <2>3, <2>4 DEF PointsOn
<1>5. 0..N \subseteq G
  <2> HIDE DEF G
  <2> QED BY <1>2, <1>3, <1>4, Climb
<1>6. N \in 0..N
  BY <1>2
<1> QED BY <1>1, <1>5, <1>6

\* Where a schema agrees with another, a value of it is one of the other.
LEMMA AgreedHolds ==
  ASSUME NEW x, NEW t, NEW w, KeywordsValid(x), KeywordsValid(t), Agrees(x, t), Holds(x, w)
  PROVE  /\ Holds(t, w)
         /\ \A k \in DOMAIN Parts("schema", t) \cap DOMAIN Parts("value", w): k \in DOMAIN Parts("schema", x)
<1>1. x.type = t.type /\ (x.type = "string" => x.max <= t.max) /\ (x.type = "array" => x.max <= t.max)
  BY DEF Agrees
<1>2. x.type \in {"string", "array"} => x.max \in Int /\ t.max \in Int
  BY <1>1, ValidPlace, SchemaAssumption
<1>3. CASE x.type = "object"
  BY <1>1, <1>3, ValidPlace DEF Agrees, Holds, Parts
<1>4. CASE x.type = "array"
  <2>1. w.is = "array" /\ DOMAIN w.of \subseteq 1..x.max
    BY <1>4 DEF Holds
  <2>2. 1..x.max \subseteq 1..t.max
    BY <1>1, <1>2, <1>4
  <2>3. Holds(t, w)
    BY <1>1, <1>4, <2>1, <2>2 DEF Holds
  <2>4. DOMAIN Parts("schema", x) = 1..x.max /\ Parts("value", w) = w.of
    BY <1>4, <2>1 DEF Parts
  <2> QED BY <2>1, <2>3, <2>4
<1>5. CASE x.type = "string"
  <2>1. w.is = "string" /\ w.n \in 0..x.max
    BY <1>5 DEF Holds
  <2>2. 0..x.max \subseteq 0..t.max
    BY <1>1, <1>2, <1>5
  <2>3. Holds(t, w)
    BY <1>1, <1>5, <2>1, <2>2 DEF Holds
  <2>4. Parts("schema", t) = <<>>
    BY <1>1, <1>5 DEF Parts
  <2> QED BY <2>3, <2>4
<1>6. CASE x.type \in Scalars
  <2>1. Holds(t, w)
    BY <1>1, <1>6 DEF Holds, Scalars
  <2>2. Parts("schema", t) = <<>>
    BY <1>1, <1>6 DEF Parts, Scalars
  <2> QED BY <2>1, <2>2
<1> QED BY <1>3, <1>4, <1>5, <1>6, ValidPlace

\* assignable is sound: it takes the values of one schema to values of the
\* other.
LEMMA AssignableIsSound ==
  ASSUME NEW src, NEW dst, NEW v, SchemaValid(src), SchemaValid(dst), Assignable(src, dst), ValueOk(src, v)
  PROVE  ValueOk(dst, v)
<1> DEFINE Own(a) == Levels("schema", a, a)
           Pair == Levels("schema", src, dst)
           Has == Levels("value", src, v)
           Gets == Levels("value", dst, v)
           Matched(n, t, w) == \E x: /\ <<x, w>> \in Has[n] /\ <<x, t>> \in Pair[n]
                                     /\ <<x, x>> \in Own(src)[n] /\ <<t, t>> \in Own(dst)[n]
           G == {n \in 0..MaxDepth: \A p \in Gets[n]: p = <<p[1], p[2]>> /\ Matched(n, p[1], p[2])}
<1>1. MaxDepth \in Nat /\ \A n \in 1..MaxDepth: n \in 1..(MaxDepth + 1) /\ n - 1 \in 0..MaxDepth /\ n \in 0..MaxDepth
  BY SchemaAssumption
<1>2. /\ Gets[0] = {<<dst, v>>} /\ Has[0] = {<<src, v>>} /\ Pair[0] = {<<src, dst>>}
      /\ Own(src)[0] = {<<src, src>>} /\ Own(dst)[0] = {<<dst, dst>>}
  BY LevelsFacts
<1>3. ASSUME NEW n \in 1..MaxDepth
      PROVE  /\ Gets[n] = UNION {Below("value", p): p \in Gets[n - 1]}
             /\ Has[n] = UNION {Below("value", p): p \in Has[n - 1]}
             /\ Pair[n] = UNION {Below("schema", p): p \in Pair[n - 1]}
             /\ Own(src)[n] = UNION {Below("schema", p): p \in Own(src)[n - 1]}
             /\ Own(dst)[n] = UNION {Below("schema", p): p \in Own(dst)[n - 1]}
  BY <1>1, LevelsFacts
<1>4. ASSUME NEW n \in 0..MaxDepth, NEW t, NEW w, NEW x,
             <<x, w>> \in Has[n], <<x, t>> \in Pair[n], <<x, x>> \in Own(src)[n], <<t, t>> \in Own(dst)[n]
      PROVE  /\ Holds(x, w) /\ Agrees(x, t) /\ Agrees(x, x) /\ Agrees(t, t) /\ Holds(t, w)
             /\ \A k \in DOMAIN Parts("schema", t) \cap DOMAIN Parts("value", w): k \in DOMAIN Parts("schema", x)
  <2>1. KeywordsValid(x) /\ KeywordsValid(t)
    BY <1>4 DEF SchemaValid
  <2>2. Holds(x, w) /\ Agrees(x, t)
    BY <1>4 DEF ValueOk, Assignable, MeetsThroughout, Meets
  <2>3. Agrees(x, x) /\ Agrees(t, t)
    BY <2>1, ValidPlace
  <2> QED BY <2>1, <2>2, <2>3, AgreedHolds
<1> HIDE DEF Own, Pair, Has, Gets
<1>5. 0 \in G
  <2>1. Matched(0, dst, v)
    BY <1>2
  <2>2. \A p \in Gets[0]: p = <<p[1], p[2]>> /\ p[1] = dst /\ p[2] = v
    BY <1>2
  <2> HIDE DEF Matched
  <2> QED BY <1>1, <2>1, <2>2
<1>6. ASSUME NEW n \in 1..MaxDepth, n - 1 \in G PROVE n \in G
  <2>1. SUFFICES ASSUME NEW q \in Gets[n] PROVE q = <<q[1], q[2]>> /\ Matched(n, q[1], q[2])
    BY <1>1
  <2>2. PICK p \in Gets[n - 1]: q \in Below("value", p)
    BY <1>3
  <2>3. p = <<p[1], p[2]>> /\ Matched(n - 1, p[1], p[2])
    BY <1>6
  <2> DEFINE t == p[1]
             w == p[2]
  <2>4. PICK x: /\ <<x, w>> \in Has[n - 1] /\ <<x, t>> \in Pair[n - 1]
                /\ <<x, x>> \in Own(src)[n - 1] /\ <<t, t>> \in Own(dst)[n - 1]
    BY <2>3
  <2>5. PICK k \in DOMAIN Parts("schema", t) \cap DOMAIN Parts("value", w):
          q = <<Parts("schema", t)[k], Parts("value", w)[k]>>
    BY <2>2, BelowParts
  <2> HIDE DEF t, w
  <2>6. /\ Holds(x, w) /\ Agrees(x, t) /\ Agrees(x, x) /\ Agrees(t, t)
        /\ k \in DOMAIN Parts("schema", x)
    BY <1>1, <1>4, <2>4
  <2> DEFINE x2 == Parts("schema", x)[k]
             t2 == Parts("schema", t)[k]
             w2 == Parts("value", w)[k]
  <2>7. /\ Meets("value", <<x, w>>) /\ Meets("schema", <<x, t>>)
        /\ Meets("schema", <<x, x>>) /\ Meets("schema", <<t, t>>)
    BY <2>6 DEF Meets
  <2>8. /\ <<x2, w2>> \in Below("value", <<x, w>>) /\ <<x2, t2>> \in Below("schema", <<x, t>>)
        /\ <<x2, x2>> \in Below("schema", <<x, x>>) /\ <<t2, t2>> \in Below("schema", <<t, t>>)
    BY <2>5, <2>6, <2>7, PartsBelow
  <2> HIDE DEF x2, t2, w2
  <2>9. <<x2, w2>> \in Has[n] /\ <<x2, t2>> \in Pair[n] /\ <<x2, x2>> \in Own(src)[n] /\ <<t2, t2>> \in Own(dst)[n]
    BY <1>3, <2>4, <2>8
  <2>10. q = <<t2, w2>>
    BY <2>5 DEF t2, w2
  <2>11. q[1] = t2 /\ q[2] = w2
    BY <2>10
  <2> QED BY <2>9, <2>10, <2>11
<1>7. 0..MaxDepth \subseteq G
  <2> HIDE DEF G
  <2> QED BY <1>1, <1>5, <1>6, Climb
<1>8. ASSUME NEW n \in 0..MaxDepth, NEW p \in Gets[n] PROVE Meets("value", p)
  <2>1. Matched(n, p[1], p[2])
    BY <1>7
  <2>2. Holds(p[1], p[2])
    BY <1>4, <2>1
  <2> QED BY <2>2 DEF Meets
<1> QED BY <1>8 DEF ValueOk, MeetsThroughout, Gets

-----------------------------------------------------------------------------
(* What assemble answers.                                                  *)

Cands(d, found, want) == [k \in DOMAIN d.reqs |-> Eligible(found, want, k)]
Missing(d, cands) == {k \in DOMAIN d.reqs: Settled(d, cands)[k] = {}}
Required(d) == {k \in DOMAIN d.reqs: ~d.reqs[k].opt}
GroupStatuses == {"untouched", "dropped", "shared", "connection_mismatch", "requires_selection"}

LEMMA StatusRange ==
  ASSUME NEW d, NEW cands, NEW g
  PROVE  GroupStatus(d, cands, g) \in GroupStatuses
BY DEF GroupStatus, GroupStatuses

\* assemble is ready only when every test of it has passed.
ReadyFacts(d, cands, plan) ==
  /\ \A k \in Required(d): cands[k] # {}
  /\ \A i \in 1..Len(d.groups): GroupStatus(d, cands, d.groups[i]) \in {"untouched", "dropped", "shared"}
  /\ \A k \in DOMAIN d.reqs: ~(Cardinality(Settled(d, cands)[k]) > 1)
  /\ \A k \in Required(d): Settled(d, cands)[k] # {}
  /\ plan.selected = [k \in DOMAIN d.reqs \ Missing(d, cands) |-> CHOOSE c \in Settled(d, cands)[k]: TRUE]
  /\ plan.disabled = Disabled(d, Missing(d, cands))

LEMMA ReadyMeans ==
  ASSUME NEW d, NEW found, NEW want, Assemble(d, found, want).status = "ready"
  PROVE  ReadyFacts(d, Cands(d, found, want), Assemble(d, found, want))
<1> DEFINE cands == Cands(d, found, want)
           settled == Settled(d, cands)
           keys == DOMAIN d.reqs
           failing == {i \in 1..Len(d.groups):
                    GroupStatus(d, cands, d.groups[i]) \in {"connection_mismatch", "requires_selection"}}
           plan == [status |-> "ready",
                    selected |-> [k \in keys \ Missing(d, cands) |-> CHOOSE c \in settled[k]: TRUE],
                    disabled |-> Disabled(d, Missing(d, cands))]
<1>1. Assemble(d, found, want) =
        IF \E k \in Required(d): cands[k] = {} THEN Failed("requires_connection")
        ELSE IF failing # {} THEN Failed(GroupStatus(d, cands, d.groups[Min(failing)]))
        ELSE IF \E k \in keys: Cardinality(settled[k]) > 1 THEN Failed("requires_selection")
        ELSE IF Missing(d, cands) \cap Required(d) # {} THEN Failed("requires_connection")
        ELSE plan
  BY DEF Assemble, Cands, Missing, Required
<1>2. /\ Failed("requires_connection").status # "ready" /\ Failed("requires_selection").status # "ready"
      /\ Failed(GroupStatus(d, cands, d.groups[Min(failing)])).status # "ready"
  BY StatusRange DEF Failed, GroupStatuses
<1> HIDE DEF failing, cands, settled, plan
<1>3. /\ ~(\E k \in Required(d): cands[k] = {}) /\ failing = {}
      /\ ~(\E k \in keys: Cardinality(settled[k]) > 1) /\ Missing(d, cands) \cap Required(d) = {}
      /\ Assemble(d, found, want) = plan
  BY <1>1, <1>2
<1>4. \A i \in 1..Len(d.groups): GroupStatus(d, cands, d.groups[i]) \in {"untouched", "dropped", "shared"}
  BY <1>3, StatusRange DEF failing, GroupStatuses
<1>5. \A k \in Required(d): settled[k] # {}
  BY <1>3 DEF Missing, Required, settled
<1>6. /\ plan.selected = [k \in keys \ Missing(d, cands) |-> CHOOSE c \in settled[k]: TRUE]
      /\ plan.disabled = Disabled(d, Missing(d, cands))
  BY DEF plan
<1> QED BY <1>3, <1>4, <1>5, <1>6 DEF cands, settled, ReadyFacts

\* The disabled steps: what is missing and what comes after disabled ones,
\* and nothing more.
Closed(d, missing, C) ==
  \A s \in DOMAIN d.steps: d.steps[s].req \in missing \/ d.steps[s].after \cap C # {} => s \in C

LEMMA DisabledIsClosed ==
  ASSUME NEW d, NEW missing
  PROVE  /\ Disabled(d, missing) \subseteq DOMAIN d.steps
         /\ Closed(d, missing, Disabled(d, missing))
         /\ \A C \in SUBSET DOMAIN d.steps: Closed(d, missing, C) => Disabled(d, missing) \subseteq C
<1> DEFINE D == Disabled(d, missing)
<1>1. D = {s \in DOMAIN d.steps: \A C \in SUBSET DOMAIN d.steps: Closed(d, missing, C) => s \in C}
  BY DEF Disabled, Closed
<1> HIDE DEF D
<1>2. ASSUME NEW s \in DOMAIN d.steps, d.steps[s].req \in missing \/ d.steps[s].after \cap D # {},
             NEW C \in SUBSET DOMAIN d.steps, Closed(d, missing, C)
      PROVE  s \in C
  <2>1. D \subseteq C
    BY <1>1, <1>2
  <2> QED BY <1>2, <2>1 DEF Closed
<1>3. Closed(d, missing, D)
  BY <1>1, <1>2 DEF Closed
<1> QED BY <1>1, <1>3 DEF D

\* An admitted recipe: validated, and assemble has answered ready.
Admitted(a) ==
  Validate(a.doc, a.contracts) /\ Assemble(a.doc, a.found, a.want).status = "ready"

PlanOf(a) == Assemble(a.doc, a.found, a.want)
Enabled(a) == DOMAIN a.doc.steps \ PlanOf(a).disabled

LEMMA AdmittedMeans ==
  ASSUME NEW a, Admitted(a)
  PROVE  /\ ReadyFacts(a.doc, Cands(a.doc, a.found, a.want), PlanOf(a))
         /\ \A k \in Required(a.doc): Settled(a.doc, Cands(a.doc, a.found, a.want))[k] # {}
         /\ PlanOf(a).disabled = Disabled(a.doc, Missing(a.doc, Cands(a.doc, a.found, a.want)))
<1>1. Assemble(a.doc, a.found, a.want).status = "ready"
  BY DEF Admitted
<1>2. ReadyFacts(a.doc, Cands(a.doc, a.found, a.want), PlanOf(a))
  BY <1>1, ReadyMeans DEF PlanOf
<1> QED BY <1>2 DEF ReadyFacts

LEMMA DisabledAreOptional ==
  ASSUME NEW a, Admitted(a)
  PROVE  \A s \in PlanOf(a).disabled: a.doc.reqs[a.doc.steps[s].req].opt
<1> DEFINE d == a.doc
           missing == Missing(d, Cands(d, a.found, a.want))
           C == {s \in DOMAIN d.steps: d.reqs[d.steps[s].req].opt}
<1>1. PlanOf(a).disabled = Disabled(d, missing) /\ \A k \in missing: d.reqs[k].opt
  <2>1. /\ \A k \in Required(d): Settled(d, Cands(d, a.found, a.want))[k] # {}
        /\ PlanOf(a).disabled = Disabled(d, missing)
    BY AdmittedMeans
  <2> QED BY <2>1 DEF Missing, Required
<1>2. \A s \in DOMAIN d.steps: \A p \in d.steps[s].after:
        d.reqs[d.steps[p].req].opt => d.reqs[d.steps[s].req].opt
  BY DEF Admitted, Validate, OrderValid
<1> HIDE DEF missing, d
<1>3. Closed(d, missing, C)
  BY <1>1, <1>2 DEF Closed
<1>4. Disabled(d, missing) \subseteq C
  BY <1>3, DisabledIsClosed
<1> QED BY <1>1, <1>4 DEF d

\* What an enabled step comes after is enabled.
LEMMA EnabledComeAfterEnabled ==
  ASSUME NEW a, Admitted(a), NEW s \in Enabled(a)
  PROVE  s \in DOMAIN a.doc.steps /\ a.doc.steps[s].after \subseteq Enabled(a)
<1> DEFINE d == a.doc
           missing == Missing(d, Cands(d, a.found, a.want))
<1>1. PlanOf(a).disabled = Disabled(d, missing)
  BY AdmittedMeans
<1>2. d.steps[s].after \subseteq DOMAIN d.steps /\ s \in DOMAIN d.steps
  BY DEF Enabled, Admitted, Validate, OrderValid
<1> HIDE DEF missing, d
<1>3. Closed(d, missing, Disabled(d, missing))
  BY DisabledIsClosed
<1>4. s \notin Disabled(d, missing) /\ Enabled(a) = DOMAIN d.steps \ Disabled(d, missing)
  BY <1>1 DEF Enabled, d
<1>5. d.steps[s].after \cap Disabled(d, missing) = {}
  BY <1>2, <1>3, <1>4 DEF Closed
<1> QED BY <1>2, <1>4, <1>5 DEF d

-----------------------------------------------------------------------------
(* The dataflow of an admitted recipe.                                     *)

LEMMA ContractsAreValid ==
  ASSUME NEW a, Admitted(a), NEW s \in DOMAIN a.doc.steps
  PROVE  LET c == a.contracts[a.doc.steps[s].req]
         IN SchemaValid(c.in) /\ SchemaValid(c.out) /\ c.in.type = "object"
<1>1. a.doc.steps[s].req \in DOMAIN a.doc.reqs
  BY DEF Admitted, Validate, RequirementsValid
<1> QED BY <1>1 DEF Admitted, Validate

LEMMA NothingIsInvalid == ~SchemaValid(NoSchema)
<1>1. ~KeywordsValid(NoSchema)
  BY DEF KeywordsValid, NoSchema, Scalars
<1> QED BY <1>1, RootIsValid

LEMMA NothingIsUnassignable ==
  ASSUME NEW dst, SchemaValid(dst)
  PROVE  ~Assignable(NoSchema, dst)
<1>1. SUFFICES ASSUME Assignable(NoSchema, dst) PROVE FALSE
  OBVIOUS
<1>2. 0 \in 0..MaxDepth /\ <<NoSchema, dst>> \in Levels("schema", NoSchema, dst)[0]
  BY LevelsFacts, SchemaAssumption
<1>3. Agrees(NoSchema, dst)
  BY <1>1, <1>2 DEF Assignable, MeetsThroughout, Meets
<1>4. dst.type = "absent"
  BY <1>3 DEF Agrees, NoSchema
<1> QED BY <1>4, RootIsValid DEF KeywordsValid, Scalars

\* The source of an input: the task or a predecessor, and valid if there.
LEMMA SourcesAreValid ==
  ASSUME NEW a, Admitted(a), NEW s \in DOMAIN a.doc.steps, NEW from, NEW path, Len(path) \in Nat
  PROVE  LET src == SourceSchema(a.doc, a.contracts, s, from, path)
         IN src # NoSchema => (from = "" \/ from \in a.doc.steps[s].after) /\ SchemaValid(src)
<1> DEFINE src == SourceSchema(a.doc, a.contracts, s, from, path)
<1>1. SUFFICES ASSUME src # NoSchema
               PROVE  (from = "" \/ from \in a.doc.steps[s].after) /\ SchemaValid(src)
  OBVIOUS
<1>2. CASE from = ""
  <2>1. SchemaValid(a.doc.task) /\ src = SchemaAt(a.doc.task, path)
    BY <1>2 DEF Admitted, Validate, SourceSchema
  <2> HIDE DEF src
  <2> QED BY <1>1, <1>2, <2>1, ReachedIsValid
<1>3. CASE from # ""
  <2>1. from \in a.doc.steps[s].after
    BY <1>1, <1>3 DEF SourceSchema
  <2>2. from \in DOMAIN a.doc.steps
    BY <2>1 DEF Admitted, Validate, OrderValid
  <2> DEFINE out == a.contracts[a.doc.steps[from].req].out
  <2>3. SchemaValid(out)
    BY <2>2, ContractsAreValid
  <2>4. src = SchemaAt(out, path)
    BY <1>3, <2>1 DEF SourceSchema
  <2> HIDE DEF src, out
  <2> QED BY <1>1, <2>1, <2>3, <2>4, ReachedIsValid
<1> QED BY <1>2, <1>3

\* An iteration goes over an array of a predecessor that is not one itself.
LEMMA IterationsHaveSources ==
  ASSUME NEW a \in RecipeAsks, Admitted(a), NEW s \in DOMAIN a.doc.steps, a.doc.steps[s].each # NoEach
  PROVE  LET each == a.doc.steps[s].each
             arr == SourceSchema(a.doc, a.contracts, s, each.step, each.path)
         IN /\ each.step \in a.doc.steps[s].after
            /\ arr.max \in 1..MaxArrayBound /\ arr.max <= each.max /\ each.max \in 1..a.doc.limits.iters
            /\ SchemaValid(arr.items)
<1> DEFINE each == a.doc.steps[s].each
           arr == SourceSchema(a.doc, a.contracts, s, each.step, each.path)
<1>1. each.step # "" /\ each.max \in 1..a.doc.limits.iters /\ arr.type = "array" /\ arr.max <= each.max
  BY DEF Admitted, Validate, EachValid
<1>2. Len(each.path) \in Nat
  BY RecipeAssumption
<1>3. arr # NoSchema
  <2> HIDE DEF each, arr
  <2>1. NoSchema.type = "absent"
    BY DEF NoSchema
  <2> QED BY <1>1, <2>1
<1> HIDE DEF each
<1>4. (each.step = "" \/ each.step \in a.doc.steps[s].after) /\ SchemaValid(arr)
  BY <1>2, <1>3, SourcesAreValid
<1> HIDE DEF arr
<1>5. arr.max \in 1..MaxArrayBound /\ SchemaValid(arr.items)
  BY <1>1, <1>4, ItemsAreValid
<1> QED BY <1>1, <1>4, <1>5 DEF each, arr

\* The schema an input reads, as the property has it.
ReadBy(a, s, k) ==
  LET m == a.doc.steps[s].inputs[k]
      each == a.doc.steps[s].each
  IN IF m.step = "$item"
     THEN SchemaAt(SourceSchema(a.doc, a.contracts, s, each.step, each.path).items, m.path)
     ELSE SourceSchema(a.doc, a.contracts, s, m.step, m.path)

InputOf(a, s, k) == a.contracts[a.doc.steps[s].req].in.props[k]

\* An input of an admitted recipe reads the task, a predecessor or the
\* element at hand, and what it reads is assignable to its property.
LEMMA InputsAreAssignable ==
  ASSUME NEW a \in RecipeAsks, Admitted(a), NEW s \in DOMAIN a.doc.steps,
         NEW k \in DOMAIN a.doc.steps[s].inputs
  PROVE  LET m == a.doc.steps[s].inputs[k]
         IN /\ m.step \in a.doc.steps[s].after \cup {"", "$item"}
            /\ m.step = "$item" => a.doc.steps[s].each.step \in a.doc.steps[s].after
            /\ SchemaValid(ReadBy(a, s, k)) /\ SchemaValid(InputOf(a, s, k))
            /\ Assignable(ReadBy(a, s, k), InputOf(a, s, k))
<1> DEFINE d == a.doc
           step == d.steps[s]
           m == step.inputs[k]
           each == step.each
           in == a.contracts[step.req].in
           arr == SourceSchema(d, a.contracts, s, each.step, each.path)
           dst == InputOf(a, s, k)
           src == IF m.step = "$item" THEN IF each = NoEach THEN NoSchema ELSE SchemaAt(arr.items, m.path)
                  ELSE IF m.step \in DOMAIN d.steps /\ d.steps[m.step].each # NoEach THEN NoSchema
                  ELSE SourceSchema(d, a.contracts, s, m.step, m.path)
<1>1. k \in DOMAIN in.props /\ Assignable(src, dst)
  BY DEF Admitted, Validate, InputsValid, InputOf
<1>2. SchemaValid(dst)
  <2>1. SchemaValid(in) /\ in.type = "object"
    BY ContractsAreValid
  <2>2. dst = in.props[k]
    BY DEF InputOf
  <2> HIDE DEF in, dst
  <2> QED BY <1>1, <2>1, <2>2, PartsAreValid, ObjectParts
<1>3. src # NoSchema
  <2> HIDE DEF src, dst
  <2> QED BY <1>1, <1>2, NothingIsUnassignable
<1>4. Len(m.path) \in Nat
  BY RecipeAssumption
<1>5. CASE m.step = "$item"
  <2>1. each # NoEach /\ src = SchemaAt(arr.items, m.path) /\ ReadBy(a, s, k) = src
    BY <1>3, <1>5 DEF ReadBy
  <2>2. each.step \in step.after /\ SchemaValid(arr.items)
    BY <2>1, IterationsHaveSources
  <2>3. SchemaValid(src)
    <3> HIDE DEF src, arr, m
    <3> QED BY <1>3, <1>4, <2>1, <2>2, ReachedIsValid
  <2> QED BY <1>1, <1>2, <1>5, <2>1, <2>2, <2>3
<1>6. CASE m.step # "$item"
  <2>1. src = SourceSchema(d, a.contracts, s, m.step, m.path) /\ ReadBy(a, s, k) = src
    BY <1>3, <1>6 DEF ReadBy
  <2>2. (m.step = "" \/ m.step \in step.after) /\ SchemaValid(src)
    <3> HIDE DEF src
    <3> QED BY <1>3, <1>4, <2>1, SourcesAreValid
  <2> QED BY <1>1, <1>2, <1>6, <2>1, <2>2
<1> QED BY <1>5, <1>6

\* What an enabled step reads comes from an enabled step or the task and fits.
LEMMA InputsFit ==
  ASSUME NEW a \in RecipeAsks, Admitted(a), NEW s \in Enabled(a),
         NEW k \in DOMAIN a.doc.steps[s].inputs
  PROVE  LET m == a.doc.steps[s].inputs[k]
         IN /\ m.step \in Enabled(a) \cup {"", "$item"}
            /\ m.step = "$item" => a.doc.steps[s].each.step \in Enabled(a)
            /\ \A v: ValueOk(ReadBy(a, s, k), v) => ValueOk(InputOf(a, s, k), v)
<1>1. s \in DOMAIN a.doc.steps /\ a.doc.steps[s].after \subseteq Enabled(a)
  BY EnabledComeAfterEnabled
<1>2. /\ SchemaValid(ReadBy(a, s, k)) /\ SchemaValid(InputOf(a, s, k))
      /\ Assignable(ReadBy(a, s, k), InputOf(a, s, k))
  BY <1>1, InputsAreAssignable
<1>3. LET m == a.doc.steps[s].inputs[k]
      IN /\ m.step \in a.doc.steps[s].after \cup {"", "$item"}
         /\ m.step = "$item" => a.doc.steps[s].each.step \in a.doc.steps[s].after
  BY <1>1, InputsAreAssignable
<1>4. \A v: ValueOk(ReadBy(a, s, k), v) => ValueOk(InputOf(a, s, k), v)
  BY <1>2, AssignableIsSound
<1> QED BY <1>1, <1>3, <1>4

LEMMA StepsHavePlaces ==
  ASSUME NEW a, Admitted(a)
  PROVE  \E place \in [DOMAIN a.doc.steps -> 1..Cardinality(DOMAIN a.doc.steps)]:
           \A s \in DOMAIN a.doc.steps: \A p \in a.doc.steps[s].after: place[p] < place[s]
<1>1. OrderValid(a.doc)
  BY DEF Admitted, Validate
<1> QED BY <1>1 DEF OrderValid

LEMMA LimitsAreNumbers ==
  ASSUME NEW a, Admitted(a)
  PROVE  LET l == a.doc.limits
         IN l.steps \in Nat /\ l.iters \in Nat \ {0} /\ l.calls \in Nat /\ l.bytes \in Nat
<1>1. LimitsValid(a.doc.limits)
  BY DEF Admitted, Validate
<1> QED BY <1>1, SchemaAssumption DEF LimitsValid

LEMMA StepsAreFew ==
  ASSUME NEW a, Admitted(a)
  PROVE  Cardinality(DOMAIN a.doc.steps) \in Nat
<1>1. Cardinality(DOMAIN a.doc.steps) \in 1..a.doc.limits.steps
  BY DEF Admitted, Validate
<1> QED BY <1>1, LimitsAreNumbers

\* The enabled step that comes first of those not done has all it needs.
LEMMA SomeStepIsNext ==
  ASSUME NEW a, Admitted(a), NEW done, Enabled(a) \ done # {}
  PROVE  \E s \in Enabled(a) \ done: a.doc.steps[s].after \subseteq done
<1> DEFINE S == DOMAIN a.doc.steps
           U == Enabled(a) \ done
<1>1. PICK place \in [S -> 1..Cardinality(S)]: \A s \in S: \A p \in a.doc.steps[s].after: place[p] < place[s]
  BY StepsHavePlaces
<1>2. Cardinality(S) \in Nat
  BY StepsAreFew
<1> DEFINE Places == {place[s]: s \in U}
<1>3. U \subseteq S /\ U # {}
  BY DEF Enabled
<1>4. \A s \in S: place[s] \in 1..Cardinality(S)
  BY <1>1
<1> HIDE DEF S, U
<1>5. Places \in SUBSET Nat /\ Places # {}
  BY <1>2, <1>3, <1>4
<1>6. PICK x \in Places: \A y \in Places: x <= y
  <2> HIDE DEF Places
  <2> QED BY <1>5, LeastExists
<1>7. PICK s \in U: x = place[s]
  BY <1>6
<1>8. ASSUME NEW p \in a.doc.steps[s].after PROVE p \in done
  <2>1. p \in Enabled(a)
    BY EnabledComeAfterEnabled DEF U
  <2>2. p \in S /\ place[p] < place[s]
    BY <1>1, <1>3, <2>1 DEF Enabled, S
  <2>3. p \notin U
    BY <1>2, <1>3, <1>4, <1>6, <1>7, <2>2
  <2> QED BY <2>1, <2>3 DEF U
<1> QED BY <1>8 DEF U

-----------------------------------------------------------------------------
(* The calls of an admitted recipe.                                        *)

Times(d, s) == IF d.steps[s].each = NoEach THEN 1 ELSE d.steps[s].each.max

LEMMA CallsAre ==
  ASSUME NEW d, NEW steps, NEW p
  PROVE  p \in CallsOf(d, steps) <=> \E s \in steps: \E i \in 1..Times(d, s): p = <<s, i>>
BY DEF CallsOf, Times

LEMMA TimesAreFew ==
  ASSUME NEW a, Admitted(a), NEW s \in DOMAIN a.doc.steps
  PROVE  Times(a.doc, s) \in 1..a.doc.limits.iters /\ Times(a.doc, s) \in Nat \ {0}
<1>1. a.doc.limits.iters \in Nat \ {0}
  BY LimitsAreNumbers
<1>2. EachValid(a.doc, a.contracts, s)
  BY DEF Admitted, Validate
<1>3. a.doc.steps[s].each # NoEach => a.doc.steps[s].each.max \in 1..a.doc.limits.iters
  BY <1>2 DEF EachValid
<1> QED BY <1>1, <1>3 DEF Times

\* All calls of the recipe, and of its iterated steps.
AllCalls(d) == CallsOf(d, DOMAIN d.steps)
IteratedCalls(d) == CallsOf(d, Iterated(d))

LEMMA CallsAreFinite ==
  ASSUME NEW a \in RecipeAsks, Admitted(a)
  PROVE  /\ IsFiniteSet(AllCalls(a.doc))
         /\ IteratedCalls(a.doc) = {p \in AllCalls(a.doc): a.doc.steps[p[1]].each # NoEach}
<1> DEFINE d == a.doc
           S == DOMAIN d.steps
           Ns == 1..d.limits.iters
<1>1. IsFiniteSet(S) /\ IsFiniteSet(Ns)
  BY RecipeAssumption, LimitsAreNumbers, FS_Interval
<1>2. IsFiniteSet(S \X Ns)
  <2> HIDE DEF S, Ns
  <2> QED BY <1>1, FS_Product
<1>3. \A s \in S: 1..Times(d, s) \subseteq Ns
  <2> SUFFICES ASSUME NEW s \in S PROVE 1..Times(d, s) \subseteq Ns
    OBVIOUS
  <2>1. Times(d, s) \in Ns /\ Times(d, s) \in Nat /\ d.limits.iters \in Nat
    BY TimesAreFew, LimitsAreNumbers
  <2> HIDE DEF d
  <2> QED BY <2>1
<1> HIDE DEF d, Ns
<1>4. AllCalls(d) \subseteq S \X Ns
  <2> SUFFICES ASSUME NEW p \in AllCalls(d) PROVE p \in S \X Ns
    OBVIOUS
  <2>1. PICK s \in S: \E i \in 1..Times(d, s): p = <<s, i>>
    BY CallsAre DEF AllCalls
  <2> QED BY <1>3, <2>1
<1>5. IsFiniteSet(AllCalls(d))
  BY <1>2, <1>4, FS_Subset
<1>6. IteratedCalls(d) = {p \in AllCalls(d): d.steps[p[1]].each # NoEach}
  <2>1. ASSUME NEW p \in IteratedCalls(d) PROVE p \in AllCalls(d) /\ d.steps[p[1]].each # NoEach
    <3>1. PICK s \in Iterated(d): \E i \in 1..Times(d, s): p = <<s, i>>
      BY <2>1, CallsAre DEF IteratedCalls
    <3>2. s \in S /\ d.steps[s].each # NoEach /\ p[1] = s
      BY <3>1 DEF Iterated
    <3> QED BY <3>1, <3>2, CallsAre DEF AllCalls
  <2>2. ASSUME NEW p \in AllCalls(d), d.steps[p[1]].each # NoEach PROVE p \in IteratedCalls(d)
    <3>1. PICK s \in S: \E i \in 1..Times(d, s): p = <<s, i>>
      BY <2>2, CallsAre DEF AllCalls
    <3>2. s \in Iterated(d)
      BY <2>2, <3>1 DEF Iterated
    <3> QED BY <3>1, <3>2, CallsAre DEF IteratedCalls
  <2> QED BY <2>1, <2>2
<1> QED BY <1>5, <1>6 DEF d

\* The calls made or passed over: those of the steps done, and of the
\* current step all but the ones left.
Made(d, done, cur) ==
  {p \in AllCalls(d): \/ p[1] \in done
                      \/ cur # NotRunning /\ p[1] = cur.step /\ p[2] <= Times(d, cur.step) - cur.left}
MadeOver(d, done, cur) == {p \in Made(d, done, cur): d.steps[p[1]].each # NoEach}

LEMMA MadeAreCounted ==
  ASSUME NEW a \in RecipeAsks, Admitted(a), NEW done, NEW cur
  PROVE  /\ IsFiniteSet(Made(a.doc, done, cur)) /\ IsFiniteSet(MadeOver(a.doc, done, cur))
         /\ Cardinality(Made(a.doc, done, cur)) \in Nat /\ Cardinality(MadeOver(a.doc, done, cur)) \in Nat
         /\ Cardinality(Made(a.doc, done, cur)) <= a.doc.limits.calls
         /\ Cardinality(MadeOver(a.doc, done, cur)) <= a.doc.limits.iters
<1> DEFINE d == a.doc
           M == Made(d, done, cur)
           O == MadeOver(d, done, cur)
<1>1. IsFiniteSet(AllCalls(d)) /\ IteratedCalls(d) = {p \in AllCalls(d): d.steps[p[1]].each # NoEach}
  BY CallsAreFinite
<1>2. /\ Cardinality(AllCalls(d)) <= d.limits.calls /\ Cardinality(IteratedCalls(d)) <= d.limits.iters
      /\ d.limits.calls \in Nat /\ d.limits.iters \in Nat
  <2>1. BudgetValid(d)
    BY DEF Admitted, Validate
  <2>2. d.limits.calls \in Nat /\ d.limits.iters \in Nat
    BY LimitsAreNumbers
  <2> HIDE DEF d
  <2> QED BY <2>1, <2>2 DEF BudgetValid, Calls, Iterations, AllCalls, IteratedCalls
<1> HIDE DEF d
<1>3. M \subseteq AllCalls(d) /\ O \subseteq IteratedCalls(d) /\ IteratedCalls(d) \subseteq AllCalls(d)
  BY <1>1 DEF Made, MadeOver
<1> HIDE DEF M, O
<1>4. IsFiniteSet(IteratedCalls(d))
  BY <1>1, <1>3, FS_Subset
<1>5. IsFiniteSet(M) /\ Cardinality(M) <= Cardinality(AllCalls(d))
  BY <1>1, <1>3, FS_Subset
<1>6. IsFiniteSet(O) /\ Cardinality(O) <= Cardinality(IteratedCalls(d))
  BY <1>3, <1>4, FS_Subset
<1>7. /\ Cardinality(M) \in Nat /\ Cardinality(O) \in Nat
      /\ Cardinality(AllCalls(d)) \in Nat /\ Cardinality(IteratedCalls(d)) \in Nat
  BY <1>1, <1>4, <1>5, <1>6, FS_CardinalityType
<1>8. Cardinality(M) <= d.limits.calls /\ Cardinality(O) <= d.limits.iters
  BY <1>2, <1>5, <1>6, <1>7
<1> QED BY <1>5, <1>6, <1>7, <1>8 DEF d, M, O

LEMMA CountGrows ==
  ASSUME NEW A, NEW B, NEW p, IsFiniteSet(A), IsFiniteSet(B), A \subseteq B, p \in B, p \notin A
  PROVE  Cardinality(A) + 1 <= Cardinality(B)
<1>1. /\ IsFiniteSet(A \cup {p}) /\ Cardinality(A \cup {p}) = Cardinality(A) + 1
  BY FS_AddElement
<1>2. A \cup {p} \subseteq B
  OBVIOUS
<1>3. Cardinality(A \cup {p}) <= Cardinality(B)
  BY <1>1, <1>2, FS_Subset
<1> QED BY <1>1, <1>3

\* The call at hand is one of the recipe's, not made before.
LEMMA CallIsNew ==
  ASSUME NEW a \in RecipeAsks, Admitted(a), NEW done, NEW cur, cur # NotRunning,
         cur.step \in DOMAIN a.doc.steps \ done, cur.left \in 1..Times(a.doc, cur.step)
  PROVE  LET p == <<cur.step, Times(a.doc, cur.step) - cur.left + 1>>
         IN p \in AllCalls(a.doc) /\ p \notin Made(a.doc, done, cur)
<1> DEFINE t == Times(a.doc, cur.step)
           i == t - cur.left + 1
           p == <<cur.step, i>>
<1>1. t \in Nat
  BY TimesAreFew
<1>2. i \in 1..t /\ i \in Int /\ ~(i <= t - cur.left)
  <2> HIDE DEF t
  <2>1. cur.left \in 1..t
    BY DEF t
  <2> QED BY <1>1, <2>1
<1> HIDE DEF i
<1>3. p \in AllCalls(a.doc)
  BY <1>2, CallsAre DEF AllCalls
<1>4. p[1] = cur.step /\ p[2] = i
  OBVIOUS
<1> HIDE DEF p
<1>5. p \notin Made(a.doc, done, cur)
  BY <1>2, <1>4 DEF Made
<1> QED BY <1>3, <1>5 DEF p, i

-----------------------------------------------------------------------------
(* The run of an admitted recipe.                                          *)

\* The step at hand is enabled, not done, and has calls left.
InHand(a, done, cur) ==
  /\ {"step", "left"} \subseteq DOMAIN cur
  /\ cur.step \in Enabled(a) \ done
  /\ cur.left \in 1..Times(a.doc, cur.step)

\* No more is charged than has been made.
Counts(a, done, cur, u) ==
  /\ u.calls \in Nat /\ u.iters \in Nat /\ u.bytes \in Nat
  /\ u.calls <= Cardinality(Made(a.doc, done, cur))
  /\ u.iters <= Cardinality(MadeOver(a.doc, done, cur))
  /\ u.bytes <= a.doc.limits.bytes

Going(r) ==
  /\ Admitted(r.ask) /\ r.plan = PlanOf(r.ask)
  /\ r.cur # NotRunning => InHand(r.ask, r.done, r.cur)
  /\ Counts(r.ask, r.done, r.cur, r.usage)
  /\ r.pc = "partial" => r.cur # NotRunning

RunGood(r) ==
  /\ {"pc", "ask", "plan", "done", "cur", "usage"} \subseteq DOMAIN r
  /\ r.ask \in RecipeAsks
  /\ r.pc \in {"asked", "refused", "ready", "partial"}
  /\ r.pc \in {"asked", "refused"} => r.plan.status # "ready"
  /\ r.pc = "asked" => r.done = {} /\ r.cur = NotRunning /\ r.usage = NoUsage
  /\ r.pc \in {"ready", "partial"} => Going(r)

RunInv == RunGood(run)

NextCall(a, cur) == <<cur.step, Times(a.doc, cur.step) - cur.left + 1>>

LEMMA NextCallFacts ==
  ASSUME NEW a \in RecipeAsks, Admitted(a), NEW done, NEW cur, cur # NotRunning, InHand(a, done, cur)
  PROVE  /\ NextCall(a, cur) \in AllCalls(a.doc) /\ NextCall(a, cur) \notin Made(a.doc, done, cur)
         /\ NextCall(a, cur)[1] = cur.step
         /\ NextCall(a, cur)[2] = Times(a.doc, cur.step) - cur.left + 1
<1>1. cur.step \in DOMAIN a.doc.steps \ done
  BY DEF InHand, Enabled
<1>2. NextCall(a, cur) \in AllCalls(a.doc) /\ NextCall(a, cur) \notin Made(a.doc, done, cur)
  BY <1>1, CallIsNew DEF InHand, NextCall
<1> QED BY <1>2 DEF NextCall

\* One more call made is one more counted, and within the limits.
LEMMA OneMoreCounts ==
  ASSUME NEW a \in RecipeAsks, Admitted(a), NEW done, NEW cur, cur # NotRunning, InHand(a, done, cur),
         NEW done2, NEW cur2, Made(a.doc, done, cur) \subseteq Made(a.doc, done2, cur2),
         NextCall(a, cur) \in Made(a.doc, done2, cur2)
  PROVE  LET d == a.doc
         IN /\ Cardinality(Made(d, done, cur)) \in Nat /\ Cardinality(MadeOver(d, done, cur)) \in Nat
            /\ Cardinality(Made(d, done2, cur2)) \in Nat /\ Cardinality(MadeOver(d, done2, cur2)) \in Nat
            /\ Cardinality(Made(d, done, cur)) + 1 <= Cardinality(Made(d, done2, cur2))
            /\ Cardinality(Made(d, done2, cur2)) <= d.limits.calls
            /\ Cardinality(MadeOver(d, done, cur)) + (IF d.steps[cur.step].each # NoEach THEN 1 ELSE 0)
                 <= Cardinality(MadeOver(d, done2, cur2))
            /\ Cardinality(MadeOver(d, done2, cur2)) <= d.limits.iters
            /\ d.limits.calls \in Nat /\ d.limits.iters \in Nat
<1> DEFINE d == a.doc
           p == NextCall(a, cur)
           M == Made(d, done, cur)
           O == MadeOver(d, done, cur)
           M2 == Made(d, done2, cur2)
           O2 == MadeOver(d, done2, cur2)
<1>1. p \notin M /\ p \in M2 /\ M \subseteq M2 /\ p[1] = cur.step
  BY NextCallFacts
<1>2. /\ IsFiniteSet(M) /\ IsFiniteSet(O) /\ IsFiniteSet(M2) /\ IsFiniteSet(O2)
      /\ Cardinality(M) \in Nat /\ Cardinality(O) \in Nat /\ Cardinality(M2) \in Nat /\ Cardinality(O2) \in Nat
      /\ Cardinality(M2) <= d.limits.calls /\ Cardinality(O2) <= d.limits.iters
  BY MadeAreCounted
<1>3. O = {q \in M: d.steps[q[1]].each # NoEach} /\ O2 = {q \in M2: d.steps[q[1]].each # NoEach}
  BY DEF MadeOver
<1>4. d.limits.calls \in Nat /\ d.limits.iters \in Nat
  BY LimitsAreNumbers
<1> HIDE DEF d, p, M, O, M2, O2
<1>5. Cardinality(M) + 1 <= Cardinality(M2)
  BY <1>1, <1>2, CountGrows
<1>6. O \subseteq O2
  BY <1>1, <1>3
<1>7. CASE d.steps[cur.step].each # NoEach
  <2>1. p \in O2 /\ p \notin O
    BY <1>1, <1>3, <1>7
  <2>2. Cardinality(O) + 1 <= Cardinality(O2)
    BY <1>2, <1>6, <2>1, CountGrows
  <2> QED BY <1>2, <1>4, <1>5, <1>7, <2>2 DEF d, M, O, M2, O2
<1>8. CASE ~(d.steps[cur.step].each # NoEach)
  <2>1. Cardinality(O) <= Cardinality(O2)
    BY <1>2, <1>6, FS_Subset
  <2>2. Cardinality(O) + 0 <= Cardinality(O2)
    BY <1>2, <2>1
  <2> QED BY <1>2, <1>4, <1>5, <1>8, <2>2 DEF d, M, O, M2, O2
<1> QED BY <1>7, <1>8

\* So the next call is never refused for its calls or its iterations.
LEMMA BudgetLasts ==
  ASSUME NEW a \in RecipeAsks, Admitted(a), NEW done, NEW cur, cur # NotRunning, InHand(a, done, cur),
         NEW u, Counts(a, done, cur, u)
  PROVE  Fits(a.doc.limits, u, a.doc.steps[cur.step].each # NoEach, 0)
<1> DEFINE d == a.doc
           it == d.steps[cur.step].each # NoEach
           done2 == done \cup {cur.step}
           m == Cardinality(Made(d, done, cur))
           o == Cardinality(MadeOver(d, done, cur))
           m2 == Cardinality(Made(d, done2, NotRunning))
           o2 == Cardinality(MadeOver(d, done2, NotRunning))
<1>1. Made(d, done, cur) \subseteq Made(d, done2, NotRunning)
  BY DEF Made
<1>2. NextCall(a, cur) \in Made(d, done2, NotRunning)
  BY NextCallFacts DEF Made
<1>3. /\ m \in Nat /\ o \in Nat /\ m2 \in Nat /\ o2 \in Nat
      /\ m + 1 <= m2 /\ m2 <= d.limits.calls
      /\ o + (IF it THEN 1 ELSE 0) <= o2 /\ o2 <= d.limits.iters
      /\ d.limits.calls \in Nat /\ d.limits.iters \in Nat
  <2> HIDE DEF done2
  <2> QED BY <1>1, <1>2, OneMoreCounts
<1>4. /\ u.calls \in Nat /\ u.iters \in Nat /\ u.bytes \in Nat
      /\ u.calls <= m /\ u.iters <= o /\ u.bytes <= d.limits.bytes
  BY DEF Counts
<1>5. d.limits.bytes \in Nat
  BY LimitsAreNumbers
<1> HIDE DEF d, it, done2, m, o, m2, o2
<1>6. u.calls < d.limits.calls /\ 0 <= d.limits.bytes - u.bytes
  BY <1>3, <1>4, <1>5
<1>7. u.iters <= d.limits.iters - (IF it THEN 1 ELSE 0)
  <2>1. CASE it
    BY <1>3, <1>4, <2>1
  <2>2. CASE ~it
    BY <1>3, <1>4, <2>2
  <2> QED BY <2>1, <2>2
<1> QED BY <1>6, <1>7 DEF Fits, d, it

\* A call charged keeps the count.
LEMMA ChargeCounts ==
  ASSUME NEW a \in RecipeAsks, Admitted(a), NEW done, NEW cur, cur # NotRunning, InHand(a, done, cur),
         NEW done2, NEW cur2, Made(a.doc, done, cur) \subseteq Made(a.doc, done2, cur2),
         NextCall(a, cur) \in Made(a.doc, done2, cur2),
         NEW u, Counts(a, done, cur, u), NEW bytes \in Nat,
         Fits(a.doc.limits, u, a.doc.steps[cur.step].each # NoEach, bytes)
  PROVE  Counts(a, done2, cur2, Consume(u, a.doc.steps[cur.step].each # NoEach, bytes))
<1> DEFINE d == a.doc
           it == d.steps[cur.step].each # NoEach
           u2 == Consume(u, it, bytes)
           m == Cardinality(Made(d, done, cur))
           o == Cardinality(MadeOver(d, done, cur))
           m2 == Cardinality(Made(d, done2, cur2))
           o2 == Cardinality(MadeOver(d, done2, cur2))
<1>1. /\ m \in Nat /\ o \in Nat /\ m2 \in Nat /\ o2 \in Nat
      /\ m + 1 <= m2 /\ o + (IF it THEN 1 ELSE 0) <= o2
  BY OneMoreCounts
<1>2. /\ u.calls \in Nat /\ u.iters \in Nat /\ u.bytes \in Nat
      /\ u.calls <= m /\ u.iters <= o /\ u.bytes <= d.limits.bytes
  BY DEF Counts
<1>3. bytes <= d.limits.bytes - u.bytes /\ d.limits.bytes \in Nat
  BY LimitsAreNumbers DEF Fits
<1>4. u2.calls = u.calls + 1 /\ u2.iters = u.iters + (IF it THEN 1 ELSE 0) /\ u2.bytes = u.bytes + bytes
  BY DEF Consume
<1> HIDE DEF d, it, u2, m, o, m2, o2
<1>5. u2.calls \in Nat /\ u2.calls <= m2 /\ u2.bytes \in Nat /\ u2.bytes <= d.limits.bytes
  BY <1>1, <1>2, <1>3, <1>4
<1>6. u2.iters \in Nat /\ u2.iters <= o2
  <2>1. CASE it
    BY <1>1, <1>2, <1>4, <2>1
  <2>2. CASE ~it
    BY <1>1, <1>2, <1>4, <2>2
  <2> QED BY <2>1, <2>2
<1> QED BY <1>5, <1>6 DEF Counts, d, it, u2, m2, o2

\* What is counted stays counted when more is made.
LEMMA MoreKeepsCounts ==
  ASSUME NEW a \in RecipeAsks, Admitted(a), NEW done, NEW cur, NEW done2, NEW cur2,
         Made(a.doc, done, cur) \subseteq Made(a.doc, done2, cur2), NEW u, Counts(a, done, cur, u)
  PROVE  Counts(a, done2, cur2, u)
<1> DEFINE M == Made(a.doc, done, cur)
           O == MadeOver(a.doc, done, cur)
           M2 == Made(a.doc, done2, cur2)
           O2 == MadeOver(a.doc, done2, cur2)
<1>1. /\ IsFiniteSet(M2) /\ IsFiniteSet(O2) /\ IsFiniteSet(M) /\ IsFiniteSet(O)
      /\ Cardinality(M) \in Nat /\ Cardinality(O) \in Nat /\ Cardinality(M2) \in Nat /\ Cardinality(O2) \in Nat
  BY MadeAreCounted
<1>2. M \subseteq M2 /\ O \subseteq O2
  BY DEF MadeOver
<1>3. u.calls \in Nat /\ u.iters \in Nat /\ u.calls <= Cardinality(M) /\ u.iters <= Cardinality(O)
  BY DEF Counts
<1> HIDE DEF M, O, M2, O2
<1>4. Cardinality(M) <= Cardinality(M2) /\ Cardinality(O) <= Cardinality(O2)
  BY <1>1, <1>2, FS_Subset
<1>5. u.calls <= Cardinality(M2) /\ u.iters <= Cardinality(O2)
  BY <1>1, <1>3, <1>4
<1> QED BY <1>5 DEF Counts, M2, O2

LEMMA RunStarts == RunInit => RunInv
<1> SUFFICES ASSUME NEW ask \in RecipeAsks, run = RunOf(ask) PROVE RunGood(run)
  BY DEF RunInit, RunInv
<1>1. /\ {"pc", "ask", "plan", "done", "cur", "usage"} \subseteq DOMAIN run
      /\ run.ask = ask /\ run.pc = "asked" /\ run.plan = Failed("asked")
      /\ run.done = {} /\ run.cur = NotRunning /\ run.usage = NoUsage
  BY DEF RunOf
<1>2. Failed("asked").status # "ready"
  BY DEF Failed
<1> QED BY <1>1, <1>2 DEF RunGood

LEMMA PrepareKeeps == ASSUME RunInv, PrepareRecipe PROVE RunInv'
<1> DEFINE a == run.ask
           plan == IF Validate(a.doc, a.contracts) THEN Assemble(a.doc, a.found, a.want)
                   ELSE Failed("invalid")
           t == [run EXCEPT !.plan = plan, !.pc = IF plan.status = "ready" THEN "ready" ELSE "refused"]
<1>1. run' = t /\ RunGood(run) /\ run.pc = "asked"
  BY DEF RunInv, PrepareRecipe
<1>2. /\ {"pc", "ask", "plan", "done", "cur", "usage"} \subseteq DOMAIN run
      /\ a \in RecipeAsks /\ run.done = {} /\ run.cur = NotRunning /\ run.usage = NoUsage
  BY <1>1 DEF RunGood
<1> HIDE DEF plan, a
<1>3. /\ {"pc", "ask", "plan", "done", "cur", "usage"} \subseteq DOMAIN t
      /\ t.ask = run.ask /\ t.done = run.done /\ t.cur = run.cur /\ t.usage = run.usage
      /\ t.plan = plan /\ t.pc = IF plan.status = "ready" THEN "ready" ELSE "refused"
  BY <1>2
<1> HIDE DEF t
<1>4. CASE plan.status = "ready"
  <2>1. Failed("invalid").status # "ready"
    BY DEF Failed
  <2>2. Admitted(a) /\ plan = PlanOf(a)
    BY <1>4, <2>1 DEF plan, Admitted, PlanOf
  <2>3. Counts(a, {}, NotRunning, NoUsage)
    <3>1. /\ Cardinality(Made(a.doc, {}, NotRunning)) \in Nat
          /\ Cardinality(MadeOver(a.doc, {}, NotRunning)) \in Nat
      BY <1>2, <2>2, MadeAreCounted
    <3>2. a.doc.limits.bytes \in Nat
      BY <2>2, LimitsAreNumbers
    <3>3. NoUsage.calls = 0 /\ NoUsage.iters = 0 /\ NoUsage.bytes = 0
      BY DEF NoUsage
    <3> QED BY <3>1, <3>2, <3>3 DEF Counts
  <2>4. t.pc = "ready" /\ t.ask = a
    BY <1>3, <1>4 DEF a
  <2>5. Going(t)
    BY <1>2, <1>3, <2>2, <2>3, <2>4 DEF Going
  <2>6. RunGood(t)
    BY <1>2, <1>3, <2>4, <2>5 DEF RunGood
  <2> QED BY <1>1, <2>6 DEF RunInv
<1>5. CASE plan.status # "ready"
  <2>1. t.pc = "refused" /\ t.plan.status # "ready"
    BY <1>3, <1>5
  <2>2. RunGood(t)
    BY <1>2, <1>3, <2>1 DEF RunGood, a
  <2> QED BY <1>1, <2>2 DEF RunInv
<1> QED BY <1>4, <1>5

LEMMA GoingFacts ==
  ASSUME RunInv, run.pc \in {"ready", "partial"}
  PROVE  /\ {"pc", "ask", "plan", "done", "cur", "usage"} \subseteq DOMAIN run
         /\ run.ask \in RecipeAsks /\ Admitted(run.ask) /\ run.plan = PlanOf(run.ask)
         /\ run.cur # NotRunning => InHand(run.ask, run.done, run.cur)
         /\ Counts(run.ask, run.done, run.cur, run.usage)
         /\ run.pc = "partial" => run.cur # NotRunning
         /\ EnabledSteps = Enabled(run.ask)
<1>1. /\ {"pc", "ask", "plan", "done", "cur", "usage"} \subseteq DOMAIN run
      /\ run.ask \in RecipeAsks /\ Going(run)
  BY DEF RunInv, RunGood
<1>2. EnabledSteps = Enabled(run.ask)
  BY <1>1 DEF Going, EnabledSteps, Enabled
<1> QED BY <1>1, <1>2 DEF Going

LEMMA StartKeeps ==
  ASSUME RunInv, NEW s, NEW n, StartStep(s, n)
  PROVE  RunInv'
<1> DEFINE a == run.ask
           each == a.doc.steps[s].each
           arr == SourceSchema(a.doc, a.contracts, s, each.step, each.path)
           cur2 == IF n = 0 THEN NotRunning ELSE [step |-> s, left |-> n]
           done2 == IF n = 0 THEN run.done \cup {s} ELSE run.done
           t == [run EXCEPT !.cur = cur2, !.done = done2]
<1>1. /\ run.pc = "ready" /\ run.cur = NotRunning /\ s \in EnabledSteps \ run.done
      /\ n \in (IF each = NoEach THEN {1} ELSE 0..arr.max) /\ run' = t
  BY DEF StartStep, CanStart
<1>2. /\ {"pc", "ask", "plan", "done", "cur", "usage"} \subseteq DOMAIN run
      /\ a \in RecipeAsks /\ Admitted(a) /\ run.plan = PlanOf(a)
      /\ Counts(a, run.done, NotRunning, run.usage) /\ EnabledSteps = Enabled(a)
  BY <1>1, GoingFacts
<1>3. s \in DOMAIN a.doc.steps /\ s \in Enabled(a) \ run.done
  BY <1>1, <1>2 DEF Enabled
<1>4. Times(a.doc, s) \in Nat \ {0}
  BY <1>2, <1>3, TimesAreFew
<1>5. n \in 0..Times(a.doc, s)
  <2>1. CASE each = NoEach
    <3>1. n = 1 /\ Times(a.doc, s) = 1
      BY <1>1, <2>1 DEF Times
    <3> QED BY <3>1
  <2>2. CASE each # NoEach
    <3>1. arr.max \in 1..MaxArrayBound /\ arr.max <= each.max
      BY <1>2, <1>3, <2>2, IterationsHaveSources
    <3>2. n \in 0..arr.max /\ Times(a.doc, s) = each.max
      BY <1>1, <2>2 DEF Times
    <3> HIDE DEF arr, each
    <3> QED BY <1>4, <3>1, <3>2, SchemaAssumption
  <2> QED BY <2>1, <2>2
<1> HIDE DEF arr, each
<1>6. n # 0 => cur2 # NotRunning /\ InHand(a, run.done, cur2)
  <2> SUFFICES ASSUME n # 0 PROVE cur2 # NotRunning /\ InHand(a, run.done, cur2)
    OBVIOUS
  <2>1. {"step", "left"} \subseteq DOMAIN cur2 /\ cur2.step = s /\ cur2.left = n
    OBVIOUS
  <2>2. n \in 1..Times(a.doc, s)
    BY <1>4, <1>5
  <2>3. NotRunning.left = 0
    BY DEF NotRunning
  <2> HIDE DEF cur2
  <2> QED BY <1>3, <2>1, <2>2, <2>3 DEF InHand
<1>7. n = 0 => cur2 = NotRunning
  OBVIOUS
<1>8. Made(a.doc, run.done, NotRunning) \subseteq Made(a.doc, done2, cur2)
  <2> HIDE DEF cur2
  <2> QED BY DEF Made
<1>9. n # 0 => done2 = run.done
  OBVIOUS
<1>10. /\ {"pc", "ask", "plan", "done", "cur", "usage"} \subseteq DOMAIN t
       /\ t.ask = a /\ t.plan = run.plan /\ t.cur = cur2 /\ t.done = done2
       /\ t.usage = run.usage /\ t.pc = "ready"
  <2> HIDE DEF cur2, done2
  <2> QED BY <1>1, <1>2
<1> HIDE DEF cur2, done2, a, t
<1>11. Counts(a, done2, cur2, run.usage)
  BY <1>2, <1>8, MoreKeepsCounts
<1>12. Going(t)
  BY <1>2, <1>6, <1>7, <1>9, <1>10, <1>11 DEF Going
<1>13. RunGood(t)
  BY <1>2, <1>10, <1>12 DEF RunGood
<1> QED BY <1>1, <1>13 DEF RunInv

LEMMA CallKeeps ==
  ASSUME RunInv, NEW bytes \in CallBytes, Call(bytes)
  PROVE  RunInv'
<1> DEFINE a == run.ask
           cur == run.cur
           it == a.doc.steps[cur.step].each # NoEach
           cur2 == IF cur.left = 1 THEN NotRunning ELSE [cur EXCEPT !.left = @ - 1]
           done2 == IF cur.left = 1 THEN run.done \cup {cur.step} ELSE run.done
           u2 == Consume(run.usage, it, bytes)
           stop == [run EXCEPT !.pc = "partial"]
           t == [run EXCEPT !.usage = u2, !.cur = cur2, !.done = done2]
<1>1. /\ run.pc = "ready" /\ cur # NotRunning
      /\ run' = IF ~Fits(a.doc.limits, run.usage, it, bytes) THEN stop ELSE t
  BY DEF Call
<1>2. /\ {"pc", "ask", "plan", "done", "cur", "usage"} \subseteq DOMAIN run
      /\ a \in RecipeAsks /\ Admitted(a) /\ run.plan = PlanOf(a)
      /\ InHand(a, run.done, cur) /\ Counts(a, run.done, cur, run.usage)
  BY <1>1, GoingFacts
<1>3. CASE ~Fits(a.doc.limits, run.usage, it, bytes)
  <2> HIDE DEF a, cur, it
  <2>1. /\ {"pc", "ask", "plan", "done", "cur", "usage"} \subseteq DOMAIN stop
        /\ stop.ask = run.ask /\ stop.plan = run.plan /\ stop.cur = run.cur /\ stop.done = run.done
        /\ stop.usage = run.usage /\ stop.pc = "partial"
    BY <1>2
  <2>2. run' = stop
    BY <1>1, <1>3
  <2> HIDE DEF stop
  <2>3. Going(stop)
    BY <1>1, <1>2, <2>1 DEF Going, a, cur
  <2>4. RunGood(stop)
    BY <1>2, <2>1, <2>3 DEF RunGood, a
  <2> QED BY <2>2, <2>4 DEF RunInv
<1>4. CASE Fits(a.doc.limits, run.usage, it, bytes)
  <2>1. /\ cur.step \in Enabled(a) \ run.done /\ cur.step \in DOMAIN a.doc.steps
        /\ cur.left \in 1..Times(a.doc, cur.step) /\ {"step", "left"} \subseteq DOMAIN cur
    BY <1>2 DEF InHand, Enabled
  <2>2. Times(a.doc, cur.step) \in Nat
    BY <1>2, <2>1, TimesAreFew
  <2>3. cur.left # 1 => /\ cur2 # NotRunning /\ InHand(a, done2, cur2) /\ done2 = run.done
                        /\ cur2.step = cur.step /\ cur2.left = cur.left - 1
    <3> SUFFICES ASSUME cur.left # 1
                 PROVE  /\ cur2 # NotRunning /\ InHand(a, done2, cur2) /\ done2 = run.done
                        /\ cur2.step = cur.step /\ cur2.left = cur.left - 1
      OBVIOUS
    <3> HIDE DEF cur
    <3>1. /\ {"step", "left"} \subseteq DOMAIN cur2 /\ cur2.step = cur.step /\ cur2.left = cur.left - 1
          /\ done2 = run.done
      BY <2>1
    <3>2. cur2.left \in 1..Times(a.doc, cur.step) /\ cur2.left # 0
      BY <2>1, <2>2, <3>1
    <3>3. NotRunning.left = 0
      BY DEF NotRunning
    <3> HIDE DEF cur2, done2
    <3> QED BY <2>1, <3>1, <3>2, <3>3 DEF InHand
  <2>4. cur.left = 1 => cur2 = NotRunning /\ done2 = run.done \cup {cur.step}
    OBVIOUS
  <2> HIDE DEF cur2, done2
  <2>5. /\ NextCall(a, cur) \in AllCalls(a.doc) /\ NextCall(a, cur)[1] = cur.step
        /\ NextCall(a, cur)[2] = Times(a.doc, cur.step) - cur.left + 1
    BY <1>1, <1>2, NextCallFacts
  <2>6. \A q \in AllCalls(a.doc): q[1] \in DOMAIN a.doc.steps /\ q[2] \in Int
    <3> SUFFICES ASSUME NEW q \in AllCalls(a.doc) PROVE q[1] \in DOMAIN a.doc.steps /\ q[2] \in Int
      OBVIOUS
    <3>1. PICK s \in DOMAIN a.doc.steps: \E i \in 1..Times(a.doc, s): q = <<s, i>>
      BY CallsAre DEF AllCalls
    <3> QED BY <3>1
  <2>7. ASSUME cur.left = 1
        PROVE  /\ Made(a.doc, run.done, cur) \subseteq Made(a.doc, done2, cur2)
               /\ NextCall(a, cur) \in Made(a.doc, done2, cur2)
    <3>1. Made(a.doc, run.done, cur) \subseteq Made(a.doc, done2, cur2)
      BY <2>4, <2>7 DEF Made
    <3>2. NextCall(a, cur) \in Made(a.doc, done2, cur2)
      BY <2>4, <2>5, <2>7 DEF Made
    <3> QED BY <3>1, <3>2
  <2>8. ASSUME cur.left # 1
        PROVE  /\ Made(a.doc, run.done, cur) \subseteq Made(a.doc, done2, cur2)
               /\ NextCall(a, cur) \in Made(a.doc, done2, cur2)
    <3>1. ASSUME NEW q \in Made(a.doc, run.done, cur) PROVE q \in Made(a.doc, done2, cur2)
      <4>1. q \in AllCalls(a.doc) /\ q[2] \in Int
        BY <2>6 DEF Made
      <4>2. CASE q[1] \in run.done
        BY <2>3, <2>8, <4>1, <4>2 DEF Made
      <4>3. CASE q[1] = cur.step /\ q[2] <= Times(a.doc, cur.step) - cur.left
        <5>1. q[2] <= Times(a.doc, cur2.step) - cur2.left
          BY <2>1, <2>2, <2>3, <2>8, <4>1, <4>3
        <5> QED BY <2>3, <2>8, <4>1, <4>3, <5>1 DEF Made
      <4> QED BY <4>2, <4>3 DEF Made
    <3>2. NextCall(a, cur) \in Made(a.doc, done2, cur2)
      <4>1. NextCall(a, cur)[2] <= Times(a.doc, cur2.step) - cur2.left
        BY <2>1, <2>2, <2>3, <2>5, <2>8
      <4> QED BY <2>3, <2>5, <2>8, <4>1 DEF Made
    <3> QED BY <3>1, <3>2
  <2>9. bytes \in Nat
    BY RecipeAssumption
  <2>10. Counts(a, done2, cur2, u2)
    <3>1. /\ Made(a.doc, run.done, cur) \subseteq Made(a.doc, done2, cur2)
          /\ NextCall(a, cur) \in Made(a.doc, done2, cur2)
      BY <2>7, <2>8
    <3> HIDE DEF a, cur
    <3> QED BY <1>1, <1>2, <1>4, <2>9, <3>1, ChargeCounts
  <2> HIDE DEF it, u2
  <2>11. /\ {"pc", "ask", "plan", "done", "cur", "usage"} \subseteq DOMAIN t
         /\ t.ask = a /\ t.plan = run.plan /\ t.cur = cur2 /\ t.done = done2
         /\ t.usage = u2 /\ t.pc = "ready"
    BY <1>1, <1>2
  <2>12. run' = t
    BY <1>1, <1>4
  <2> HIDE DEF t, a, cur
  <2>13. Going(t)
    BY <1>2, <2>3, <2>4, <2>10, <2>11 DEF Going
  <2>14. RunGood(t)
    BY <1>2, <2>11, <2>13 DEF RunGood
  <2> QED BY <2>12, <2>14 DEF RunInv
<1> QED BY <1>3, <1>4

LEMMA RunSteps == RunInv /\ [RunNext]_run => RunInv'
<1> SUFFICES ASSUME RunInv, [RunNext]_run PROVE RunInv'
  OBVIOUS
<1>1. CASE PrepareRecipe
  BY <1>1, PrepareKeeps
<1>2. ASSUME NEW s \in EnabledSteps, NEW n \in 0..MaxArrayBound, StartStep(s, n) PROVE RunInv'
  BY <1>2, StartKeeps
<1>3. ASSUME NEW bytes \in CallBytes, Call(bytes) PROVE RunInv'
  BY <1>3, CallKeeps
<1>4. CASE run' = run
  BY <1>4 DEF RunInv
<1> QED BY <1>1, <1>2, <1>3, <1>4 DEF RunNext

LEMMA RunInvHolds == RunSpec => []RunInv
<1>1. RunInit => RunInv
  BY RunStarts
<1>2. RunInv /\ [RunNext]_run => RunInv'
  BY RunSteps
<1> QED BY <1>1, <1>2, PTL DEF RunSpec

LEMMA GoodRecipesRun == ASSUME RunInv PROVE AdmittedRecipesRun
<1> SUFFICES ASSUME run.pc \in {"ready", "partial"} PROVE AdmittedRecipesRun
  BY DEF AdmittedRecipesRun
<1> DEFINE a == run.ask
           d == run.ask.doc
<1>1. /\ a \in RecipeAsks /\ Admitted(a) /\ run.plan = PlanOf(a)
      /\ run.cur # NotRunning => InHand(a, run.done, run.cur)
      /\ Counts(a, run.done, run.cur, run.usage)
      /\ run.pc = "partial" => run.cur # NotRunning
      /\ EnabledSteps = Enabled(a)
  BY GoingFacts
<1>2. \A s \in run.plan.disabled: d.reqs[d.steps[s].req].opt
  BY <1>1, DisabledAreOptional
<1>3. ASSUME NEW s \in EnabledSteps, NEW k \in DOMAIN d.steps[s].inputs
      PROVE  LET m == d.steps[s].inputs[k]
                 each == d.steps[s].each
                 src == IF m.step = "$item"
                        THEN SchemaAt(SourceSchema(d, a.contracts, s, each.step, each.path).items, m.path)
                        ELSE SourceSchema(d, a.contracts, s, m.step, m.path)
             IN /\ m.step \in EnabledSteps \cup {"", "$item"}
                /\ m.step = "$item" => each.step \in EnabledSteps
                /\ \A v \in Probes: ValueOk(src, v) => ValueOk(a.contracts[d.steps[s].req].in.props[k], v)
  BY <1>1, InputsFit DEF ReadBy, InputOf
<1>4. EnabledSteps \subseteq run.done \/ run.cur # NotRunning \/ \E s \in EnabledSteps: CanStart(s)
  <2> SUFFICES ASSUME ~(EnabledSteps \subseteq run.done), run.cur = NotRunning
               PROVE  \E s \in EnabledSteps: CanStart(s)
    OBVIOUS
  <2>1. PICK s \in Enabled(a) \ run.done: d.steps[s].after \subseteq run.done
    BY <1>1, SomeStepIsNext
  <2> QED BY <1>1, <2>1 DEF CanStart
<1>5. run.pc = "partial" => Fits(d.limits, run.usage, d.steps[run.cur.step].each # NoEach, 0)
  BY <1>1, BudgetLasts
<1> QED BY <1>2, <1>3, <1>4, <1>5 DEF AdmittedRecipesRun

\* An admitted recipe runs, whatever the recipe: assignability is sound for
\* every value, disabled steps are optional and leave no enabled step without
\* its source, the order leaves some step to start, and the limits cover
\* every call there can be (Validate, assemble, Usage.Consume).
THEOREM RecipesRun == RunSpec => []AdmittedRecipesRun
<1>1. RunInv => AdmittedRecipesRun
  BY GoodRecipesRun
<1> QED BY <1>1, RunInvHolds, PTL

-----------------------------------------------------------------------------
(* The selection.                                                          *)

\* Groups are disjoint: what settles a member is the status of its group.
LEMMA SettledInGroup ==
  ASSUME NEW d, GroupsValid(d), NEW cands, NEW i \in 1..Len(d.groups), NEW k \in d.groups[i]
  PROVE  LET g == d.groups[i]
             status == GroupStatus(d, cands, g)
         IN /\ k \in DOMAIN d.reqs
            /\ status = "shared" => Settled(d, cands)[k] = {c \in cands[k]: c.conn \in Viable(d, cands, g)}
            /\ status = "dropped" => Settled(d, cands)[k] = {}
            /\ status = "untouched" => Settled(d, cands)[k] = cands[k]
<1> DEFINE of == {j \in 1..Len(d.groups): k \in d.groups[j]}
           g == d.groups[CHOOSE j \in of: TRUE]
           status == GroupStatus(d, cands, g)
<1>1. k \in DOMAIN d.reqs
  BY DEF GroupsValid
<1>2. of = {i}
  BY DEF GroupsValid
<1>3. Settled(d, cands)[k] =
        IF of = {} THEN cands[k]
        ELSE CASE status = "shared" -> {c \in cands[k]: c.conn \in Viable(d, cands, g)}
               [] status = "dropped" -> {}
               [] OTHER -> cands[k]
  BY <1>1 DEF Settled
<1>4. g = d.groups[i] /\ of # {}
  BY <1>2
<1> HIDE DEF of, g
<1>5. Settled(d, cands)[k] =
        CASE status = "shared" -> {c \in cands[k]: c.conn \in Viable(d, cands, g)}
          [] status = "dropped" -> {}
          [] OTHER -> cands[k]
  BY <1>3, <1>4
<1>6. /\ status = "shared" => Settled(d, cands)[k] = {c \in cands[k]: c.conn \in Viable(d, cands, g)}
      /\ status = "dropped" => Settled(d, cands)[k] = {}
      /\ status = "untouched" => Settled(d, cands)[k] = cands[k]
  <2> HIDE DEF status
  <2> QED BY <1>5
<1> QED BY <1>1, <1>4, <1>6

LEMMA SettledAlone ==
  ASSUME NEW d, NEW cands, NEW k \in DOMAIN d.reqs, \A i \in 1..Len(d.groups): k \notin d.groups[i]
  PROVE  Settled(d, cands)[k] = cands[k]
BY DEF Settled

LEMMA ConnectionsAreFinite ==
  ASSUME NEW S, IsFiniteSet(S)
  PROVE  IsFiniteSet(Connections(S))
<1> DEFINE f == [c \in S |-> c.conn]
<1>1. f \in Surjection(S, Connections(S))
  BY DEF Surjection, Connections
<1> HIDE DEF f
<1> QED BY <1>1, FS_Surjection

\* What the status of a group says.
LEMMA SharedMeans ==
  ASSUME NEW d, NEW cands, NEW g, \A k \in g: IsFiniteSet(cands[k]),
         GroupStatus(d, cands, g) = "shared"
  PROVE  /\ Deciding(d, cands, g) # {}
         /\ \E x: Viable(d, cands, g) = {x} /\ \A k \in Deciding(d, cands, g): x \in Connections(cands[k])
<1> DEFINE deciding == Deciding(d, cands, g)
           some == CHOOSE k \in deciding: TRUE
           V == Viable(d, cands, g)
<1>1. deciding # {} /\ Cardinality(V) = 1
  BY DEF GroupStatus
<1>2. deciding \subseteq g
  BY DEF Deciding
<1>3. V = {x \in Connections(cands[some]): \A k \in deciding: x \in Connections(cands[k])}
  BY DEF Viable
<1>4. some \in deciding
  BY <1>1
<1> HIDE DEF deciding, some, V
<1>5. IsFiniteSet(Connections(cands[some]))
  BY <1>2, <1>4, ConnectionsAreFinite
<1>6. IsFiniteSet(V)
  BY <1>3, <1>5, FS_Subset
<1>7. PICK x: V = {x}
  BY <1>1, <1>6, FS_Singleton
<1> QED BY <1>1, <1>3, <1>7 DEF deciding, V

LEMMA DroppedMeans ==
  ASSUME NEW d, NEW cands, NEW g, g \subseteq DOMAIN d.reqs, GroupStatus(d, cands, g) = "dropped"
  PROVE  g \cap Required(d) = {}
<1>1. ~(\E k \in g: ~d.reqs[k].opt)
  BY DEF GroupStatus
<1> QED BY <1>1 DEF Required

LEMMA UntouchedMeans ==
  ASSUME NEW d, NEW cands, NEW g, g \subseteq DOMAIN d.reqs, GroupStatus(d, cands, g) = "untouched"
  PROVE  g \cap Required(d) = {} /\ \A k \in g: cands[k] = {}
<1>1. Deciding(d, cands, g) = {}
  <2>1. SUFFICES ASSUME Deciding(d, cands, g) # {} PROVE FALSE
    OBVIOUS
  <2> DEFINE n == Cardinality(Viable(d, cands, g))
  <2>2. GroupStatus(d, cands, g) =
          CASE n = 0 -> IF \E k \in g: ~d.reqs[k].opt THEN "connection_mismatch" ELSE "dropped"
            [] n = 1 -> "shared"
            [] OTHER -> "requires_selection"
    BY <2>1 DEF GroupStatus
  <2> HIDE DEF n
  <2> QED BY <2>2
<1>2. ~(\E k \in g: ~d.reqs[k].opt)
  BY <1>1 DEF Deciding
<1>3. \A k \in g: cands[k] = {}
  BY <1>1, <1>2 DEF Deciding
<1> QED BY <1>2, <1>3 DEF Required

LEMMA RequiredDecide ==
  ASSUME NEW d, NEW cands, NEW g, g \subseteq DOMAIN d.reqs, NEW k \in g \cap Required(d)
  PROVE  Deciding(d, cands, g) = g \cap Required(d)
BY DEF Deciding, Required

\* A ready recipe: the facts of its selection.
Chosen(d, cands, sel) ==
  /\ GroupsValid(d)
  /\ \A k \in DOMAIN d.reqs: IsFiniteSet(cands[k]) /\ Settled(d, cands)[k] \subseteq cands[k]
  /\ \A i \in 1..Len(d.groups): GroupStatus(d, cands, d.groups[i]) \in {"untouched", "dropped", "shared"}
  /\ Required(d) \subseteq DOMAIN sel /\ DOMAIN sel \subseteq DOMAIN d.reqs
  /\ \A k \in DOMAIN sel: Settled(d, cands)[k] = {sel[k]}
  /\ \A k \in DOMAIN d.reqs \ DOMAIN sel: Settled(d, cands)[k] = {}

LEMMA SettledIsNarrower ==
  ASSUME NEW d, NEW cands, NEW k \in DOMAIN d.reqs
  PROVE  Settled(d, cands)[k] \subseteq cands[k]
<1> DEFINE of == {i \in 1..Len(d.groups): k \in d.groups[i]}
           g == d.groups[CHOOSE i \in of: TRUE]
           status == GroupStatus(d, cands, g)
           V == Viable(d, cands, g)
<1>1. Settled(d, cands)[k] =
        IF of = {} THEN cands[k]
        ELSE CASE status = "shared" -> {c \in cands[k]: c.conn \in V}
               [] status = "dropped" -> {}
               [] OTHER -> cands[k]
  BY DEF Settled
<1> HIDE DEF of, status, V, g
<1> QED BY <1>1

LEMMA SelectionIsChosen ==
  ASSUME NEW a \in RecipeAsks, Admitted(a)
  PROVE  Chosen(a.doc, Cands(a.doc, a.found, a.want), PlanOf(a).selected)
<1> DEFINE d == a.doc
           cands == Cands(d, a.found, a.want)
           settled == Settled(d, cands)
           sel == PlanOf(a).selected
<1>1. ReadyFacts(d, cands, PlanOf(a))
  BY AdmittedMeans
<1>2. GroupsValid(d)
  BY DEF Admitted, Validate
<1>3. ASSUME NEW k \in DOMAIN d.reqs PROVE IsFiniteSet(cands[k])
  <2>1. IsFiniteSet(a.found[k])
    BY RecipeAssumption
  <2>2. cands[k] \subseteq a.found[k]
    BY DEF Cands, Eligible
  <2> QED BY <2>1, <2>2, FS_Subset
<1> HIDE DEF d, cands
<1>4. \A k \in DOMAIN d.reqs: settled[k] \subseteq cands[k]
  BY SettledIsNarrower
<1>5. sel = [k \in DOMAIN d.reqs \ Missing(d, cands) |-> CHOOSE c \in settled[k]: TRUE]
  BY <1>1 DEF ReadyFacts
<1>6. \A k \in Required(d): k \in DOMAIN d.reqs /\ settled[k] # {}
  BY <1>1 DEF ReadyFacts, Required
<1>7. \A k \in DOMAIN d.reqs: ~(Cardinality(settled[k]) > 1)
  BY <1>1 DEF ReadyFacts
<1> HIDE DEF sel, settled
<1>8. DOMAIN sel = {k \in DOMAIN d.reqs: settled[k] # {}}
  BY <1>5 DEF Missing, settled
<1>9. ASSUME NEW k \in DOMAIN sel PROVE settled[k] = {sel[k]}
  <2>1. k \in DOMAIN d.reqs /\ settled[k] # {}
    BY <1>8
  <2>2. sel[k] \in settled[k]
    BY <1>5, <2>1, <1>9
  <2>3. IsFiniteSet(settled[k])
    BY <1>3, <1>4, <2>1, FS_Subset
  <2>4. Cardinality(settled[k]) \in Nat /\ Cardinality(settled[k]) # 0
    BY <2>1, <2>3, FS_CardinalityType, FS_EmptySet
  <2>5. Cardinality(settled[k]) = 1
    BY <1>7, <2>1, <2>4
  <2>6. PICK x: settled[k] = {x}
    BY <2>3, <2>5, FS_Singleton
  <2> QED BY <2>2, <2>6
<1>10. \A i \in 1..Len(d.groups): GroupStatus(d, cands, d.groups[i]) \in {"untouched", "dropped", "shared"}
  BY <1>1 DEF ReadyFacts
<1>11. Chosen(d, cands, sel)
  BY <1>2, <1>3, <1>4, <1>6, <1>8, <1>9, <1>10 DEF Chosen, settled
<1> QED BY <1>11 DEF d, cands, sel

\* Within a group what is selected has the group's connection.
LEMMA OneConnection ==
  ASSUME NEW d, NEW cands, NEW sel, Chosen(d, cands, sel), NEW i \in 1..Len(d.groups),
         NEW k \in d.groups[i] \cap DOMAIN sel
  PROVE  /\ GroupStatus(d, cands, d.groups[i]) = "shared"
         /\ sel[k].conn \in Viable(d, cands, d.groups[i])
<1> DEFINE g == d.groups[i]
           status == GroupStatus(d, cands, g)
<1>1. /\ GroupsValid(d) /\ status \in {"untouched", "dropped", "shared"}
      /\ Settled(d, cands)[k] = {sel[k]} /\ Settled(d, cands)[k] \subseteq cands[k]
  BY DEF Chosen
<1>2. g \subseteq DOMAIN d.reqs
  BY <1>1 DEF GroupsValid
<1>3. status # "untouched"
  BY <1>1, <1>2, UntouchedMeans
<1>4. status # "dropped"
  <2>1. status = "dropped" => Settled(d, cands)[k] = {}
    BY <1>1, SettledInGroup
  <2> HIDE DEF status
  <2> QED BY <1>1, <2>1
<1>5. status = "shared" => Settled(d, cands)[k] = {c \in cands[k]: c.conn \in Viable(d, cands, g)}
  BY <1>1, SettledInGroup
<1> QED BY <1>1, <1>3, <1>4, <1>5

LEMMA SelectionServes ==
  ASSUME NEW d, NEW cands, NEW sel, Chosen(d, cands, sel)
  PROVE  Serves(d, cands, sel)
<1>1. {k \in DOMAIN d.reqs: ~d.reqs[k].opt} \subseteq DOMAIN sel
  BY DEF Chosen, Required
<1>2. \A k \in DOMAIN sel: sel[k] \in cands[k]
  BY DEF Chosen
<1>3. ASSUME NEW i \in 1..Len(d.groups), NEW k \in d.groups[i] \cap DOMAIN sel, NEW l \in d.groups[i] \cap DOMAIN sel
      PROVE  sel[k].conn = sel[l].conn
  <2> DEFINE g == d.groups[i]
  <2>1. GroupStatus(d, cands, g) = "shared" /\ sel[k].conn \in Viable(d, cands, g) /\ sel[l].conn \in Viable(d, cands, g)
    BY OneConnection
  <2>2. \A m \in g: IsFiniteSet(cands[m])
    BY DEF Chosen, GroupsValid
  <2> HIDE DEF g
  <2>3. \E x: Viable(d, cands, g) = {x}
    BY <2>1, <2>2, SharedMeans
  <2> QED BY <2>1, <2>3
<1> QED BY <1>1, <1>2, <1>3 DEF Serves

\* Any other choice that serves the required capabilities is the same.
LEMMA OthersAgree ==
  ASSUME NEW d, NEW cands, NEW sel, Chosen(d, cands, sel),
         NEW other, DOMAIN other = Required(d), Serves(d, cands, other), NEW k \in Required(d)
  PROVE  other[k] = sel[k]
<1>1. k \in DOMAIN d.reqs /\ Settled(d, cands)[k] = {sel[k]} /\ other[k] \in cands[k]
  BY DEF Chosen, Serves, Required
<1>2. CASE \A i \in 1..Len(d.groups): k \notin d.groups[i]
  BY <1>1, <1>2, SettledAlone
<1>3. ASSUME NEW i \in 1..Len(d.groups), k \in d.groups[i] PROVE other[k] = sel[k]
  <2> DEFINE g == d.groups[i]
             V == Viable(d, cands, g)
             deciding == Deciding(d, cands, g)
  <2>1. GroupsValid(d) /\ g \subseteq DOMAIN d.reqs
    BY DEF Chosen, GroupsValid
  <2>2. k \in DOMAIN sel
    BY DEF Chosen
  <2>3. GroupStatus(d, cands, g) = "shared"
    BY <1>3, <2>2, OneConnection
  <2>4. Settled(d, cands)[k] = {c \in cands[k]: c.conn \in V}
    BY <1>3, <2>1, <2>3, SettledInGroup
  <2>5. deciding = g \cap Required(d)
    BY <1>3, <2>1, RequiredDecide
  <2>6. \A l \in deciding: other[l] \in cands[l] /\ other[l].conn = other[k].conn
    BY <1>3, <2>5 DEF Serves
  <2>7. \A l \in deciding: other[k].conn \in Connections(cands[l])
    BY <2>6 DEF Connections
  <2>8. (CHOOSE l \in deciding: TRUE) \in deciding
    BY <1>3, <2>5
  <2>9. other[k].conn \in V
    BY <2>7, <2>8 DEF Viable
  <2> HIDE DEF V
  <2> QED BY <1>1, <2>4, <2>9
<1> QED BY <1>2, <1>3

\* What is left out fits nowhere in its group.
LEMMA LeftOutFitsNowhere ==
  ASSUME NEW d, NEW cands, NEW sel, Chosen(d, cands, sel),
         NEW k \in DOMAIN d.reqs \ DOMAIN sel, NEW c \in cands[k]
  PROVE  \E i \in 1..Len(d.groups):
           /\ k \in d.groups[i]
           /\ \/ \E l \in d.groups[i] \cap DOMAIN sel: sel[l].conn # c.conn
              \/ d.groups[i] \cap (DOMAIN sel \cup Required(d)) = {}
<1>1. Settled(d, cands)[k] = {} /\ GroupsValid(d)
  BY DEF Chosen
<1>2. PICK i \in 1..Len(d.groups): k \in d.groups[i]
  BY <1>1, SettledAlone
<1> DEFINE g == d.groups[i]
           V == Viable(d, cands, g)
           deciding == Deciding(d, cands, g)
           status == GroupStatus(d, cands, g)
<1>3. g \subseteq DOMAIN d.reqs /\ status \in {"untouched", "dropped", "shared"}
  BY DEF Chosen, GroupsValid
<1>4. CASE status = "shared"
  <2>1. \A m \in g: IsFiniteSet(cands[m])
    BY <1>3 DEF Chosen
  <2>2. PICK x: V = {x} /\ \A l \in deciding: x \in Connections(cands[l])
    BY <1>4, <2>1, SharedMeans
  <2>3. PICK l \in deciding: TRUE
    BY <1>4, <2>1, SharedMeans
  <2>4. l \in g /\ \E e \in cands[l]: e.conn = x
    BY <2>2 DEF Deciding, Connections
  <2>5. Settled(d, cands)[l] = {e \in cands[l]: e.conn \in V}
    BY <1>1, <1>4, <2>4, SettledInGroup
  <2>6. Settled(d, cands)[l] # {}
    BY <2>2, <2>4, <2>5
  <2>7. l \in DOMAIN sel
    BY <1>3, <2>4, <2>6 DEF Chosen
  <2>8. sel[l].conn \in V
    BY <2>4, <2>7, OneConnection
  <2>9. Settled(d, cands)[k] = {e \in cands[k]: e.conn \in V}
    BY <1>1, <1>2, <1>4, SettledInGroup
  <2>10. c.conn \notin V
    BY <1>1, <2>9
  <2>11. sel[l].conn # c.conn
    BY <2>8, <2>10
  <2> QED BY <1>2, <2>4, <2>7, <2>11
<1>5. CASE status = "dropped"
  <2>1. g \cap Required(d) = {}
    BY <1>3, <1>5, DroppedMeans
  <2>2. \A l \in g: Settled(d, cands)[l] = {}
    BY <1>1, <1>5, SettledInGroup
  <2>3. g \cap DOMAIN sel = {}
    BY <2>2 DEF Chosen
  <2> QED BY <1>2, <2>1, <2>3
<1>6. status # "untouched"
  BY <1>2, <1>3, UntouchedMeans
<1> QED BY <1>3, <1>4, <1>5, <1>6

LEMMA GoodSelectionsAreForced == ASSUME RunInv PROVE SelectionIsForced
<1> SUFFICES ASSUME run.plan.status = "ready" PROVE SelectionIsForced
  BY DEF SelectionIsForced
<1> DEFINE a == run.ask
           d == run.ask.doc
           cands == [k \in DOMAIN d.reqs |-> Eligible(run.ask.found, run.ask.want, k)]
           required == {k \in DOMAIN d.reqs: ~d.reqs[k].opt}
           sel == run.plan.selected
<1>1. run.pc \in {"ready", "partial"}
  BY DEF RunInv, RunGood
<1>2. a \in RecipeAsks /\ Admitted(a) /\ sel = PlanOf(a).selected
  BY <1>1, GoingFacts
<1>3. cands = Cands(d, a.found, a.want) /\ required = Required(d)
  BY DEF Cands, Required
<1>4. Chosen(d, cands, sel)
  BY <1>2, <1>3, SelectionIsChosen
<1> HIDE DEF a, d, cands, sel, required
<1>5. Serves(d, cands, sel)
  BY <1>4, SelectionServes
<1>6. \A other \in [required -> UNION {cands[k]: k \in required}]:
        Serves(d, cands, other) => \A k \in required: other[k] = sel[k]
  BY <1>3, <1>4, OthersAgree
<1>7. \A k \in DOMAIN d.reqs \ DOMAIN sel: \A c \in cands[k]:
        \E i \in 1..Len(d.groups):
          /\ k \in d.groups[i]
          /\ \/ \E l \in d.groups[i] \cap DOMAIN sel: sel[l].conn # c.conn
             \/ d.groups[i] \cap (DOMAIN sel \cup required) = {}
  BY <1>3, <1>4, LeftOutFitsNowhere
<1> QED BY <1>5, <1>6, <1>7 DEF SelectionIsForced, d, cands, sel, required

\* A ready selection is the only one, whatever the recipe and the candidates:
\* a group is settled by the members that decide it, and what it leaves out
\* fits nowhere (assemble).
THEOREM SelectionsAreForced == RunSpec => []SelectionIsForced
<1>1. RunInv => SelectionIsForced
  BY GoodSelectionsAreForced
<1> QED BY <1>1, RunInvHolds, PTL

-----------------------------------------------------------------------------
(* The ranking of the registry.                                            *)

\* Finitely many records of distinct places, and finitely many terms.
Rankable(S, terms) ==
  /\ IsFiniteSet(S) /\ IsFiniteSet(terms)
  /\ \A r \in S: r.ref \in Nat
  /\ \A r, s \in S: r.ref = s.ref => r = s

PlaceOf(r, S, terms) == Cardinality({o \in S: Before(o, r, terms)})

LEMMA ScoresAreNumbers ==
  ASSUME NEW terms, IsFiniteSet(terms), NEW fields
  PROVE  Score(fields, terms).terms \in Nat /\ Score(fields, terms).weight \in Nat
<1>1. \A X: Cardinality(terms \cap X) \in Nat
  <2> SUFFICES ASSUME NEW X PROVE Cardinality(terms \cap X) \in Nat
    OBVIOUS
  <2>1. terms \cap X \subseteq terms
    OBVIOUS
  <2> QED BY <2>1, FS_Subset, FS_CardinalityType
<1> DEFINE A == Cardinality(terms \cap TermsOf(fields))
           B == Cardinality(terms \cap fields[1])
           C == Cardinality(terms \cap (fields[1] \cup fields[2]))
<1>2. A \in Nat /\ B \in Nat /\ C \in Nat
  BY <1>1
<1>3. Score(fields, terms).terms = A /\ Score(fields, terms).weight = B + C + A
  BY DEF Score
<1> HIDE DEF A, B, C
<1> QED BY <1>2, <1>3

\* Before is a strict total order of the records.
LEMMA BeforeOrders ==
  ASSUME NEW S, NEW terms, Rankable(S, terms)
  PROVE  /\ \A a \in S: ~Before(a, a, terms)
         /\ \A a, b \in S: a # b => Before(a, b, terms) \/ Before(b, a, terms)
         /\ \A a, b, c \in S: Before(a, b, terms) /\ Before(b, c, terms) => Before(a, c, terms)
<1> DEFINE h(r) == Score(r.fields, terms).terms
           w(r) == Score(r.fields, terms).weight
<1>1. \A r \in S: h(r) \in Nat /\ w(r) \in Nat /\ r.ref \in Nat
  BY ScoresAreNumbers DEF Rankable
<1>2. \A a, b \in S: Before(a, b, terms) <=>
        \/ (h(a) > h(b) \/ (h(a) = h(b) /\ w(a) > w(b)))
        \/ ~(h(b) > h(a) \/ (h(b) = h(a) /\ w(b) > w(a))) /\ a.ref < b.ref
  BY DEF Before, Better
<1>3. \A r, s \in S: r.ref = s.ref => r = s
  BY DEF Rankable
<1> HIDE DEF h, w
<1> QED BY <1>1, <1>2, <1>3

LEMMA PlacesAreRanks ==
  ASSUME NEW S, NEW terms, Rankable(S, terms)
  PROVE  /\ Cardinality(S) \in Nat
         /\ \A r \in S: PlaceOf(r, S, terms) + 1 \in 1..Cardinality(S) /\ PlaceOf(r, S, terms) \in Nat
         /\ \A r, s \in S: Before(r, s, terms) => PlaceOf(r, S, terms) < PlaceOf(s, S, terms)
         /\ \A r, s \in S: PlaceOf(r, S, terms) = PlaceOf(s, S, terms) => r = s
<1> DEFINE P(r) == {o \in S: Before(o, r, terms)}
<1>1. IsFiniteSet(S) /\ Cardinality(S) \in Nat
  BY FS_CardinalityType DEF Rankable
<1>2. \A r \in S: IsFiniteSet(P(r)) /\ Cardinality(P(r)) \in Nat /\ PlaceOf(r, S, terms) = Cardinality(P(r))
  <2> SUFFICES ASSUME NEW r \in S
               PROVE  IsFiniteSet(P(r)) /\ Cardinality(P(r)) \in Nat /\ PlaceOf(r, S, terms) = Cardinality(P(r))
    OBVIOUS
  <2>1. P(r) \subseteq S
    OBVIOUS
  <2>2. IsFiniteSet(P(r))
    BY <1>1, <2>1, FS_Subset
  <2>3. PlaceOf(r, S, terms) = Cardinality(P(r))
    BY DEF PlaceOf
  <2> HIDE DEF P
  <2> QED BY <2>2, <2>3, FS_CardinalityType
<1>3. ASSUME NEW r \in S PROVE Cardinality(P(r)) + 1 <= Cardinality(S)
  <2>1. r \notin P(r) /\ P(r) \subseteq S
    BY BeforeOrders
  <2>2. IsFiniteSet(P(r))
    BY <1>2
  <2> HIDE DEF P
  <2> QED BY <1>1, <2>1, <2>2, CountGrows
<1>4. ASSUME NEW r \in S, NEW s \in S, Before(r, s, terms)
      PROVE  Cardinality(P(r)) + 1 <= Cardinality(P(s))
  <2>1. P(r) \subseteq P(s) /\ r \in P(s) /\ r \notin P(r)
    BY <1>4, BeforeOrders
  <2>2. IsFiniteSet(P(r)) /\ IsFiniteSet(P(s))
    BY <1>2
  <2> HIDE DEF P
  <2> QED BY <2>1, <2>2, CountGrows
<1> HIDE DEF P
<1>5. \A r \in S: PlaceOf(r, S, terms) \in Nat /\ PlaceOf(r, S, terms) + 1 \in 1..Cardinality(S)
  BY <1>1, <1>2, <1>3
<1>6. \A r, s \in S: Before(r, s, terms) => PlaceOf(r, S, terms) < PlaceOf(s, S, terms)
  BY <1>2, <1>4
<1>7. ASSUME NEW r \in S, NEW s \in S, PlaceOf(r, S, terms) = PlaceOf(s, S, terms) PROVE r = s
  <2>1. ~Before(r, s, terms) /\ ~Before(s, r, terms)
    BY <1>5, <1>6, <1>7
  <2> QED BY <2>1, BeforeOrders
<1> QED BY <1>1, <1>5, <1>6, <1>7

\* Every place is taken.
LEMMA PlacesAreTaken ==
  ASSUME NEW S, NEW terms, Rankable(S, terms), NEW i \in 1..Cardinality(S)
  PROVE  \E r \in S: PlaceOf(r, S, terms) = i - 1
<1> DEFINE T == 1..Cardinality(S)
           f == [r \in S |-> PlaceOf(r, S, terms) + 1]
<1>1. /\ Cardinality(S) \in Nat
      /\ \A r \in S: PlaceOf(r, S, terms) + 1 \in T /\ PlaceOf(r, S, terms) \in Nat
      /\ \A r, s \in S: PlaceOf(r, S, terms) = PlaceOf(s, S, terms) => r = s
  BY PlacesAreRanks
<1>2. IsFiniteSet(T) /\ Cardinality(T) = Cardinality(S)
  <2>1. 1 \in Int /\ Cardinality(S) \in Int /\ IsFiniteSet(1..Cardinality(S))
    BY <1>1, FS_Interval
  <2>2. Cardinality(1..Cardinality(S)) = IF 1 > Cardinality(S) THEN 0 ELSE Cardinality(S) - 1 + 1
    BY <2>1, FS_Interval
  <2> QED BY <1>1, <2>1, <2>2
<1>3. f \in [S -> T] /\ \A r, s \in S: f[r] = f[s] => r = s
  BY <1>1
<1> HIDE DEF f, T
<1>4. f \in Injection(S, T)
  BY <1>3 DEF Injection, IsInjective
<1>5. f \in Surjection(S, T)
  BY <1>2, <1>4, FS_Injection
<1>6. PICK r \in S: f[r] = i
  BY <1>5 DEF Surjection, T
<1> QED BY <1>1, <1>6 DEF f

\* Ranked sorts: it lists every record once, each before those after it.
LEMMA RankedSorts ==
  ASSUME NEW S, NEW terms, Rankable(S, terms)
  PROVE  /\ Cardinality(S) \in Nat
         /\ Ranked(S, terms) \in [1..Cardinality(S) -> S]
         /\ Range(Ranked(S, terms)) = S
         /\ \A i, j \in 1..Cardinality(S):
              i < j => Before(Ranked(S, terms)[i], Ranked(S, terms)[j], terms)
<1> DEFINE n == Cardinality(S)
           R == Ranked(S, terms)
<1>1. /\ n \in Nat
      /\ \A r \in S: PlaceOf(r, S, terms) + 1 \in 1..n /\ PlaceOf(r, S, terms) \in Nat
      /\ \A r, s \in S: Before(r, s, terms) => PlaceOf(r, S, terms) < PlaceOf(s, S, terms)
      /\ \A r, s \in S: PlaceOf(r, S, terms) = PlaceOf(s, S, terms) => r = s
  BY PlacesAreRanks
<1>2. R = [i \in 1..n |-> CHOOSE r \in S: PlaceOf(r, S, terms) = i - 1]
  BY DEF Ranked, PlaceOf
<1> HIDE DEF R, n
<1>3. ASSUME NEW i \in 1..n PROVE R[i] \in S /\ PlaceOf(R[i], S, terms) = i - 1
  <2>1. \E r \in S: PlaceOf(r, S, terms) = i - 1
    BY PlacesAreTaken DEF n
  <2> QED BY <1>2, <2>1
<1>4. R \in [1..n -> S]
  BY <1>2, <1>3
<1>5. ASSUME NEW r \in S PROVE r \in Range(R)
  <2> DEFINE i == PlaceOf(r, S, terms) + 1
  <2>1. i \in 1..n /\ i - 1 = PlaceOf(r, S, terms)
    BY <1>1
  <2> HIDE DEF i
  <2>2. R[i] = r
    BY <1>1, <1>3, <2>1
  <2> QED BY <1>4, <2>1, <2>2 DEF Range
<1>6. Range(R) = S
  BY <1>4, <1>5 DEF Range
<1>7. ASSUME NEW i \in 1..n, NEW j \in 1..n, i < j PROVE Before(R[i], R[j], terms)
  <2> DEFINE a == R[i]
             b == R[j]
  <2>1. a \in S /\ b \in S /\ PlaceOf(a, S, terms) = i - 1 /\ PlaceOf(b, S, terms) = j - 1
    BY <1>3
  <2> HIDE DEF a, b
  <2>2. a # b /\ ~(PlaceOf(b, S, terms) < PlaceOf(a, S, terms))
    BY <1>7, <2>1
  <2>3. Before(a, b, terms) \/ Before(b, a, terms)
    BY <2>1, <2>2, BeforeOrders
  <2> QED BY <1>1, <2>1, <2>2, <2>3 DEF a, b
<1> QED BY <1>1, <1>4, <1>6, <1>7 DEF R, n

\* The record at a place is the one that as many come before.
LEMMA RankedByPlace ==
  ASSUME NEW S, NEW terms, Rankable(S, terms)
  PROVE  LET n == Cardinality(S)
             R == Ranked(S, terms)
         IN /\ n \in Nat /\ R \in [1..n -> S]
            /\ \A i \in 1..n: PlaceOf(R[i], S, terms) = i - 1
            /\ \A r \in S: /\ PlaceOf(r, S, terms) \in Nat
                           /\ PlaceOf(r, S, terms) + 1 \in 1..n
                           /\ R[PlaceOf(r, S, terms) + 1] = r
<1> DEFINE n == Cardinality(S)
           R == Ranked(S, terms)
<1>1. n \in Nat /\ R \in [1..n -> S]
  BY RankedSorts
<1>2. R = [i \in 1..n |-> CHOOSE r \in S: PlaceOf(r, S, terms) = i - 1]
  BY DEF Ranked, PlaceOf
<1>3. /\ \A r \in S: PlaceOf(r, S, terms) + 1 \in 1..n /\ PlaceOf(r, S, terms) \in Nat
      /\ \A r, s \in S: PlaceOf(r, S, terms) = PlaceOf(s, S, terms) => r = s
  BY PlacesAreRanks
<1>4. \A i \in 1..n: \E r \in S: PlaceOf(r, S, terms) = i - 1
  BY PlacesAreTaken
<1> HIDE DEF R, n
<1>5. \A i \in 1..n: R[i] \in S /\ PlaceOf(R[i], S, terms) = i - 1
  BY <1>2, <1>4
<1>6. ASSUME NEW r \in S PROVE R[PlaceOf(r, S, terms) + 1] = r
  <2> DEFINE i == PlaceOf(r, S, terms) + 1
  <2>1. i \in 1..n /\ i - 1 = PlaceOf(r, S, terms)
    BY <1>3
  <2> HIDE DEF i
  <2>2. R[i] = r
    BY <1>3, <1>5, <2>1
  <2> QED BY <2>2 DEF i
<1> QED BY <1>1, <1>3, <1>5, <1>6 DEF R, n

\* Among fewer records, no record is placed further down.
LEMMA PlacesShrink ==
  ASSUME NEW S, NEW terms, Rankable(S, terms), NEW T \in SUBSET S, NEW r
  PROVE  /\ PlaceOf(r, T, terms) \in Nat /\ PlaceOf(r, S, terms) \in Nat
         /\ PlaceOf(r, T, terms) <= PlaceOf(r, S, terms)
<1> DEFINE A == {o \in T: Before(o, r, terms)}
           B == {o \in S: Before(o, r, terms)}
<1>1. B \subseteq S /\ A \subseteq B
  OBVIOUS
<1>2. PlaceOf(r, T, terms) = Cardinality(A) /\ PlaceOf(r, S, terms) = Cardinality(B)
  BY DEF PlaceOf
<1> HIDE DEF A, B
<1>3. IsFiniteSet(B)
  BY <1>1, FS_Subset DEF Rankable
<1>4. IsFiniteSet(A) /\ Cardinality(A) <= Cardinality(B)
  BY <1>1, <1>3, FS_Subset
<1>5. Cardinality(A) \in Nat /\ Cardinality(B) \in Nat
  BY <1>3, <1>4, FS_CardinalityType
<1> QED BY <1>2, <1>4, <1>5

LEMMA RankedIsSeq ==
  ASSUME NEW S, NEW terms, Rankable(S, terms)
  PROVE  Ranked(S, terms) \in Seq(S) /\ Len(Ranked(S, terms)) \in Nat
<1> DEFINE n == Cardinality(S)
           R == Ranked(S, terms)
<1>1. n \in Nat /\ R \in [1..n -> S]
  BY RankedSorts
<1> HIDE DEF n, R
<1>2. R \in Seq(S)
  BY <1>1
<1> QED BY <1>2 DEF R

LEMMA MinOfPair ==
  ASSUME NEW a \in Nat, NEW b \in Nat
  PROVE  Min({a, b}) \in {a, b} /\ Min({a, b}) <= a /\ Min({a, b}) <= b
<1>1. \E x \in {a, b}: \A y \in {a, b}: x <= y
  OBVIOUS
<1> QED BY <1>1 DEF Min

LEMMA SubsetsRank ==
  ASSUME NEW S, NEW terms, Rankable(S, terms), NEW T \in SUBSET S
  PROVE  Rankable(T, terms)
BY FS_Subset DEF Rankable

\* A prefix of a prefix is a prefix.
LEMMA PrefixFacts ==
  ASSUME NEW S, NEW s \in Seq(S), NEW m \in 0..Len(s)
  PROVE  /\ SubSeq(s, 1, m) \in Seq(S) /\ Len(SubSeq(s, 1, m)) = m
         /\ \A i \in 1..m: SubSeq(s, 1, m)[i] = s[i] /\ s[i] \in S
<1>1. Len(s) \in Nat /\ m \in Nat /\ m <= Len(s)
  OBVIOUS
<1>2. \A i \in 1..m: i \in 1..Len(s) /\ s[i] \in S
  BY <1>1
<1>3. /\ SubSeq(s, 1, m) \in Seq(S)
      /\ Len(SubSeq(s, 1, m)) = IF 1 <= m THEN m - 1 + 1 ELSE 0
      /\ \A i \in 1..(m - 1 + 1): SubSeq(s, 1, m)[i] = s[1 + i - 1]
  BY <1>1, <1>2, SubSeqProperties
<1>4. Len(SubSeq(s, 1, m)) = m
  BY <1>1, <1>3
<1>5. \A i \in 1..m: SubSeq(s, 1, m)[i] = s[i]
  <2> SUFFICES ASSUME NEW i \in 1..m PROVE SubSeq(s, 1, m)[i] = s[i]
    OBVIOUS
  <2>1. i \in 1..(m - 1 + 1) /\ 1 + i - 1 = i
    BY <1>1
  <2> QED BY <1>3, <2>1
<1> QED BY <1>2, <1>3, <1>4, <1>5

LEMMA PrefixOfPrefix ==
  ASSUME NEW S, NEW s \in Seq(S), NEW m \in 0..Len(s), NEW k \in 0..m
  PROVE  SubSeq(SubSeq(s, 1, m), 1, k) = SubSeq(s, 1, k)
<1> DEFINE t == SubSeq(s, 1, m)
<1>1. Len(s) \in Nat /\ m \in Nat /\ k \in Nat /\ k <= m /\ k \in 0..Len(s)
  OBVIOUS
<1>2. t \in Seq(S) /\ Len(t) = m /\ \A i \in 1..m: t[i] = s[i]
  BY PrefixFacts
<1> HIDE DEF t
<1>3. /\ SubSeq(t, 1, k) \in Seq(S) /\ Len(SubSeq(t, 1, k)) = k
      /\ \A i \in 1..k: SubSeq(t, 1, k)[i] = t[i]
  BY <1>2, PrefixFacts
<1>4. /\ SubSeq(s, 1, k) \in Seq(S) /\ Len(SubSeq(s, 1, k)) = k
      /\ \A i \in 1..k: SubSeq(s, 1, k)[i] = s[i]
  BY <1>1, PrefixFacts
<1>5. \A i \in 1..k: SubSeq(t, 1, k)[i] = SubSeq(s, 1, k)[i]
  BY <1>1, <1>2, <1>3, <1>4
<1>6. SubSeq(t, 1, k) = SubSeq(s, 1, k)
  BY <1>3, <1>4, <1>5, SeqEqual
<1> QED BY <1>6 DEF t

LEMMA PageLimits ==
  ASSUME NEW q, MaxPage \in Nat \ {0}, q.limit \in Nat \ {0}
  PROVE  PageLimit(q) \in Nat \ {0} /\ PageLimit(q) <= q.limit
BY DEF PageLimit

\* A page of the store holds the best of the hits that the scan reaches.
LEMMA PageFacts ==
  ASSUME NEW rows, NEW q, Rankable(rows, q.terms), MaxPage \in Nat \ {0}, q.limit \in Nat \ {0}
  PROVE  LET page == CatalogPage(rows, q)
             hits == TextHits(Scanned(rows, q), q)
         IN /\ hits \subseteq Listed(rows, q) /\ hits \subseteq rows
            /\ page \in Seq(rows)
            /\ Range(page) = {r \in hits: PlaceOf(r, hits, q.terms) < PageLimit(q)}
<1> DEFINE hits == TextHits(Scanned(rows, q), q)
           n == Cardinality(hits)
           ranked == Ranked(hits, q.terms)
           m == Min({PageLimit(q), Len(ranked)})
           page == CatalogPage(rows, q)
<1>1. page = SubSeq(ranked, 1, m)
  BY DEF CatalogPage
<1>2. PageLimit(q) \in Nat
  BY PageLimits
<1>3. hits \subseteq Listed(rows, q) /\ hits \subseteq rows
  BY DEF TextHits, Scanned, Listed
<1> HIDE DEF hits, page
<1>4. Rankable(hits, q.terms)
  BY <1>3, SubsetsRank
<1>5. /\ n \in Nat /\ ranked \in [1..n -> hits]
      /\ \A i \in 1..n: PlaceOf(ranked[i], hits, q.terms) = i - 1
      /\ \A r \in hits: /\ PlaceOf(r, hits, q.terms) \in Nat
                        /\ PlaceOf(r, hits, q.terms) + 1 \in 1..n
                        /\ ranked[PlaceOf(r, hits, q.terms) + 1] = r
  BY <1>4, RankedByPlace
<1> HIDE DEF ranked, n
<1>6. ranked \in Seq(hits) /\ Len(ranked) = n
  BY <1>5
<1>7. m \in {PageLimit(q), n} /\ m <= PageLimit(q) /\ m <= n
  BY <1>2, <1>5, <1>6, MinOfPair
<1> HIDE DEF m
<1>8. m \in 0..n /\ m \in Nat
  BY <1>2, <1>5, <1>7
<1>9. page \in Seq(hits) /\ Len(page) = m /\ \A i \in 1..m: page[i] = ranked[i]
  BY <1>1, <1>6, <1>8, PrefixFacts
<1>10. ASSUME NEW r, r \in Range(page) PROVE r \in hits /\ PlaceOf(r, hits, q.terms) < PageLimit(q)
  <2>1. PICK i \in DOMAIN page: r = page[i]
    BY <1>10 DEF Range
  <2>2. i \in 1..m /\ i \in 1..n
    BY <1>5, <1>7, <1>8, <1>9, <2>1
  <2>3. r = ranked[i]
    BY <1>9, <2>1, <2>2
  <2>4. r \in hits /\ PlaceOf(r, hits, q.terms) = i - 1
    BY <1>5, <2>2, <2>3
  <2> QED BY <1>2, <1>7, <1>8, <2>2, <2>4
<1>11. ASSUME NEW r \in hits, PlaceOf(r, hits, q.terms) < PageLimit(q) PROVE r \in Range(page)
  <2> DEFINE i == PlaceOf(r, hits, q.terms) + 1
  <2>1. i \in 1..n /\ i <= PageLimit(q) /\ ranked[i] = r
    BY <1>2, <1>5, <1>11
  <2> HIDE DEF i
  <2>2. i \in 1..m
    <3>1. i \in Nat /\ 1 <= i /\ i <= n
      BY <1>5, <2>1
    <3>2. i <= m
      BY <1>7, <2>1, <3>1
    <3> QED BY <1>8, <3>1, <3>2
  <2>3. i \in DOMAIN page /\ page[i] = r
    BY <1>9, <2>1, <2>2
  <2> QED BY <2>3 DEF Range
<1>12. Range(page) = {r \in hits: PlaceOf(r, hits, q.terms) < PageLimit(q)}
  BY <1>10, <1>11
<1>13. page \in Seq(rows)
  BY <1>3, <1>9
<1> QED BY <1>3, <1>12, <1>13 DEF page, hits

\* A hit is on the page unless the scan or the page ended before it.
LEMMA ListedHitsArePaged ==
  ASSUME NEW rows, NEW q, Rankable(rows, q.terms), MaxPage \in Nat \ {0}, MaxScan \in Nat \ {0},
         q.limit \in Nat \ {0},
         NEW r \in TextHits(Listed(rows, q), q), ~PastTheScan(r, rows, q), ~OffThePage(r, rows, q)
  PROVE  r \in Range(CatalogPage(rows, q))
<1> DEFINE listed == Listed(rows, q)
           hits == TextHits(Scanned(rows, q), q)
           all == TextHits(listed, q)
           S == {o \in listed: o.ref < r.ref}
<1>1. listed \subseteq rows /\ all \subseteq listed /\ hits \subseteq all
  BY DEF Listed, TextHits, Scanned
<1>2. PageLimit(q) \in Nat /\ ScanLimit(q) \in Nat
  BY PageLimits DEF ScanLimit
<1>3. IsFiniteSet(listed)
  BY <1>1, FS_Subset DEF Rankable
<1>4. Cardinality(S) < ScanLimit(q)
  <2>1. S \subseteq listed /\ ~(Cardinality(S) >= ScanLimit(q))
    BY DEF PastTheScan
  <2> HIDE DEF S, listed
  <2>2. Cardinality(S) \in Nat
    BY <1>3, <2>1, FS_Subset, FS_CardinalityType
  <2> QED BY <1>2, <2>1, <2>2
<1>5. r \in hits
  BY <1>4 DEF Scanned, TextHits
<1>6. Rankable(all, q.terms)
  <2> HIDE DEF all, listed
  <2> QED BY <1>1, SubsetsRank
<1> HIDE DEF hits, all, listed, S
<1>7. /\ PlaceOf(r, hits, q.terms) \in Nat /\ PlaceOf(r, all, q.terms) \in Nat
      /\ PlaceOf(r, hits, q.terms) <= PlaceOf(r, all, q.terms)
  BY <1>1, <1>6, PlacesShrink
<1>8. ~(PlaceOf(r, all, q.terms) >= PageLimit(q))
  BY DEF OffThePage, PlaceOf, all, listed
<1>9. PlaceOf(r, hits, q.terms) < PageLimit(q)
  BY <1>2, <1>7, <1>8
<1> QED BY <1>5, <1>9, PageFacts DEF hits

\* Every non-empty set of naturals with a bound has a greatest member.
LEMMA GreatestExists ==
  ASSUME NEW K \in Nat, NEW S \in SUBSET (0..K), S # {}
  PROVE  Max(S) \in S /\ \A y \in S: y <= Max(S)
<1> DEFINE D == {K - n: n \in S}
<1>1. D \in SUBSET Nat /\ D # {}
  <2>1. \A n \in S: K - n \in Nat
    <3> TAKE n \in S
    <3>1. n \in 0..K
      OBVIOUS
    <3> QED BY <3>1
  <2>2. D \subseteq Nat
    BY <2>1
  <2> QED BY <2>2
<1>2. PICK x \in D: \A y \in D: x <= y
  <2> HIDE DEF D
  <2> QED BY <1>1, LeastExists
<1>3. PICK n \in S: x = K - n
  BY <1>2
<1>4. \A y \in S: n >= y
  <2> SUFFICES ASSUME NEW y \in S PROVE n >= y
    OBVIOUS
  <2>1. n \in 0..K /\ y \in 0..K
    OBVIOUS
  <2>2. K - y \in D
    OBVIOUS
  <2>3. K - n <= K - y
    BY <1>2, <1>3, <2>2
  <2> HIDE DEF D
  <2> QED BY <2>1, <2>3
<1> QED BY <1>4 DEF Max

\* What is taken is the best of what is ranked, until one does not fit.
LEMMA TakesThePrefix ==
  ASSUME NEW S, NEW ranked \in Seq(S), NEW q, q.limit \in Nat \ {0}
  PROVE  \E m \in 0..Len(ranked):
           /\ TakeWhileFits(ranked, q) = SubSeq(ranked, 1, m)
           /\ \/ m = Len(ranked) \/ m = q.limit
              \/ ~(ResponseBytes(SubSeq(ranked, 1, m + 1), FALSE, 0) <= q.max)
<1> DEFINE K == Min({q.limit, Len(ranked)})
           fits(k) == ResponseBytes(SubSeq(ranked, 1, k), FALSE, 0) <= q.max
           taken == {n \in 0..K: \A k \in 1..n: fits(k)}
           m == Max(taken)
<1>1. TakeWhileFits(ranked, q) = SubSeq(ranked, 1, m)
  BY DEF TakeWhileFits
<1>2. q.limit \in Nat /\ Len(ranked) \in Nat
  OBVIOUS
<1>3. K \in {q.limit, Len(ranked)} /\ K <= Len(ranked) /\ K <= q.limit
  BY <1>2, MinOfPair
<1>4. K \in Nat
  BY <1>2, <1>3
<1>f. fits(m + 1) => ResponseBytes(SubSeq(ranked, 1, m + 1), FALSE, 0) <= q.max
  OBVIOUS
<1> HIDE DEF K, fits
<1>5. 0 \in taken /\ taken \in SUBSET (0..K)
  <2>1. 0 \in 0..K /\ 1..0 = {}
    BY <1>4
  <2> QED BY <2>1
<1>t. \A n: n \in taken <=> n \in 0..K /\ \A k \in 1..n: fits(k)
  OBVIOUS
<1> HIDE DEF taken
<1>6. m \in taken /\ \A y \in taken: y <= m
  BY <1>4, <1>5, GreatestExists
<1>7. m \in 0..Len(ranked) /\ m \in 0..K
  <2>1. m \in 0..K
    BY <1>5, <1>6
  <2> QED BY <1>2, <1>3, <1>4, <2>1
<1> HIDE DEF m
<1>8. ASSUME m # Len(ranked), m # q.limit PROVE ~fits(m + 1)
  <2>1. m + 1 \in 0..K
    BY <1>2, <1>3, <1>4, <1>7, <1>8
  <2>2. m + 1 \notin taken
    BY <1>4, <1>6, <1>7
  <2>3. PICK k \in 1..(m + 1): ~fits(k)
    BY <1>t, <2>1, <2>2
  <2>4. k \notin 1..m
    BY <1>t, <1>6, <2>3
  <2>5. k = m + 1
    BY <1>4, <1>7, <2>3, <2>4
  <2> QED BY <2>3, <2>5
<1>9. m = Len(ranked) \/ m = q.limit \/ ~(ResponseBytes(SubSeq(ranked, 1, m + 1), FALSE, 0) <= q.max)
  BY <1>8 DEF fits
<1> QED BY <1>1, <1>7, <1>9

\* Of an estimate only the number of digits counts.
LEMMA DigitsDecide ==
  ASSUME NEW cands, NEW cursor, NEW e
  PROVE  \E d \in {0, 10, 100}: ResponseBytes(cands, cursor, e) = ResponseBytes(cands, cursor, d)
<1>1. Digits(0) = 1 /\ Digits(10) = 2 /\ Digits(100) = 3
  BY DEF Digits
<1>2. \E d \in {0, 10, 100}: Digits(e) = Digits(d)
  <2>1. Digits(e) \in {1, 2, 3}
    BY DEF Digits
  <2> QED BY <1>1, <2>1
<1>3. PICK d \in {0, 10, 100}: Digits(e) = Digits(d)
  BY <1>2
<1> DEFINE tail == SumFunction([i \in 1..Len(cands) |-> cands[i].size])
           bytes(n) == FrameBytes + (IF cursor THEN CursorBytes ELSE 0) + (n - 1) + tail
                         + (IF cands = <<>> THEN 0 ELSE Len(cands) - 1)
<1>4. ResponseBytes(cands, cursor, e) = bytes(Digits(e)) /\ ResponseBytes(cands, cursor, d) = bytes(Digits(d))
  BY DEF ResponseBytes
<1> HIDE DEF bytes
<1>5. ResponseBytes(cands, cursor, e) = ResponseBytes(cands, cursor, d)
  BY <1>3, <1>4
<1> QED BY <1>5

\* What is given in the end leaves only the tail, and fits with its estimate
\* where one more would not.
LEMMA ShrinksFromTheTail ==
  ASSUME NEW cands, Len(cands) \in Nat, NEW cursor, NEW max
  PROVE  \/ Shrink(cands, cursor, max) = Refused
         \/ \E k \in 0..Len(cands): \E e, f:
              /\ Shrink(cands, cursor, max) = [ok |-> TRUE, cands |-> SubSeq(cands, 1, k), estimate |-> e]
              /\ ResponseBytes(SubSeq(cands, 1, k), cursor, e) <= max
              /\ k = Len(cands) \/ ~(ResponseBytes(SubSeq(cands, 1, k + 1), cursor, f) <= max)
<1> DEFINE left(i) == SubSeq(cands, 1, Len(cands) - i)
           est == CHOOSE f: f = [i \in 0..Len(cands) |->
                    (ResponseBytes(left(i), cursor, IF i = 0 THEN 0 ELSE f[i - 1]) + 3) \div 4]
           fits == {i \in 0..Len(cands): ResponseBytes(left(i), cursor, est[i]) <= max}
<1>1. Shrink(cands, cursor, max) =
        IF fits = {} THEN Refused
        ELSE [ok |-> TRUE, cands |-> left(Min(fits)), estimate |-> est[Min(fits)]]
  BY DEF Shrink
<1> HIDE DEF est
<1>2. CASE fits = {}
  BY <1>1, <1>2
<1>3. CASE fits # {}
  <2>1. fits \in SUBSET Nat
    OBVIOUS
  <2>2. \E x \in fits: \A y \in fits: x <= y
    <3> HIDE DEF fits
    <3> QED BY <1>3, <2>1, LeastExists
  <2>3. Min(fits) \in fits /\ \A y \in fits: Min(fits) <= y
    <3> HIDE DEF fits
    <3> QED BY <2>2 DEF Min
  <2> DEFINE i == Min(fits)
             k == Len(cands) - i
  <2>4. i \in 0..Len(cands) /\ ResponseBytes(SubSeq(cands, 1, k), cursor, est[i]) <= max
    BY <2>3
  <2>5. Shrink(cands, cursor, max) = [ok |-> TRUE, cands |-> SubSeq(cands, 1, k), estimate |-> est[i]]
    BY <1>1, <1>3
  <2>5a. ASSUME i # 0 PROVE ~(ResponseBytes(left(i - 1), cursor, est[i - 1]) <= max)
    <3>1. i - 1 \in 0..Len(cands) /\ ~(i <= i - 1)
      <4> HIDE DEF i
      <4> QED BY <2>4, <2>5a
    <3>2. i - 1 \notin fits
      <4>1. \A y \in fits: i <= y
        BY <2>3
      <4> HIDE DEF i, fits
      <4> QED BY <3>1, <4>1
    <3>3. i - 1 \in 0..Len(cands) => (ResponseBytes(left(i - 1), cursor, est[i - 1]) <= max => i - 1 \in fits)
      OBVIOUS
    <3> HIDE DEF i, fits, left
    <3> QED BY <3>1, <3>2, <3>3
  <2> HIDE DEF i
  <2>6. k \in 0..Len(cands) /\ Len(cands) - (i - 1) = k + 1 /\ (i = 0 <=> k = Len(cands))
    BY <2>4
  <2>7. left(i - 1) = SubSeq(cands, 1, k + 1)
    BY <2>6
  <2>8. k = Len(cands) \/ ~(ResponseBytes(SubSeq(cands, 1, k + 1), cursor, est[i - 1]) <= max)
    <3> HIDE DEF k, left
    <3> QED BY <2>5a, <2>6, <2>7
  <2> HIDE DEF k
  <2> QED BY <2>4, <2>5, <2>6, <2>8
<1> QED BY <1>2, <1>3

-----------------------------------------------------------------------------
(* The answer of a registry search.                                        *)

Seen(page, q) == {r \in Range(page): Visible(r, q)}

\* Discover cuts its answer from the ranking of what may be seen: to the
\* limit, or where one more would not fit.
LEMMA DiscoverFacts ==
  ASSUME NEW rows, NEW q, Rankable(rows, q.terms), q.limit \in Nat \ {0},
         NEW page, Range(page) \subseteq rows
  PROVE  LET out == Discover(page, q)
             shown == Ranked(Seen(page, q), q.terms)
         IN \/ out = Refused
            \/ /\ out.ok
               /\ ResponseBytes(out.cands, q.cursor, out.estimate) <= q.max
               /\ \E k \in 0..Len(shown):
                    /\ out.cands = SubSeq(shown, 1, k)
                    /\ k = Len(shown) \/ k = q.limit \/ OverBudget(SubSeq(shown, 1, k + 1), q)
<1> DEFINE S == Seen(page, q)
           shown == Ranked(S, q.terms)
           taken == TakeWhileFits(shown, q)
           out == Discover(page, q)
<1>1. out = Refused \/ out = Shrink(taken, q.cursor, q.max)
  BY DEF Discover, Seen
<1>2. S \subseteq rows
  BY DEF Seen
<1> HIDE DEF S
<1>3. Rankable(S, q.terms)
  BY <1>2, SubsetsRank
<1>4. shown \in Seq(S) /\ Len(shown) \in Nat
  BY <1>3, RankedIsSeq
<1> HIDE DEF shown
<1> DEFINE Over(n) == OverBudget(SubSeq(shown, 1, n), q)
           Ends(n) == n = Len(shown) \/ n = q.limit \/ Over(n + 1)
<1>o. ASSUME NEW n, NEW c \in {FALSE, q.cursor}, NEW e, ~(ResponseBytes(SubSeq(shown, 1, n), c, e) <= q.max)
      PROVE  Over(n)
  <2> DEFINE s == SubSeq(shown, 1, n)
  <2>1. PICK d \in {0, 10, 100}: ResponseBytes(s, c, e) = ResponseBytes(s, c, d)
    BY DigitsDecide
  <2>2. ~(ResponseBytes(s, c, d) <= q.max)
    BY <1>o, <2>1
  <2> HIDE DEF s
  <2>3. OverBudget(s, q)
    BY <2>2 DEF OverBudget
  <2> QED BY <2>3 DEF s
<1>5. PICK m \in 0..Len(shown): /\ taken = SubSeq(shown, 1, m)
                                /\ \/ m = Len(shown) \/ m = q.limit
                                   \/ ~(ResponseBytes(SubSeq(shown, 1, m + 1), FALSE, 0) <= q.max)
  BY <1>4, TakesThePrefix
<1>5a. Ends(m)
  <2>1. ~(ResponseBytes(SubSeq(shown, 1, m + 1), FALSE, 0) <= q.max) => Over(m + 1)
    <3> HIDE DEF Over
    <3> QED BY <1>o
  <2> HIDE DEF Over
  <2> QED BY <1>5, <2>1
<1>6. Len(taken) = m /\ m \in Nat
  BY <1>4, <1>5, PrefixFacts
<1> HIDE DEF taken, out
<1>7. SUFFICES ASSUME out # Refused
               PROVE  /\ out.ok
                      /\ ResponseBytes(out.cands, q.cursor, out.estimate) <= q.max
                      /\ \E k \in 0..Len(shown): out.cands = SubSeq(shown, 1, k) /\ Ends(k)
  BY DEF out, shown, S
<1>8. Shrink(taken, q.cursor, q.max) # Refused
  BY <1>1, <1>7
<1> DEFINE Cut(n, e, f) ==
        /\ Shrink(taken, q.cursor, q.max) = [ok |-> TRUE, cands |-> SubSeq(taken, 1, n), estimate |-> e]
        /\ ResponseBytes(SubSeq(taken, 1, n), q.cursor, e) <= q.max
        /\ n = Len(taken) \/ ~(ResponseBytes(SubSeq(taken, 1, n + 1), q.cursor, f) <= q.max)
<1>9. PICK k \in 0..Len(taken): \E e, f: Cut(k, e, f)
  BY <1>6, <1>8, ShrinksFromTheTail
<1>9a. PICK e, f: Cut(k, e, f)
  BY <1>9
<1>10. k \in 0..m /\ k \in 0..Len(shown) /\ SubSeq(taken, 1, k) = SubSeq(shown, 1, k)
  <2>1. k \in 0..m /\ k \in 0..Len(shown)
    BY <1>4, <1>5, <1>6
  <2> QED BY <1>4, <1>5, <2>1, PrefixOfPrefix
<1>11. k # m => k + 1 \in 0..m /\ SubSeq(taken, 1, k + 1) = SubSeq(shown, 1, k + 1)
  <2> SUFFICES ASSUME k # m PROVE k + 1 \in 0..m /\ SubSeq(taken, 1, k + 1) = SubSeq(shown, 1, k + 1)
    OBVIOUS
  <2>1. k + 1 \in 0..m
    BY <1>6, <1>10
  <2> QED BY <1>4, <1>5, <2>1, PrefixOfPrefix
<1>12. Ends(k)
  <2>1. CASE k = m
    <3> HIDE DEF Ends
    <3> QED BY <1>5a, <2>1
  <2>2. CASE k # m
    <3>1. ~(ResponseBytes(SubSeq(taken, 1, k + 1), q.cursor, f) <= q.max)
      BY <1>6, <1>9a, <2>2
    <3>2. ~(ResponseBytes(SubSeq(shown, 1, k + 1), q.cursor, f) <= q.max)
      BY <1>11, <2>2, <3>1
    <3>3. Over(k + 1)
      <4> HIDE DEF Over
      <4> QED BY <1>o, <3>2
    <3> HIDE DEF Over
    <3> QED BY <3>3
  <2> QED BY <2>1, <2>2
<1> HIDE DEF Ends
<1>13. out.ok /\ out.cands = SubSeq(taken, 1, k) /\ out.estimate = e
  BY <1>1, <1>7, <1>9a
<1>14. ResponseBytes(out.cands, q.cursor, out.estimate) <= q.max
  BY <1>9a, <1>13
<1>15. out.cands = SubSeq(shown, 1, k)
  BY <1>10, <1>13
<1> QED BY <1>10, <1>12, <1>13, <1>14, <1>15

\* A cut of the ranking: what is left out ranks after it, and the best of
\* what is left out is next.
LEMMA CutsLeaveTheRest ==
  ASSUME NEW T, NEW terms, Rankable(T, terms), NEW k \in 0..Len(Ranked(T, terms))
  PROVE  LET shown == Ranked(T, terms)
             cands == SubSeq(shown, 1, k)
         IN /\ Range(cands) \subseteq T
            /\ \A i, j \in DOMAIN cands: i < j => Before(cands[i], cands[j], terms)
            /\ \A r \in T \ Range(cands):
                 /\ k # Len(shown)
                 /\ shown[k + 1] \in T \ Range(cands)
                 /\ shown[k + 1] = r \/ Before(shown[k + 1], r, terms)
                 /\ \A c \in Range(cands): Before(c, shown[k + 1], terms)
                 /\ PlaceOf(shown[k + 1], T, terms) = k
                 /\ Append(cands, shown[k + 1]) = SubSeq(shown, 1, k + 1)
<1> DEFINE n == Cardinality(T)
           shown == Ranked(T, terms)
           cands == SubSeq(shown, 1, k)
<1>1. /\ n \in Nat /\ shown \in [1..n -> T]
      /\ \A i \in 1..n: PlaceOf(shown[i], T, terms) = i - 1
      /\ \A r \in T: /\ PlaceOf(r, T, terms) + 1 \in 1..n
                     /\ shown[PlaceOf(r, T, terms) + 1] = r
  BY RankedByPlace
<1>2. \A i, j \in 1..n: i < j => Before(shown[i], shown[j], terms)
  BY RankedSorts
<1>3. k \in 0..Len(shown)
  OBVIOUS
<1> HIDE DEF shown, n
<1>4. shown \in Seq(T) /\ Len(shown) = n
  BY <1>1
<1>5. cands \in Seq(T) /\ Len(cands) = k /\ \A i \in 1..k: cands[i] = shown[i]
  BY <1>3, <1>4, PrefixFacts
<1>6. k \in Nat /\ k <= n /\ \A i \in 1..k: i \in 1..n
  BY <1>1, <1>3, <1>4
<1> DEFINE next == SubSeq(shown, 1, k + 1)
           s == shown[k + 1]
<1>n. ASSUME k # n PROVE next \in Seq(T) /\ Len(next) = k + 1 /\ \A i \in 1..(k + 1): next[i] = shown[i]
  <2>1. k + 1 \in 0..Len(shown)
    BY <1>1, <1>4, <1>6, <1>n
  <2> HIDE DEF next
  <2> QED BY <1>4, <2>1, PrefixFacts DEF next
<1> HIDE DEF cands, next
<1>7. \A c \in Range(cands): \E i \in 1..k: c = shown[i]
  BY <1>5 DEF Range
<1>8. Range(cands) \subseteq T
  BY <1>5 DEF Range
<1>9. \A i, j \in DOMAIN cands: i < j => Before(cands[i], cands[j], terms)
  <2> SUFFICES ASSUME NEW i \in DOMAIN cands, NEW j \in DOMAIN cands, i < j
               PROVE  Before(cands[i], cands[j], terms)
    OBVIOUS
  <2>1. i \in 1..k /\ j \in 1..k
    BY <1>5
  <2> QED BY <1>2, <1>5, <1>6, <2>1
<1>10. ASSUME NEW r \in T, r \notin Range(cands)
       PROVE  /\ k # Len(shown) /\ s \in T \ Range(cands)
              /\ s = r \/ Before(s, r, terms)
              /\ \A c \in Range(cands): Before(c, s, terms)
              /\ PlaceOf(s, T, terms) = k
              /\ Append(cands, s) = next
  <2> DEFINE j == PlaceOf(r, T, terms) + 1
  <2>1. j \in 1..n /\ shown[j] = r
    BY <1>1
  <2> HIDE DEF j
  <2>2. j \notin 1..k
    <3> SUFFICES ASSUME j \in 1..k PROVE FALSE
      OBVIOUS
    <3>1. cands[j] = r /\ j \in DOMAIN cands
      BY <1>5, <2>1
    <3> QED BY <1>10, <3>1 DEF Range
  <2>3. k # n /\ k + 1 \in 1..n /\ k + 1 <= j
    BY <1>1, <1>6, <2>1, <2>2
  <2>4. s \in T /\ PlaceOf(s, T, terms) = k
    <3>1. PlaceOf(s, T, terms) = (k + 1) - 1
      BY <1>1, <2>3
    <3> QED BY <1>1, <1>6, <2>3, <3>1
  <2>5. s = r \/ Before(s, r, terms)
    <3>1. CASE k + 1 = j
      BY <2>1, <3>1
    <3>2. CASE k + 1 # j
      <4>1. k + 1 < j
        BY <1>6, <2>1, <2>3, <3>2
      <4> QED BY <1>2, <2>1, <2>3, <4>1
    <3> QED BY <3>1, <3>2
  <2>6. \A c \in Range(cands): Before(c, s, terms)
    <3> SUFFICES ASSUME NEW c \in Range(cands) PROVE Before(c, s, terms)
      OBVIOUS
    <3>1. PICK i \in 1..k: c = shown[i]
      BY <1>7
    <3>2. i < k + 1 /\ i \in 1..n
      BY <1>6, <3>1
    <3> QED BY <1>2, <2>3, <3>1, <3>2
  <2>7. s \notin Range(cands)
    <3> HIDE DEF s
    <3> QED BY <2>4, <2>6, BeforeOrders
  <2>8. Append(cands, s) = next
    <3> DEFINE a == Append(cands, s)
    <3>1. /\ a \in Seq(T) /\ Len(a) = k + 1 /\ a[k + 1] = s
          /\ \A i \in 1..k: a[i] = cands[i]
      <4> HIDE DEF s
      <4> QED BY <1>5, <1>6, <2>4, AppendProperties
    <3>2. next \in Seq(T) /\ Len(next) = k + 1 /\ \A i \in 1..(k + 1): next[i] = shown[i]
      BY <1>n, <2>3
    <3>3. \A i \in 1..(k + 1): a[i] = next[i]
      <4> SUFFICES ASSUME NEW i \in 1..(k + 1) PROVE a[i] = next[i]
        OBVIOUS
      <4>1. i \in 1..k \/ i = k + 1
        BY <1>6
      <4> HIDE DEF a
      <4> QED BY <1>5, <3>1, <3>2, <4>1
    <3> HIDE DEF a
    <3>4. a = next
      BY <3>1, <3>2, <3>3, SeqEqual
    <3> QED BY <3>4 DEF a
  <2> QED BY <1>4, <2>3, <2>4, <2>5, <2>6, <2>7, <2>8
<1> HIDE DEF s
<1> QED BY <1>8, <1>9, <1>10 DEF s, shown, cands, next

\* It depends on nothing of a page but the records the caller may read.
LEMMA DiscoverSeesTheReadable ==
  ASSUME NEW page, NEW other, NEW q, Seen(page, q) = Seen(other, q),
         \A i \in 1..Len(page): page[i].ws = q.ws,
         \A i \in 1..Len(other): other[i].ws = q.ws
  PROVE  Discover(page, q) = Discover(other, q)
BY DEF Discover, Seen

\* The premise under which nobody's records crowd out others.
Uncrowded(rows, q) ==
  /\ \A r \in Listed(rows, q): ~PastTheScan(r, rows, q)
  /\ Cardinality(TextHits(Listed(rows, q), q)) <= PageLimit(q)

LEMMA PagesTakeAll ==
  ASSUME NEW rows, NEW q, Rankable(rows, q.terms), MaxPage \in Nat \ {0}, MaxScan \in Nat \ {0},
         q.limit \in Nat \ {0}, Uncrowded(rows, q)
  PROVE  Range(CatalogPage(rows, q)) = TextHits(Listed(rows, q), q)
<1> DEFINE all == TextHits(Listed(rows, q), q)
<1>1. all \subseteq Listed(rows, q) /\ Listed(rows, q) \subseteq rows
  BY DEF TextHits, Listed
<1>2. Range(CatalogPage(rows, q)) \subseteq all
  <2>1. TextHits(Scanned(rows, q), q) \subseteq all
    BY DEF TextHits, Scanned
  <2> HIDE DEF all
  <2> QED BY <2>1, PageFacts
<1>a. all = TextHits(Listed(rows, q), q)
  OBVIOUS
<1> HIDE DEF all
<1>3. Rankable(all, q.terms)
  BY <1>1, SubsetsRank
<1>4. PageLimit(q) \in Nat /\ Cardinality(all) <= PageLimit(q)
  BY <1>a, PageLimits DEF Uncrowded
<1>5. ASSUME NEW r \in all PROVE r \in Range(CatalogPage(rows, q))
  <2>1. PlaceOf(r, all, q.terms) + 1 \in 1..Cardinality(all) /\ PlaceOf(r, all, q.terms) \in Nat
        /\ Cardinality(all) \in Nat
    BY <1>3, PlacesAreRanks
  <2>2. ~(PlaceOf(r, all, q.terms) >= PageLimit(q))
    BY <1>4, <2>1
  <2>3. ~OffThePage(r, rows, q)
    BY <1>a, <2>2 DEF OffThePage, PlaceOf
  <2>4. ~PastTheScan(r, rows, q)
    BY <1>1 DEF Uncrowded
  <2> QED BY <1>a, <2>3, <2>4, ListedHitsArePaged
<1> QED BY <1>2, <1>5, <1>a

\* An uncrowded store shows the same page of what may be read when the other
\* records are gone.
LEMMA OthersLeaveNoTrace ==
  ASSUME NEW rows, NEW q, Rankable(rows, q.terms), MaxPage \in Nat \ {0}, MaxScan \in Nat \ {0},
         q.limit \in Nat \ {0}, Uncrowded(rows, q)
  PROVE  LET shown == {r \in rows: r.seen}
         IN Discover(CatalogPage(rows, q), q) = Discover(CatalogPage(shown, q), q)
<1> DEFINE shown == {r \in rows: r.seen}
           L(X) == Listed(X, q)
           all(X) == TextHits(L(X), q)
           page(X) == CatalogPage(X, q)
<1>1. /\ shown \subseteq rows /\ L(rows) \subseteq rows
      /\ L(shown) = {r \in L(rows): r.seen} /\ all(shown) = {r \in all(rows): r.seen}
      /\ all(rows) \subseteq L(rows) /\ all(shown) \subseteq L(shown)
      /\ \A X: \A r \in L(X): r.ws = q.ws
  BY DEF Listed, TextHits
<1> HIDE DEF shown
<1>2. Rankable(shown, q.terms)
  BY <1>1, SubsetsRank
<1>3. IsFiniteSet(L(rows)) /\ IsFiniteSet(all(rows))
  <2> HIDE DEF L, all
  <2> QED BY <1>1, FS_Subset DEF Rankable
<1>4. PageLimit(q) \in Nat /\ ScanLimit(q) \in Nat
  BY PageLimits DEF ScanLimit
<1>5. ASSUME NEW r \in L(shown) PROVE ~PastTheScan(r, shown, q)
  <2> DEFINE A == {o \in L(shown): o.ref < r.ref}
             B == {o \in L(rows): o.ref < r.ref}
  <2>1. ~(Cardinality(B) >= ScanLimit(q))
    BY <1>1 DEF Uncrowded, PastTheScan
  <2>2. A \subseteq B /\ B \subseteq L(rows)
    BY <1>1
  <2>3. SUFFICES ~(Cardinality(A) >= ScanLimit(q))
    BY DEF PastTheScan
  <2> HIDE DEF A, B, L
  <2>4. IsFiniteSet(B)
    BY <1>3, <2>2, FS_Subset
  <2>5. IsFiniteSet(A) /\ Cardinality(A) <= Cardinality(B)
    BY <2>2, <2>4, FS_Subset
  <2>6. Cardinality(A) \in Nat /\ Cardinality(B) \in Nat
    BY <2>4, <2>5, FS_CardinalityType
  <2> QED BY <1>4, <2>1, <2>5, <2>6
<1>6. Cardinality(all(shown)) <= PageLimit(q)
  <2>1. Cardinality(all(rows)) <= PageLimit(q)
    BY DEF Uncrowded
  <2>2. all(shown) \subseteq all(rows)
    BY <1>1
  <2> DEFINE A == all(shown)
             B == all(rows)
  <2>3. SUFFICES Cardinality(A) <= PageLimit(q)
    OBVIOUS
  <2>4. A \subseteq B /\ IsFiniteSet(B) /\ Cardinality(B) <= PageLimit(q)
    BY <1>3, <2>1, <2>2
  <2> HIDE DEF A, B
  <2>5. IsFiniteSet(A) /\ Cardinality(A) <= Cardinality(B)
    BY <2>4, FS_Subset
  <2>6. Cardinality(A) \in Nat /\ Cardinality(B) \in Nat
    BY <2>4, <2>5, FS_CardinalityType
  <2> QED BY <1>4, <2>4, <2>5, <2>6
<1>7. Uncrowded(shown, q)
  BY <1>5, <1>6 DEF Uncrowded
<1>8. Range(page(rows)) = all(rows) /\ Range(page(shown)) = all(shown)
  BY <1>2, <1>7, PagesTakeAll
<1>9. page(rows) \in Seq(rows) /\ page(shown) \in Seq(shown)
  BY <1>2, PageFacts
<1> HIDE DEF page, all, L
<1>10. Seen(page(rows), q) = Seen(page(shown), q)
  BY <1>1, <1>8 DEF Seen, Visible
<1>11. ASSUME NEW X, page(X) \in Seq(X), Range(page(X)) = all(X), all(X) \subseteq L(X)
       PROVE  \A i \in 1..Len(page(X)): page(X)[i].ws = q.ws
  <2> SUFFICES ASSUME NEW i \in 1..Len(page(X)) PROVE page(X)[i].ws = q.ws
    OBVIOUS
  <2>1. page(X)[i] \in Range(page(X))
    BY <1>11 DEF Range
  <2> QED BY <1>1, <1>11, <2>1
<1>12. Discover(page(rows), q) = Discover(page(shown), q)
  BY <1>1, <1>8, <1>9, <1>10, <1>11, DiscoverSeesTheReadable
<1> QED BY <1>12 DEF page, shown

\* What the answer is of the ask.
FindGood(f) ==
  /\ {"pc", "rows", "q", "out"} \subseteq DOMAIN f
  /\ \E a \in SearchAsks: f.rows = a.rows /\ f.q = a.q
  /\ f.pc = "answered" => f.out = AnswerFrom(f.rows, f.q)

FindInv == FindGood(find)

LEMMA FindStarts == FindInit => FindInv
<1> SUFFICES ASSUME NEW a \in SearchAsks, find = FindOf(a) PROVE FindGood(find)
  BY DEF FindInit, FindInv
<1>1. {"pc", "rows", "q", "out"} \subseteq DOMAIN find /\ find.rows = a.rows /\ find.q = a.q /\ find.pc = "asked"
  BY DEF FindOf
<1> QED BY <1>1 DEF FindGood

LEMMA FindSteps == FindInv /\ [SearchRegistry]_find => FindInv'
<1> SUFFICES ASSUME FindInv, [SearchRegistry]_find PROVE FindInv'
  OBVIOUS
<1>1. CASE SearchRegistry
  <2> DEFINE answer == AnswerFrom(find.rows, find.q)
             t == [find EXCEPT !.pc = "answered", !.out = answer]
  <2>1. find' = t /\ FindGood(find)
    BY <1>1 DEF SearchRegistry, FindInv
  <2> HIDE DEF answer
  <2>2. /\ {"pc", "rows", "q", "out"} \subseteq DOMAIN t /\ t.rows = find.rows /\ t.q = find.q
        /\ t.out = answer
    BY <2>1 DEF FindGood
  <2> HIDE DEF t
  <2>3. t.out = AnswerFrom(t.rows, t.q)
    BY <2>2 DEF answer
  <2>4. FindGood(t)
    BY <2>1, <2>2, <2>3 DEF FindGood
  <2> QED BY <2>1, <2>4 DEF FindInv
<1>2. CASE find' = find
  BY <1>2 DEF FindInv
<1> QED BY <1>1, <1>2

\* What the store and discovery are asked: the query with a limit.
LEMMA LimitsAreSet ==
  ASSUME FindInv
  PROVE  LET q == Limited(find.q)
         IN /\ Rankable(find.rows, q.terms) /\ q.limit \in Nat \ {0}
            /\ MaxPage \in Nat \ {0} /\ MaxScan \in Nat \ {0}
<1>1. PICK a \in SearchAsks: find.rows = a.rows /\ find.q = a.q
  BY DEF FindInv, FindGood
<1>2. /\ IsFiniteSet(find.rows) /\ IsFiniteSet(find.q.terms)
      /\ "limit" \in DOMAIN find.q /\ find.q.limit \in Int
      /\ \A r \in find.rows: r.ref \in Nat
      /\ \A r, s \in find.rows: r.ref = s.ref => r = s
      /\ DefaultLimit \in Nat \ {0} /\ MaxPage \in Nat \ {0} /\ MaxScan \in Nat \ {0}
  BY <1>1, RegistryAssumption
<1> QED BY <1>2 DEF Rankable, Limited

\* A record that is due and not given has one of the three reasons.
LEMMA AnswersMissForAReason ==
  ASSUME NEW rows, NEW q, Rankable(rows, q.terms), MaxPage \in Nat \ {0}, MaxScan \in Nat \ {0},
         q.limit \in Nat \ {0},
         Discover(CatalogPage(rows, q), q) # Refused
  PROVE  LET out == Discover(CatalogPage(rows, q), q)
             given == Range(out.cands)
             due == {r \in rows: r.ws = q.ws /\ Visible(r, q)}
         IN /\ given \subseteq due
            /\ \A i, j \in DOMAIN out.cands: i < j => Before(out.cands[i], out.cands[j], q.terms)
            /\ out.ok /\ ResponseBytes(out.cands, q.cursor, out.estimate) <= q.max
            /\ \A r \in due \ given:
                 \/ PastTheScan(r, rows, q)
                 \/ OffThePage(r, rows, q)
                 \/ \E s \in due \ given: /\ s = r \/ Before(s, r, q.terms)
                                          /\ \A c \in given: Before(c, s, q.terms)
                                          /\ OverBudget(Append(out.cands, s), q)
<1> DEFINE page == CatalogPage(rows, q)
           out == Discover(page, q)
           due == {r \in rows: r.ws = q.ws /\ Visible(r, q)}
           given == Range(out.cands)
           hits == TextHits(Scanned(rows, q), q)
           T == Seen(page, q)
           shown == Ranked(T, q.terms)
<1>1. /\ hits \subseteq Listed(rows, q) /\ hits \subseteq rows
      /\ Range(page) = {r \in hits: PlaceOf(r, hits, q.terms) < PageLimit(q)}
  BY PageFacts
<1>2. PageLimit(q) \in Nat /\ PageLimit(q) <= q.limit /\ q.limit \in Nat
  BY PageLimits
<1>3. \A r \in due: r \in TextHits(Listed(rows, q), q)
  BY DEF Visible, MatchesFilters, Listed, TextHits
<1>4. \A r \in due: ~PastTheScan(r, rows, q) /\ ~OffThePage(r, rows, q) => r \in T
  <2> SUFFICES ASSUME NEW r \in due, ~PastTheScan(r, rows, q), ~OffThePage(r, rows, q) PROVE r \in T
    OBVIOUS
  <2>1. r \in TextHits(Listed(rows, q), q)
    BY <1>3
  <2>2. r \in Range(page)
    BY <2>1, ListedHitsArePaged
  <2>3. Visible(r, q)
    OBVIOUS
  <2> HIDE DEF page
  <2> QED BY <2>2, <2>3 DEF Seen
<1>5. T \subseteq due /\ T \subseteq hits /\ T \subseteq Range(page)
  <2>1. \A r \in Listed(rows, q): r.ws = q.ws
    BY DEF Listed
  <2> HIDE DEF page, hits
  <2> QED BY <1>1, <2>1 DEF Seen
<1> HIDE DEF hits, page
<1>6. Rankable(hits, q.terms) /\ Rankable(T, q.terms)
  <2>1. T \subseteq rows
    BY <1>1, <1>5
  <2> HIDE DEF T
  <2> QED BY <1>1, <2>1, SubsetsRank
<1>7. out = Discover(page, q) /\ out # Refused
  BY DEF page
<1>8. PICK k \in 0..Len(shown):
        /\ out.ok /\ ResponseBytes(out.cands, q.cursor, out.estimate) <= q.max
        /\ out.cands = SubSeq(shown, 1, k)
        /\ k = Len(shown) \/ k = q.limit \/ OverBudget(SubSeq(shown, 1, k + 1), q)
  <2>1. Range(page) \subseteq rows
    BY <1>1
  <2> HIDE DEF out
  <2> QED BY <1>7, <2>1, DiscoverFacts
<1> HIDE DEF out
<1> DEFINE s == shown[k + 1]
<1>9. /\ given \subseteq T
      /\ \A i, j \in DOMAIN out.cands: i < j => Before(out.cands[i], out.cands[j], q.terms)
      /\ \A r \in T \ given:
           /\ k # Len(shown)
           /\ s \in T \ given
           /\ s = r \/ Before(s, r, q.terms)
           /\ \A c \in given: Before(c, s, q.terms)
           /\ PlaceOf(s, T, q.terms) = k
           /\ Append(out.cands, s) = SubSeq(shown, 1, k + 1)
  <2> HIDE DEF T
  <2> QED BY <1>6, <1>8, CutsLeaveTheRest
<1> HIDE DEF s, shown, T, given
<1>10. ASSUME NEW r \in due, r \notin given, ~PastTheScan(r, rows, q), ~OffThePage(r, rows, q)
       PROVE  \E o \in due \ given: /\ o = r \/ Before(o, r, q.terms)
                                    /\ \A c \in given: Before(c, o, q.terms)
                                    /\ OverBudget(Append(out.cands, o), q)
  <2>1. r \in T
    BY <1>4, <1>10
  <2>2. /\ k # Len(shown) /\ s \in T \ given
        /\ s = r \/ Before(s, r, q.terms)
        /\ \A c \in given: Before(c, s, q.terms)
        /\ PlaceOf(s, T, q.terms) = k /\ Append(out.cands, s) = SubSeq(shown, 1, k + 1)
    BY <1>9, <1>10, <2>1
  <2>3. k # q.limit
    <3>1. s \in hits /\ PlaceOf(s, hits, q.terms) < PageLimit(q)
      BY <1>1, <1>5, <2>2
    <3>2. /\ PlaceOf(s, T, q.terms) \in Nat /\ PlaceOf(s, hits, q.terms) \in Nat
          /\ PlaceOf(s, T, q.terms) <= PlaceOf(s, hits, q.terms)
      BY <1>5, <1>6, PlacesShrink
    <3> QED BY <1>2, <2>2, <3>1, <3>2
  <2>4. OverBudget(Append(out.cands, s), q)
    BY <1>8, <2>2, <2>3
  <2>5. s \in due \ given
    BY <1>5, <2>2
  <2> HIDE DEF due
  <2> QED BY <2>2, <2>4, <2>5
<1>11. given \subseteq due
  BY <1>5, <1>9
<1> HIDE DEF due
<1> QED BY <1>8, <1>9, <1>10, <1>11 DEF given, due, out, page

LEMMA GoodFindsHideNothing == ASSUME FindInv PROVE HiddenRecordsOnlyCrowd
<1> SUFFICES ASSUME find.pc = "answered" PROVE HiddenRecordsOnlyCrowd
  BY DEF HiddenRecordsOnlyCrowd
<1> DEFINE q == Limited(find.q)
           rows == find.rows
           out == find.out
           shown == {r \in rows: r.seen}
<1>1. out = Discover(CatalogPage(rows, q), q)
  BY DEF FindInv, FindGood, AnswerFrom
<1>2. /\ Rankable(rows, q.terms) /\ q.limit \in Nat \ {0}
      /\ MaxPage \in Nat \ {0} /\ MaxScan \in Nat \ {0}
  BY LimitsAreSet
<1>3. AnswerFrom(shown, find.q) = Discover(CatalogPage(shown, q), q)
  BY DEF AnswerFrom
<1> HIDE DEF q, rows, out
<1>4. Uncrowded(rows, q) => out = AnswerFrom(shown, find.q)
  BY <1>1, <1>2, <1>3, OthersLeaveNoTrace
<1> HIDE DEF shown
<1>5. CASE out = Refused
  <2>1. out.cands = <<>> /\ ~out.ok
    BY <1>5 DEF Refused
  <2>2. DOMAIN out.cands = {} /\ Range(out.cands) = {}
    BY <2>1 DEF Range
  <2> QED BY <1>4, <2>1, <2>2 DEF HiddenRecordsOnlyCrowd, Uncrowded, q, rows, out, shown
<1>6. CASE out # Refused
  <2> DEFINE given == Range(out.cands)
             due == {r \in rows: r.ws = q.ws /\ Visible(r, q)}
  <2>1. /\ given \subseteq due
        /\ \A i, j \in DOMAIN out.cands: i < j => Before(out.cands[i], out.cands[j], q.terms)
        /\ out.ok /\ ResponseBytes(out.cands, q.cursor, out.estimate) <= q.max
        /\ \A r \in due \ given:
             \/ PastTheScan(r, rows, q)
             \/ OffThePage(r, rows, q)
             \/ \E s \in due \ given: /\ s = r \/ Before(s, r, q.terms)
                                      /\ \A c \in given: Before(c, s, q.terms)
                                      /\ OverBudget(Append(out.cands, s), q)
    BY <1>1, <1>2, <1>6, AnswersMissForAReason
  <2> HIDE DEF given, due
  <2> QED BY <1>4, <2>1 DEF HiddenRecordsOnlyCrowd, Uncrowded, q, rows, out, shown, given, due
<1> QED BY <1>5, <1>6

\* Whatever the store holds and is asked, a registry answer gives records the
\* caller may read in the order of the ranking and within its byte budget,
\* and leaves one out only because the scan, the page or the budget ended
\* before it; when the scan and the page take all that the store lists, it is
\* the answer of the store without its unreadable records (Service.Search
\* over Postgres.Search).
THEOREM HiddenRecordsCrowdAtMost == FindSpec => []HiddenRecordsOnlyCrowd
<1>1. FindInv => HiddenRecordsOnlyCrowd
  BY GoodFindsHideNothing
<1> QED BY <1>1, FindStarts, FindSteps, PTL DEF FindSpec

=============================================================================
