---------------------------- MODULE ScopedIndex ----------------------------
(***************************************************************************)
(* The scoped catalog index: immutable snapshots swapped under a lock,     *)
(* writers that rebuild, update in part or roll back against an expected   *)
(* generation, and readers that search, look a binding up or read one      *)
(* entry of the snapshot they began with.  The authorizer and the policy   *)
(* gate are asked between a call's steps and may change their answer.      *)
(***************************************************************************)
EXTENDS LexicalRanking, TLC

CONSTANTS Writers, Readers,   \* the goroutines that may use the index
          Casts,         \* which of them use it together
          Contents,      \* the sets of entries an index is built from
          Edits,         \* what a partial update may change: [ups, rem]
          Refs,          \* the references entries and binding rows name
          Volatile,      \* those whose grant may be withdrawn
          Keys,          \* capability contracts a binding row answers
          Searches,      \* the searches a reader may ask for
          LookupLimit,   \* composition.Query.Limit
          MaxGen         \* the last generation, ^uint64(0)

ASSUME GenAssumption == MaxGen \in Nat /\ 0 < MaxGen

VARIABLES current,       \* x.current
          previous,      \* x.previous, generation 0 when nil
          readable,      \* what the authorizer lets the scope read
          admitted,      \* whether the policy gate still accepts the scope
          job            \* per caller: the call it is in

ActiveWriters == DOMAIN job \cap Writers
ActiveReaders == DOMAIN job \cap Readers

indexVars == <<current, previous, readable, admitted, job>>

-----------------------------------------------------------------------------
(* Snapshots.  entries maps references to entries, postings terms to       *)
(* references, bindings contract keys to the rows that answer them.        *)

Rows(e) == {[ref |-> e.ref, tool |-> b.tool, conn |-> b.conn, key |-> b.key]: b \in e.binds}
RowsFor(e, k) == {r \in Rows(e): r.key = k}
KeysOf(e) == {b.key: b \in e.binds}
EntryTerms(e) == TermsOf(e.fields)

Build(entries, gen) ==
  LET S == {entries[r]: r \in DOMAIN entries}
  IN [gen |-> gen, entries |-> entries,
      postings |-> [t \in UNION {EntryTerms(e): e \in S} |->
                      {e.ref: e \in {x \in S: t \in EntryTerms(x)}}],
      bindings |-> [k \in UNION {KeysOf(e): e \in S} |->
                      UNION {RowsFor(e, k): e \in S}]]

\* x or the empty set, as indexing a Go map does.
At(f, k) == IF k \in DOMAIN f THEN f[k] ELSE {}

\* The partial update: maps are copied, and only the posting sets and the
\* binding buckets that an entry, old or new, occurs in are made again.
Patch(old, changed, removed) ==
  LET gone == DOMAIN changed \cup removed
      new == {changed[r]: r \in DOMAIN changed}
      both == new \cup {old.entries[r]: r \in gone \cap DOMAIN old.entries}
      terms == UNION {EntryTerms(e): e \in both}
      keys == UNION {KeysOf(e): e \in both}
      posting(t) == (At(old.postings, t) \ gone) \cup {e.ref: e \in {x \in new: t \in EntryTerms(x)}}
      rows(k) == {r \in At(old.bindings, k): r.ref \notin gone} \cup UNION {RowsFor(e, k): e \in new}
  IN [gen |-> 0,
      entries |-> [r \in (DOMAIN old.entries \cup DOMAIN changed) \ removed |->
                     IF r \in DOMAIN changed THEN changed[r] ELSE old.entries[r]],
      postings |-> [t \in {t \in DOMAIN old.postings \cup terms: t \in terms => posting(t) # {}} |->
                      IF t \in terms THEN posting(t) ELSE old.postings[t]],
      bindings |-> [k \in {k \in DOMAIN old.bindings \cup keys: k \in keys => rows(k) # {}} |->
                      IF k \in keys THEN rows(k) ELSE old.bindings[k]]]

-----------------------------------------------------------------------------
(* Calls. *)

NoSnapshot == Build(<<>>, 0)
NoAnswer == [status |-> "none"]
Idle == [pc |-> "idle", op |-> "none", base |-> NoSnapshot, expected |-> 0,
         ups |-> {}, rem |-> {}, next |-> NoSnapshot, q |-> {}, out |-> NoAnswer]

\* analyze: the entry, its tools and providers must be readable, the record
\* published or deprecated.
Admissible(e) ==
  /\ Live(e)
  /\ e.ref \in readable
  /\ \A b \in e.binds: b.tool \in readable

\* A call that names a reference twice is refused.
UniqueRefs(S) == \A a, b \in S: a.ref = b.ref => a = b

ByRef(S) == [r \in {e.ref: e \in S} |-> CHOOSE e \in S: e.ref = r]

\* begin: the policy gate, then the current snapshot.
Begins(g) == admitted /\ (g = 0 \/ current.gen = g)

Enter(c, j) ==
  /\ job[c].pc = "idle"
  /\ job' = [job EXCEPT ![c] = j]
  /\ UNCHANGED <<current, previous, readable, admitted>>

Leave(c) == job' = [job EXCEPT ![c] = Idle]

BeginUpdate(c, ups, rem) ==
  /\ Begins(current.gen)
  /\ Enter(c, [Idle EXCEPT !.pc = "analyze", !.op = "update", !.base = current,
                           !.expected = current.gen, !.ups = ups, !.rem = rem])

\* Update authorizes what it analyzes after it took its snapshot.
Analyze(c) ==
  /\ job[c].pc = "analyze"
  /\ IF /\ UniqueRefs(job[c].ups)
        /\ \A e \in job[c].ups: e.ref \notin job[c].rem /\ Admissible(e)
     THEN job' = [job EXCEPT ![c] = [@ EXCEPT !.pc = "publish", !.base = NoSnapshot,
                    !.next = Patch(job[c].base, ByRef(job[c].ups), job[c].rem)]]
     ELSE Leave(c)
  /\ UNCHANGED <<current, previous, readable, admitted>>

\* Rebuild reads no snapshot: it builds a replacement and publishes it.
Rebuild(c, g, ents) ==
  /\ admitted
  /\ UniqueRefs(ents) /\ \A e \in ents: Admissible(e)
  /\ Enter(c, [Idle EXCEPT !.pc = "publish", !.op = "rebuild", !.expected = g,
                           !.ups = ents, !.next = Build(ByRef(ents), 0)])

Rollback(c) ==
  /\ admitted
  /\ previous.gen # 0
  /\ Enter(c, [Idle EXCEPT !.pc = "publish", !.op = "rollback",
                           !.expected = current.gen, !.next = previous])

\* Mutant of Publish: the expected generation is not compared.
PublishUnchecked(c) ==
  /\ job[c].pc = "publish"
  /\ IF admitted /\ current.gen < MaxGen
     THEN /\ previous' = current
          /\ current' = [job[c].next EXCEPT !.gen = current.gen + 1]
     ELSE UNCHANGED <<current, previous>>
  /\ Leave(c)
  /\ UNCHANGED <<readable, admitted>>

Publish(c) ==
  /\ job[c].pc = "publish"
  /\ IF admitted /\ current.gen = job[c].expected /\ current.gen # MaxGen
     THEN /\ previous' = current
          /\ current' = [job[c].next EXCEPT !.gen = job[c].expected + 1]
     ELSE UNCHANGED <<current, previous>>
  /\ Leave(c)
  /\ UNCHANGED <<readable, admitted>>

-----------------------------------------------------------------------------
(* Readers. *)

BeginRead(c, op, q) ==
  /\ Begins(0)
  /\ Enter(c, [Idle EXCEPT !.pc = "gather", !.op = op, !.base = current, !.q = q])

Incomplete == [status |-> "incomplete_budget", items |-> <<>>]
Complete(items) == [status |-> "complete", items |-> items]

\* Search over the postings, every visited posting counted against the
\* budget; a ranking that would be partial is not given.
SearchRefs(s, q) == UNION {At(s.postings, t): t \in q.terms}
Examined(s, q) == SumFunction([t \in q.terms |-> Cardinality(At(s.postings, t))])
SearchAnswer(s, q) ==
  LET found == {e \in {s.entries[r]: r \in SearchRefs(s, q)}: MatchesFilters(e, q.kinds, q.tags)}
      ranked == Ranked(found, q.terms)
      cands == SubSeq(ranked, 1, Min({q.limit, Len(ranked)}))
  IN IF Examined(s, q) > q.examine \/ ResponseBytes(cands, FALSE, 0) > q.max
     THEN Incomplete ELSE Complete(cands)

LookupAnswer(s, k) ==
  IF Cardinality(At(s.bindings, k)) > LookupLimit THEN Incomplete
  ELSE Complete(At(s.bindings, k))

ExactAnswer(s, r) == Complete(IF r \in DOMAIN s.entries THEN {s.entries[r]} ELSE {})

AnswerOf(s, op, q) ==
  CASE op = "search" -> SearchAnswer(s, q)
    [] op = "lookup" -> LookupAnswer(s, q)
    [] op = "exact" -> ExactAnswer(s, q)

\* The references a call asks the authorizer about: a search that ran out
\* of its examination budget and an incomplete lookup ask about none.
Asked(s, op, q) ==
  CASE op = "search" -> IF Examined(s, q) > q.examine THEN {} ELSE SearchRefs(s, q)
    [] op = "lookup" -> IF LookupAnswer(s, q).status = Incomplete.status THEN {}
                        ELSE UNION {{r.ref, r.tool}: r \in At(s.bindings, q)}
    [] op = "exact" -> {q} \cap DOMAIN s.entries

Gather(c) ==
  LET j == job[c]
  IN /\ j.pc = "gather"
     /\ IF Asked(j.base, j.op, j.q) \subseteq readable
        THEN job' = [job EXCEPT ![c] = [@ EXCEPT !.pc = "finish", !.out = AnswerOf(j.base, j.op, j.q)]]
        ELSE Leave(c)
     /\ UNCHANGED <<current, previous, readable, admitted>>

\* Mutant of Finish: the snapshot may have been replaced meanwhile.
FinishAnyway(c) ==
  /\ job[c].pc = "finish"
  /\ job' = [job EXCEPT ![c] = IF admitted THEN [Idle EXCEPT !.pc = "given"]
                               ELSE Idle]
  /\ UNCHANGED <<current, previous, readable, admitted>>

\* finish: the gate again, and the snapshot the answer came from is still
\* the current one.
Finish(c) ==
  /\ job[c].pc = "finish"
  /\ job' = [job EXCEPT ![c] = IF admitted /\ current.gen = job[c].base.gen
                               THEN [Idle EXCEPT !.pc = "given"]
                               ELSE Idle]
  /\ UNCHANGED <<current, previous, readable, admitted>>

-----------------------------------------------------------------------------
(* The caller's authority changes: a grant is withdrawn or the gate closes *)
(* for good (a new authority scope needs a new index).                     *)

Withdraw(r) ==
  /\ r \in readable
  /\ readable' = readable \ {r}
  /\ UNCHANGED <<current, previous, admitted, job>>

CloseGate ==
  /\ admitted
  /\ admitted' = FALSE
  /\ UNCHANGED <<current, previous, readable, job>>

IndexInit ==
  /\ readable = Refs
  /\ admitted = TRUE
  /\ \E cast \in Casts: job = [c \in cast |-> Idle]
  /\ previous = NoSnapshot
  /\ \E S \in Contents: current = Build(ByRef(S), 1)

IndexNext ==
  \/ \E c \in ActiveWriters:
       \/ \E d \in Edits: BeginUpdate(c, d.ups, d.rem)
       \/ \E g \in {current.gen, current.gen + 1}, S \in Contents: Rebuild(c, g, S)
       \/ Analyze(c) \/ Rollback(c) \/ Publish(c)
  \/ \E c \in ActiveReaders:
       \/ \E q \in Searches: BeginRead(c, "search", q)
       \/ \E k \in Keys: BeginRead(c, "lookup", k)
       \/ \E r \in Refs: BeginRead(c, "exact", r)
       \/ Gather(c) \/ Finish(c)
  \/ \E r \in Volatile: Withdraw(r)
  \/ CloseGate

IndexSpec == IndexInit /\ [][IndexNext]_indexVars

-----------------------------------------------------------------------------
(* Properties. *)

\* Every publication replaces the snapshot it was prepared against: a
\* partial update is applied to the entries it read, a rollback restores the
\* snapshot right before the replaced one, the generation moves by one, and
\* the new postings and binding buckets are those a full rebuild of the same
\* entries would make (Update, Rebuild, Rollback and publish).
PublishesAreSerial ==
  [][current' # current =>
       /\ current'.gen = current.gen + 1
       /\ previous' = current
       /\ current' = Build(current'.entries, current'.gen)
       /\ \E c \in ActiveWriters:
            LET j == job[c]
                changed == ByRef(j.ups)
            IN /\ j.pc = "publish" /\ job'[c] = Idle
               /\ j.op = "update" =>
                    current'.entries =
                      [r \in (DOMAIN current.entries \cup DOMAIN changed) \ j.rem |->
                         IF r \in DOMAIN changed THEN changed[r] ELSE current.entries[r]]
               /\ j.op = "rollback" => current'.entries = previous.entries]_indexVars

\* An answer is given while the gate accepts the scope, and says what a scan
\* of the entries current at that moment says: every matching entry was
\* considered and the best are given, or none are (Search, Lookup, Exact).
AnswersAreCurrent ==
  [][\A c \in ActiveReaders: job[c].pc = "finish" /\ job'[c].pc = "given" =>
       LET S == {current.entries[r]: r \in DOMAIN current.entries}
           out == job[c].out
           q == job[c].q
           hits == {e \in S: EntryTerms(e) \cap q.terms # {} /\ MatchesFilters(e, q.kinds, q.tags)}
       IN /\ admitted
          /\ out.status = "complete" =>
               CASE job[c].op = "search" ->
                      out.items = SubSeq(Ranked(hits, q.terms), 1, Min({q.limit, Len(Ranked(hits, q.terms))}))
                 [] job[c].op = "lookup" -> out.items = UNION {RowsFor(e, q): e \in S}
                 [] job[c].op = "exact" -> out.items = {e \in S: e.ref = q}]_indexVars

=============================================================================
