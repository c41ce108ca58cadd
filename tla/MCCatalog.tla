----------------------------- MODULE MCCatalog -----------------------------
(***************************************************************************)
(* The catalog's parts, one per behaviour: a registry search, the scoped   *)
(* index with its writers and readers, one recipe admitted and run, one    *)
(* preparation and one composition against a world that changes meanwhile. *)
(***************************************************************************)
EXTENDS ScopedIndex, RegistrySearch, RecipeRun, CatalogServices

VARIABLE part   \* the part this behaviour exercises

mcVars == <<part, find, indexVars, run, worldVars, resVars, prep, comp>>

-----------------------------------------------------------------------------
(* Registry searches over four records, the fourth past the scan of a text *)
(* search while the first is live.  The store never gives a next cursor.   *)

NoFind == [pc |-> "none", rows |-> {}, q |-> {}, out |-> Refused]

Row(ref, f1, f3, tags, st, size, visible) ==
  [ref |-> ref, fields |-> <<f1, {}, f3>>, kind |-> "skill", tags |-> tags,
   state |-> st, ws |-> "ws", size |-> size, seen |-> visible]

MCStores ==
  [s: {"published", "revoked"}, v1: BOOLEAN, f: {{}, {"b"}}, v2: BOOLEAN, t: SUBSET {"x"}, v4: BOOLEAN]
MCTexts == {[text |-> FALSE, terms |-> {}]} \cup {[text |-> TRUE, terms |-> t]: t \in SUBSET {"a", "b"}}
MCQueries == [t: MCTexts, tags: SUBSET {"x"}, limit: 0..3, max: {5, 9, 12, 14, 20}]
SearchAsk(s, q) ==
  [rows |-> {Row(1, {"a"}, {"b"}, {}, s.s, 4, s.v1), Row(2, s.f, {"a"}, {"x"}, "deprecated", 3, s.v2),
             Row(3, {}, {"a", "b"}, s.t, "published", 6, TRUE),
             Row(4, {"a", "b"}, {}, {"x"}, "published", 4, s.v4)},
   q |-> [ws |-> "ws", kinds |-> {}, tags |-> q.tags, text |-> q.t.text, terms |-> q.t.terms,
          limit |-> q.limit, max |-> q.max, cursor |-> FALSE]]
MCSearchAsks == {SearchAsk(s, q): s \in MCStores, q \in MCQueries}

-----------------------------------------------------------------------------
(* The scoped index. *)

E(ref, f1, f2, kind, tags, binds, st) ==
  [ref |-> ref, fields |-> <<f1, f2, {}>>, kind |-> kind, tags |-> tags, binds |-> binds,
   state |-> st, size |-> 5]
B(key, tool, cn) == [key |-> key, tool |-> tool, conn |-> cn]
E1 == E(1, {"a"}, {"b"}, "binding", {"x"}, {B("k", 3, "c1")}, "published")
E1b == E(1, {"b"}, {}, "binding", {}, {}, "deprecated")
E2 == E(2, {}, {"a"}, "binding", {"x"}, {B("k", 3, "c1"), B("k", 3, "c2")}, "published")
MCContents == {{E1}, {E1b, E2}}
MCEdits == {[ups |-> {E1b}, rem |-> {}], [ups |-> {E2}, rem |-> {1}], [ups |-> {}, rem |-> {2}]}
MCSearches ==
  {[terms |-> {"a", "b"}, kinds |-> {}, tags |-> {}, limit |-> 1, examine |-> 2, max |-> 20],
   [terms |-> {"a"}, kinds |-> {"binding"}, tags |-> {"x"}, limit |-> 2, examine |-> 4, max |-> 15]}

IndexAtRest ==
  /\ readable = {} /\ admitted = FALSE /\ job = <<>>
  /\ previous = NoSnapshot /\ current = NoSnapshot

-----------------------------------------------------------------------------
(* Recipes of three steps over three requirements. *)

Str(n) == [type |-> "string", max |-> n]
Obj(props, req) == [type |-> "object", props |-> props, req |-> req]
MCContract(in, out) ==
  [in |-> Obj([x |-> Str(in)], {"x"}),
   out |-> Obj([x |-> Str(out), y |-> [type |-> "number"],
                l |-> [type |-> "array", max |-> 2, items |-> Obj([x |-> Str(out)], {"x"})]], {"x", "l"})]
Keys3 == {"k1", "k2", "k3"}
MCReqs(opt) == [k \in Keys3 |-> [cap |-> k, opt |-> opt[k]]]
From(step, path) == [step |-> step, path |-> path]
Over(step, n) == [step |-> step, path |-> <<"l">>, max |-> n]
MCStep(req, after, from, each) == [req |-> req, after |-> after, inputs |-> [x |-> from], each |-> each]
MCTask == Obj([x |-> Str(1)], {"x"})
Cand(b, c) == [binding |-> b, conn |-> c, admitted |-> TRUE]
AnyWant == [k \in Keys3 |-> [binding |-> "any", conn |-> "any"]]

\* A recipe whose steps read from each other, to be run.
MCRuns ==
  [opt: [Keys3 -> BOOLEAN], bound: 0..1, absent: {{}, {"k2"}},
   a1: {{}, {"s3"}}, a2: {{}, {"s1"}}, a3: SUBSET {"s1", "s2"},
   f2: {From("", <<"x">>), From("s1", <<"x">>), From("s1", <<"y">>)},
   how: {<<From("s2", <<"x">>), NoEach, 3>>, <<From("$item", <<"x">>), NoEach, 4>>,
         <<From("$item", <<"x">>), Over("s1", 1), 4>>, <<From("$item", <<"x">>), Over("s1", 2), 3>>,
         <<From("$item", <<"x">>), Over("s1", 2), 4>>}]
RunAsk(r) ==
  [doc |-> [reqs |-> MCReqs(r.opt), groups |-> <<>>, task |-> MCTask,
            limits |-> [steps |-> 3, iters |-> 2, calls |-> r.how[3], bytes |-> 2],
            steps |-> [s1 |-> MCStep("k1", r.a1, From("", <<"x">>), NoEach),
                       s2 |-> MCStep("k2", r.a2, r.f2, NoEach),
                       s3 |-> MCStep("k3", r.a3, r.how[1], r.how[2])]],
   contracts |-> [k \in Keys3 |-> MCContract(r.bound + 1, 2 - r.bound)],
   found |-> [k \in Keys3 |-> IF k \in r.absent THEN {} ELSE {Cand("b1", "c1")}],
   want |-> AnyWant]

\* A recipe with connection groups and several candidates to choose from.
MCChoices ==
  [opt: [Keys3 -> BOOLEAN],
   groups: {<<{"k1", "k2"}>>, <<{"k1", "k2", "k3"}>>, <<{"k2", "k3"}, {"k1", "k2"}>>},
   f1: SUBSET {Cand("b1", "c1"), Cand("b1", "c2"), [Cand("b2", "c1") EXCEPT !.admitted = FALSE]},
   f2: SUBSET {Cand("b1", "c1"), Cand("b1", "c2"), Cand("b2", "c1")},
   f3: SUBSET {Cand("b1", "c1"), Cand("b1", "c2")},
   want: {AnyWant, [AnyWant EXCEPT !["k2"].binding = "b1"], [AnyWant EXCEPT !["k1"].conn = "c2"]}]
ChoiceAsk(r) ==
  [doc |-> [reqs |-> MCReqs(r.opt), groups |-> r.groups, task |-> MCTask,
            limits |-> [steps |-> 3, iters |-> 2, calls |-> 3, bytes |-> 1],
            steps |-> [s1 |-> MCStep("k1", {}, From("", <<"x">>), NoEach),
                       s2 |-> MCStep("k2", {}, From("", <<"x">>), NoEach),
                       s3 |-> MCStep("k3", {}, From("", <<"x">>), NoEach)]],
   contracts |-> [k \in Keys3 |-> MCContract(1, 1)],
   found |-> [k1 |-> r.f1, k2 |-> r.f2, k3 |-> r.f3], want |-> r.want]

MCRecipeAsks ==
  {IF "how" \in DOMAIN r THEN RunAsk(r) ELSE ChoiceAsk(r): r \in MCRuns \cup MCChoices}
MCProbes == {[is |-> "string", n |-> 0], [is |-> "string", n |-> 1], [is |-> "string", n |-> 2], [is |-> "number", whole |-> FALSE]}

NoRun == [pc |-> "none", plan |-> Failed("none")]

-----------------------------------------------------------------------------
(* Preparations and compositions: every request against the plain closure, *)
(* and the plain requests against every closure.                           *)

Ask(mode, fallback, top, fits, lex, s, o) ==
  [mode |-> mode, fallback |-> fallback, top |-> top, fits |-> fits, lex |-> lex,
   sem |-> [skill |-> s, other |-> o]]
PlainAsk == Ask("lexical", "deny", 1, TRUE, <<"skill">>, 0, 0)
MCAsks ==
  {PlainAsk,
   Ask("lexical", "deny", 2, FALSE, <<"skill", "other">>, 0, 0),
   Ask("semantic", "lexical", 2, TRUE, <<"other", "skill">>, 2, 1),
   Ask("semantic", "deny", 1, TRUE, <<>>, 1, 1),
   Ask("hybrid", "deny", 2, TRUE, <<"other", "skill">>, 2, 1),
   Ask("hybrid", "lexical", 1, TRUE, <<"skill">>, 1, 0)}

PlainShape ==
  [optional |-> FALSE, conforms |-> TRUE, supported |-> TRUE, location |-> "client",
   local |-> FALSE, files |-> FALSE, maintained |-> TRUE, creds |-> TRUE]
MCFixed ==
  {PlainShape,
   [PlainShape EXCEPT !.creds = FALSE],
   [PlainShape EXCEPT !.optional = TRUE],
   [PlainShape EXCEPT !.optional = TRUE, !.conforms = FALSE],
   [PlainShape EXCEPT !.supported = FALSE],
   [PlainShape EXCEPT !.location = "gist_gateway"],
   [PlainShape EXCEPT !.location = "runtime", !.local = TRUE],
   [PlainShape EXCEPT !.local = TRUE, !.creds = FALSE],
   [PlainShape EXCEPT !.files = TRUE],
   [PlainShape EXCEPT !.maintained = FALSE, !.creds = FALSE]}

WorldAtRest ==
  /\ state = [a \in Artifacts |-> "absent"] /\ member = FALSE /\ now = 0 /\ changes = 0
  /\ conn = [gen |-> 0, ready |-> FALSE] /\ task = [gen |-> 0, ok |-> FALSE]

PrepIdle == [PrepOf(PlainAsk, FALSE) EXCEPT !.pc = "idle"]
CompIdle == [CompOf(TRUE) EXCEPT !.pc = "idle"]

Working == prep.pc \notin {"idle", "answered", "failed"} \/ comp.pc \notin {"idle", "answered", "failed"}

-----------------------------------------------------------------------------

MCInit ==
  /\ part \in {"find", "index", "recipe", "prepare", "compose"}
  /\ IF part = "find" THEN FindInit ELSE find = NoFind
  /\ IF part = "index" THEN IndexInit ELSE IndexAtRest
  /\ IF part = "recipe" THEN RunInit ELSE run = NoRun
  /\ IF part \in {"prepare", "compose"}
     THEN WorldInit /\ ResolutionInit
     ELSE WorldAtRest /\ shape = PlainShape /\ res = Resting /\ pinned = {}
  /\ IF part = "prepare"
     THEN /\ PreparationInit
          /\ prep.ask = PlainAsk \/ (shape = PlainShape /\ state["skill"] = "published" /\ task.ok)
     ELSE prep = PrepIdle
  /\ IF part = "compose" THEN ComposingInit /\ state["other"] = "absent" ELSE comp = CompIdle

FindStep == part = "find" /\ SearchRegistry
  /\ UNCHANGED <<part, indexVars, run, worldVars, resVars, prep, comp>>
IndexStep == part = "index" /\ IndexNext
  /\ UNCHANGED <<part, find, run, worldVars, resVars, prep, comp>>
RecipeStep == part = "recipe" /\ RunNext
  /\ UNCHANGED <<part, find, indexVars, worldVars, resVars, prep, comp>>
\* The plain request meets every two changes, the others every one.
WorldStep == Working /\ WorldMoves
  /\ \/ part = "compose"
     \/ prep.ask = PlainAsk /\ shape = PlainShape
     \/ changes' < MaxChanges
  /\ UNCHANGED <<part, find, indexVars, run>>
ResolverStep == ResolverMoves /\ UNCHANGED <<part, find, indexVars, run>>
PreparationStep == PreparationMoves /\ UNCHANGED <<part, find, indexVars, run>>
ComposingStep == ComposingMoves /\ UNCHANGED <<part, find, indexVars, run>>

MCNext ==
  FindStep \/ IndexStep \/ RecipeStep \/ WorldStep \/ ResolverStep \/ PreparationStep \/ ComposingStep

MCSpec == MCInit /\ [][MCNext]_mcVars

=============================================================================
