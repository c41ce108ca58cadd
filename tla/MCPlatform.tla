----------------------------- MODULE MCPlatform -----------------------------
(***************************************************************************)
(* What the hosted registry stands on, one part per behaviour: releases    *)
(* migrating one database, the qualification of a delegated issuer, the    *)
(* workload keys, the embedding process, and public search.                *)
(***************************************************************************)
EXTENDS IssuerQualification, Migrations, SigningKeys, EmbeddingRuntime, SemanticSearch

VARIABLE part    \* the part this behaviour exercises

platformVars == <<part, qualifyVars, migrateVars, keyVars, runtimeVars, semanticVars>>

-----------------------------------------------------------------------------
(* Migrations: two releases, the second with more migrations than the      *)
(* first, which may have been built from another branch; b brings a table  *)
(* and c a function.                                                       *)

MCManifests == {[r1 |-> x, r2 |-> <<"a", "b", "c">>]: x \in {<<"a">>, <<"a", "b">>, <<"a", "x">>}}
MCUses == {<<"table", "a">>, <<"function", "a">>, <<"table", "b">>, <<"sequence", "b">>, <<"function", "c">>}
MCBaselines == {{}, {"a", "b"}}

DatabaseAtRest ==
  /\ Manifest = [r \in Releases |-> <<>>]
  /\ db = [ledger |-> <<>>, ledgerExists |-> FALSE, objects |-> {}, forced |-> TRUE,
           role |-> NoRole, public |-> {}]
  /\ lock = "none" /\ release = [r \in Releases |-> Off]
  /\ audit = {} /\ ran = <<>> /\ meddled = 0 /\ reviewed = <<>>

-----------------------------------------------------------------------------
(* Issuers with up to two faults; the connection to one with a fault at    *)
(* most may fail.                                                          *)

MCFaultSets == {{}} \cup {{f, g}: f, g \in Faults}
MCCutSets == {{}} \cup {{f}: f \in Faults}

IssuerAtRest ==
  /\ faults = {} /\ as = NoIssuer /\ probe = [NoProbe EXCEPT !.pc = "idle"] /\ choice = Untold

KeysAtRest ==
  /\ clock = 0 /\ keyset = [current |-> FirstKid, notAfter |-> <<>>]
  /\ token = NoToken /\ verifier = NoVerification
  /\ revoked = 0 /\ rekeyed = 0 /\ chosen = {}

RuntimeAtRest ==
  /\ starter = "failed" /\ installed = TRUE /\ session = "absent"
  /\ child = "none" /\ bound = FALSE /\ port = "none"
  /\ owner = "live" /\ closing = "no" /\ supervisor = "none"

-----------------------------------------------------------------------------
(* Public search: two revisions, three entries and apps, two query vectors *)
(* that order them differently.                                            *)

Entry(id, rec, title, kind, words) ==
  [id |-> id, recommended |-> rec, title |-> title, kind |-> kind, words |-> words, source |-> "s"]
App(id, kind, words) == [id |-> id, kind |-> kind, words |-> words]
MCCorpora ==
  <<[revision |-> 1, sources |-> {"s"},
     entries |-> {Entry(1, FALSE, 2, "mcp", {"ab"}), Entry(2, FALSE, 1, "mcp", {"a"}),
                  Entry(3, TRUE, 3, "openapi", {"b"})},
     apps |-> <<App(1, "x", {"a"}), App(2, "x", {"ab"}), App(3, "x", {"b"})>>],
    [revision |-> 2, sources |-> {"s"},
     entries |-> {Entry(1, FALSE, 2, "mcp", {"ab"}), Entry(2, TRUE, 1, "mcp", {"a"})},
     apps |-> <<App(1, "x", {"a"})>>]>>
MCExtending == [a |-> {"a", "ab"}, ab |-> {"ab"}]
MCVectors == [t \in {{}, {"a"}} |-> {"v", "w"}]
MCLikeness ==
  LET like(score) == [d \in {"entries", "apps"} \X (1..3) |-> score[d[2]]]
  IN [v |-> like(<<1, 0, 2>>), w |-> like(<<0, 2, 1>>)]
Query(over, terms, kind, pins) == [over |-> over, terms |-> terms, kind |-> kind, pins |-> pins]
MCQueries ==
  {Query(o, t, "", {}): o \in {"entries", "apps"}, t \in {{}, {"a"}}}
  \cup {Query("entries", {"a"}, "mcp", {}), Query("apps", {"a"}, "x", {2})}

PlainQuery == Query("entries", {"a"}, "", {})

\* The second client asks for the same words as the first may.
SearchesStart == SemanticInit /\ client["c2"].q = PlainQuery

SearchesAtRest ==
  /\ deployed = 0 /\ ready = NoRows /\ slot = None
  /\ cache = [t \in Terms |-> None] /\ healthy = FALSE /\ builder = NoBuild
  /\ client = [c \in Clients |-> ClientOf(PlainQuery)]

-----------------------------------------------------------------------------

MCInit ==
  /\ part \in {"issuer", "database", "keys", "runtime", "search"}
  /\ IF part = "issuer" THEN QualifyInit ELSE IssuerAtRest
  /\ IF part = "database" THEN MigrateInit ELSE DatabaseAtRest
  /\ IF part = "keys" THEN KeysInit ELSE KeysAtRest
  /\ IF part = "runtime" THEN RuntimeInit ELSE RuntimeAtRest
  /\ IF part = "search" THEN SearchesStart ELSE SearchesAtRest

IssuerStep == part = "issuer" /\ QualifyNext
  /\ UNCHANGED <<part, migrateVars, keyVars, runtimeVars, semanticVars>>
DatabaseStep == part = "database" /\ MigrateNext
  /\ UNCHANGED <<part, qualifyVars, keyVars, runtimeVars, semanticVars>>
KeysStep == part = "keys" /\ KeysNext
  /\ UNCHANGED <<part, qualifyVars, migrateVars, runtimeVars, semanticVars>>
RuntimeStep == part = "runtime" /\ RuntimeNext
  /\ UNCHANGED <<part, qualifyVars, migrateVars, keyVars, semanticVars>>
SearchStep == part = "search" /\ SemanticNext
  /\ UNCHANGED <<part, qualifyVars, migrateVars, keyVars, runtimeVars>>

MCNext == IssuerStep \/ DatabaseStep \/ KeysStep \/ RuntimeStep \/ SearchStep

MCSpec == MCInit /\ [][MCNext]_platformVars /\ RuntimeFairness

=============================================================================
