# Gist: TLA+ models, model checking and proofs

This directory specifies the parts of Gist whose correctness depends on the order in which
things happen: publication of catalog artifacts, the event feed, the OAuth authorization
server and its signing keys, operator enrollment, the MCP session table with the shutdown
around it, resolution, preparation and composition over a catalog that changes, schema
migrations, the embedding process, and the search library under concurrent callers. The pure
algorithms these rest on (chunking, ranking, recipe validation, issuer qualification) are
operators compared with reference definitions. Each module is translated from the Go source and SQL it names; `PROJECT.json` maps
every definition to the lines it models, lists the TLC runs, the hazards they are aimed at,
the findings and the theorems.

## 1. The system

Gist is two programs in one repository.

**The library and command line** (`*.go` in the root, `mcp/`, `cmd/gist`): an index of text
chunks with a three-tier search, in memory or in PostgreSQL, used by one process.

**The hosted registry** (`hosted/`, with the libraries under `catalog/`): a multi-tenant
service in several replicas over one PostgreSQL database and one object store.

| Component | State | Operations | Hard behaviour |
|---|---|---|---|
| Publication v2 store (`storage/publication.go`) | `catalog_versions`, `publication_attempts`, `publication_idempotency`, objects | `Publish`, `Read`, `Cleanup` | upload outside any transaction between two transactions; cleaners delete what publishers may still commit; PUT and DELETE may act late |
| Publication v2 service (`app/publication_v2.go`) | none | `PublishV2`, `ReadV2`, the fence | authority and dependencies change during the upload |
| Publication janitor (`app/publication_maintenance.go`) | ticker | a pass per minute and replica | overlapping passes, claims that expire |
| Revocation (`storage/revocations.go`) | `catalog_versions`, `event_outbox` | `revokeVersion` | announced once, never undone |
| Event feed (`storage/events.go`) | `event_outbox`, `event_cursors`, `event_retention_floors` | append, open, read | ids drawn before commit, cursor cap, purge between two reads |
| Event janitor (`app/event_janitor.go`) | readiness verdict | `PurgeEvents`, probe | must not look healthy while it falls behind |
| OAuth grants (`storage/oauth.go`, `oauth/`) | codes, families, refresh tokens | consent, redeem, rotate, revoke, mint | lost responses, replays, failing mints, policy changes |
| Workload identity (`identity/`) | keys, identities | `Mint`, `Verify`, `Rotate` | a token verified before a revocation and recorded after |
| Operator enrollment (`enrollment/`, `storage/enrollment.go`) | flows, invitations, memberships | login, callback, invite | one-time flows under concurrent callbacks |
| Remote MCP sessions (`remotemcp/transport.go`) | session table in a map and three recency lists | initialize, list, call | three caps, eviction and expiry with calls in flight |
| Application (`app/app.go`) | listeners, janitors | start, drain, stop | order of shutdown |
| Signing keys (`identity/`) | key set, revocation lease | `Rotate`, `LoadKeySet`, `Mint`, `Verify` | a rotation or restart between any two steps of a mint or a verification |
| Issuer qualification (`oauth/delegated.go`) | receipts | the probes of six rows, `SelectIssuer` | an issuer whose one fault hides behind another, a connection that fails in a probe |
| Migrations (`migrate/`) | `schema_migrations`, the schema, the runtime role | `Apply`, `Adopt`, `ProvisionRuntimeRole` | two releases, crashes, a commit whose answer is lost, an administrator at work |
| Embedding runtime (`embeddingruntime/`) | session directory, child, port | `Start`, `Close`, supervisor | the port is chosen, released and bound by someone else; two closers; an early death |
| Public search (`semantic/`, `catalog/directory`) | index, vectors, slot, cache | `Warm`, `LoadSnapshot`, `Search`, `SearchApps` | pages across redeployments and changes of ranking |
| Catalog discovery (`catalog/discovery`) | snapshots of the scoped index | `Update`, `Rebuild`, `Rollback`, `Search`, `Lookup`, `Exact` | readers that outlive their snapshot, writers that raced |
| Resolution, preparation, composition (`catalog/*`) | `resolutions` | `Resolve`, `Prepare` (two services) | a dozen reads under no lock, of records that are revoked meanwhile |
| Gist library (root) | store, vocabulary, statistics, sessions | `BatchIndex`, `Search`, `Stats`, `Close`, `Execute`, `BuildSnapshot` | concurrent callers of one instance, statements that fail half-way |

The components meet in the database: publication and revocation append to the event outbox
inside their own transaction; every registry request authenticates under a policy generation
that administrators change at any time; all janitors re-check their authority on every pass.

## 2. Modules

| Module | Models | Kind |
|---|---|---|
| `VersionRegistry` | what publication promises: a version is admitted once with one digest, revocation is final, each is announced once | abstract specification |
| `Publication` | the publication v2 store, its service's fence, its janitor, revocation, the v1 publisher | detailed specification, refines `VersionRegistry` |
| `PublicationProofs` | theorems about `Publication` | TLAPS |
| `EventFeed` | outbox writers, cursors and pages, retention janitor | specification |
| `EventFeedProofs` | theorems about `EventFeed` | TLAPS |
| `OAuthGrants` | consent, code, refresh family, mint, identity record | specification |
| `OAuthGrantsProofs` | theorems about `OAuthGrants` | TLAPS |
| `Enrollment` | sign-in flows, invitations, memberships, the founder's bootstrap | specification |
| `McpServer` | the MCP session table and its requests, request admission, janitors and shutdown of the application | specification |
| `McpServerProofs` | theorems about `McpServer` | TLAPS |
| `SigningKeys` | the workload key set, one token's mint and verification, the revocation lease | specification |
| `IdentityProofs` | theorems about `Enrollment`, `SigningKeys` and `IssuerQualification` | TLAPS |
| `IssuerQualification` | the qualification prober against an issuer with any faults, issuer selection | specification |
| `Migrations` | releases migrating or adopting one database, the runtime role | specification |
| `EmbeddingRuntime` | the embedding child process from staging to reaping | specification |
| `SemanticSearch` | directory index, document vectors, fused ranking, paging clients | specification |
| `PlatformProofs` | theorems about `Migrations`, `SemanticSearch` and `EmbeddingRuntime` | TLAPS |
| `LexicalRanking` | registry ranking, the store's page, the discovery answer | operators |
| `RegistrySearch` | one discovery request over a registry's rows, and its answer | specification |
| `ScopedIndex` | the scoped catalog index, its writers and readers | specification |
| `Recipes`, `RecipeRun` | recipe schemas, validation, choice of candidates; a recipe admitted and run | operators; specification |
| `CatalogWorld` | the records, membership, connection, task admission and clock that readers of the catalog see | environment |
| `Resolution`, `Preparation`, `Composing` | `Resolve`, and the two `Prepare` services over it | specifications over `CatalogWorld` |
| `CatalogServices` | both services at work, on one call each, in one world | composition |
| `CatalogProofs` | theorems about `ScopedIndex`, `RegistrySearch`, `Recipes`, `RecipeRun` and `CatalogServices` | TLAPS |
| `Chunking`, `StructuredChunks`, `Snippets` | plain text, markdown, JSON and YAML chunking; snippets, trimming, rendering | operators |
| `LibraryCalls` | the pure calls of the library against what they promise | specification |
| `GistLibrary`, `SessionSnapshot`, `Executor` | an instance over its store; a session's log and snapshot; subprocess executions | specifications |
| `LibraryProofs` | theorems about `GistLibrary`, `SessionSnapshot` and `Executor` | TLAPS |
| `MC*` | constants and symmetry for TLC; `MCLibrary`, `MCCatalog` and `MCPlatform` also compose parts that share no state, one part per behaviour | instances |

Definitions whose comment begins with "Mutant" are plausible bugs of the definition that
follows them. No specification uses them; they show that a property can fail.

### Publication

State: `catalog`, `attempts`, `ledger` are the three tables of one workspace; `objects` the
keys present in the object store, one per attempt; `puts` and `dels` the uploads and deletes
that reported an error and may still take effect (`LatePut`, `LateDelete`); `pub` and `clean`
the calls in flight; `policy` the workspace's current generation; `outbox` the events.

`Publish` is four steps, because the code holds no lock across them: the reserve transaction
(`Reserve`, with one action per outcome: a known key conflicts, replays, renews its lease or
moves to a new attempt; a fresh key is refused, conflicts, becomes an alias or reserves), the
`Replay` that reads the saved response back, `StageOwned`, and the commit transaction
(`Commit`, again one action per outcome). Inside a transaction the code takes an advisory lock
on the key and on the version, so each transaction is one action. `PublishFails` and
`StageFails` end a call anywhere in between, which also stands for a crash of the replica.

`Cleanup` is the claim transaction for a set of attempts, one delete per claim and one
completion per claim; other passes interleave between them. Time is nondeterministic:
`LeaseExpires` and `ClaimExpires` may happen whenever the deadline is set, so a 24-hour lease
may run out during an upload.

Data left out: the envelope, receipts, taxonomy projections and the response budget. An
artifact is a version and a digest. `Deps` gives the versions whose liveness the fence of a
skill or binding requires.

### EventFeed

Event ids are drawn (`InsertEvent`) before they are visible (`CommitEvent`), as a sequence
default is. A read is two actions, because `readEventPage` reads the floor and the rows in two
READ COMMITTED statements: `ReadCheck` and `ReadPage`. All transactions of one principal are
serialised by its advisory lock (`Unlocked`); purges and writers are not. `writing` is the ids
that open transactions have drawn: publishers and revokers of a workspace are not serialised, so
any number of them may be open and they commit in any order. A cursor carries two
history fields, the events it started behind (`base`) and those its chain delivered (`got`);
`late` is the history of events that became visible after one of a greater id.

### OAuthGrants

A token request is `RedeemCode` or `RotateRefresh` (one transaction each), then `Mint`,
`Verify`, `RecordIssued` and `Reply`, with policy changes and revocations anywhere between.
`MintFails` leads to `RevokeFamily`, a second transaction that `RequestLost` may skip. `known`
is what clients hold: a secret that was delivered, so a lost response leaves a live token
nobody knows. Redirect URI, PKCE verifier and resource are one Boolean, right or wrong.
`replayed` and `failed` are history variables.

### Enrollment

A callback consumes its flow in one statement (`ConsumeFlow`), learns the account from GitHub
(`Identify`, any account) and runs `CompleteLogin`, one READ COMMITTED transaction in two
actions: `Lookup` of the membership, and the writes (`Redeem` with an invitation, `Found`
without). The writes are one action because their row locks and unique keys last until the
commit; a redemption that meets a membership created since the lookup is rolled back, which
the model shows as `GiveUp`. `inTime` records whether the invitation was within its time when
`CompleteLogin` was called, since the code takes the time before the transaction. The inviter's
row is share-locked from `CheckInvitation` to `EndInvitation`. `Offboard` and `Narrow` are
external: operators change memberships in the database. Sealing of the cookie, CSRF and PKCE
are left out: a callback has the cookie of its flow.

### McpServer

`table` is the map of sessions with the three recency lists; a list gives each session in it the
set of sessions behind it, since all the handler asks of a list is what lies between a session and
the cold end. The handler's mutex makes each of
`Initialize`, `Refused`, `List`, `AdmitCall` and `ReleaseCall` one action; `MakeRoom` is
`addSessionLocked` up to the insertion, with its three caps in order. A request enters the
lifetime (`Enter`), is authenticated (`Admit`), touches the table, and leaves; `Leave` also
stands for every early answer, the 429 of a full semaphore included, so the semaphore itself is
not a variable. `Stop`, `JanitorsAwaited` and `CloseBackends` are `App.Shutdown`; the deadline of
`server.Shutdown` may pass while handlers run, so `JanitorsAwaited` does not wait for requests.
Session identifiers are random and never compared for order, so they are numbered as drawn.

### SigningKeys

`keyset` is the `KeySet`: the current key id and the retirement time of each known key, `Never`
for a zero `NotAfter`. `Rotate` is the method of a running process; `Restart` is `LoadKeySet` in
a new one, which loses revocations and calls in flight. A mint is `ReadMintClock`,
`ReadCurrentKey`, `Sign`; a verification `BeginVerify`, `VerifyKey`, `Validate`, `AskLease`, as
the code reads the clock and the key set at different moments. One token is followed, because
tokens do not affect each other. `chosen` is a history variable: keys whose retirement an
operator set, by an explicit `NotAfter` or by a configuration that drops or shortens a key.

### IssuerQualification

The issuer is external: a conforming authorization server as a function from request and state
to state and response, with a set of `faults`, each a request it answers otherwise. `Checklist`
is `delegated.go`: six rows of probes, each a composition of requests; `RunProbe` runs the next
probe, `CutProbe` lets the connection fail before or after it acted. `FaultSets` are the issuers under
test and `CutSets` the ones of them whose connection may fail. `Select` is `SelectIssuer`
on the resulting rows, on a pending qualification, or on one of another issuer.

### Migrations

`db` is the database; `release` is per process its command and program counter. `AcquireLock`
takes the session advisory lock, `Inspect` reads status and fingerprint, and `CommitMigration`
and `Adopt` are one transaction each, whose commit may succeed with an error reported
(`Transaction`). `Crash` ends a process and its lock. `Meddle` is an administrator who changes
the schema or the role by hand. A migration creates one object that the next one needs, and
`Uses` says which tables, sequences and functions a release that knows it asks for. What a role
is granted and what a process attests follow its own manifest, as `runtimeTables` and
`runtimeFunctions` are constants of a binary: an older binary refuses a role that may do more
than it reviews, a newer one a role that lacks what its migrations brought. A function is
executable by PUBLIC from its migration until the next provisioning revokes that, which is why
provisioning comes after the migrations (`runtime_role.go:69`). `reviewed` is the history of
what the role was last provisioned for.

### EmbeddingRuntime

`Start` is `ReadDigest`, `Stage`, `ChoosePort`, `StartChild`, `AwaitBind`, `AskWithKey`,
`AskWithoutKey`, `HandOut`, and on failure the deferred `StartStops` and `StartRemoves`. `Close`
(a `sync.Once`) and `Supervise` compete; `Terminate`, `Kill` and `Reap` are `stop`. The child
binds, dies or ignores a signal as it likes, another program may take the port (`Impostors`), and
the installed files may be replaced between the digest and the copy.

### SemanticSearch

`Deploy` installs an index; `BeginWarm`, `WarmBatch` and `Publish` (or `LoadSnapshot` of an
artifact that may be of another model, corpus or row order) give its vectors; `Ask` and `Embed`
are a search, which ranks by words alone when no vector can be had. A client keeps its cursor
and what it has read since its first page. Scores are integers: similarities by table, and
reciprocal ranks over their common denominator.

### LexicalRanking, RegistrySearch and ScopedIndex

A record's fields are sets of stemmed terms. `CatalogPage` is the store's statement: the rows it
lists, the scan that bounds a text search (`Scanned`), its matches and the page cut from their
ranking; `Discover` is the authorization, ranking and byte budget behind it, and `RegistrySearch`
one request with its default limit (`Limited`) and its answer. The store never returns a next
cursor. In `ScopedIndex` a
snapshot holds entries, postings and binding buckets; `Patch` is the copy-on-write update and
`Build` the full one. Writers (`BeginUpdate`, `Analyze`, `Rebuild`, `Rollback`, then `Publish`)
compare the generation they expect; readers (`BeginRead`, `Gather`, `Finish`) check at the end
that their snapshot is still the current one. `Withdraw` and `CloseGate` change the caller's
authority between the steps.

### Recipes and RecipeRun

`Validate` is recipe validation: identifiers, ordering, dataflow and its schemas
(`SchemaAssignable`), iteration bounds, call limits. `Assemble` is the choice of a binding
candidate per requirement with its connection groups. `RecipeRun` admits one recipe and then
makes its calls in any dependency order, charging each to `Usage`.

### CatalogWorld, Resolution, Preparation, Composing

`CatalogWorld` holds everything the services read and do not lock, and changes between any two
of their reads. `Resolution` is `Resolver.Resolve` read by read up to `Persist`; `Preparation`
runs it up to four times (without and with the caller's connection, before and after it fetches
the package) between its own scans, ranking, the admission and readiness ports; `Composing` assembles, has the authority check, assembles again and compares.
`sound` is a history variable: whether the facts of the answer held together at one instant, which
is when the last contract was fetched or when the authority first accepted the bundle.
`CatalogServices` composes the two with the world; the run `catalog` takes its steps from there.

### Library

`Chunking` and `StructuredChunks` compute the chunks of a document as the code does, on
paragraphs, lines or trees with byte counts; `Snippets` on classes of bytes. Markdown headings are
the ones written with `#`, with or without a text, at the top level of the document, and fences
are of three backticks; a line may also hold three backticks in its middle, which the code's
substring test takes for a fence. A tree may hold values that JSON has no text for. `LibraryCalls`
asks one call and answers it, or panics. `GistLibrary`: each store call of `Index` (`SaveSource`,
`SaveChunk`, `UpdateBytes`, `AddTerms`, `CountItem`) and of `Search` (`ListSources`, `Tier`,
`Correct`, `CountSearch`, `CountBytes`) is an action, over a memory store (one mutex) or
PostgreSQL (statements that fail on their own); `Close` at any moment. Counters are the sets of
calls they have counted. `SessionSnapshot`: five locked reads of a growing log. `Executor`:
policy, interpreter, temporary file, subprocess, deadline, removal.

## 3. Runs

| Run | Question | Bounds |
|---|---|---|
| `pub_race` | do racing publishers and a cleaner keep catalog, ledger and objects consistent and answer truthfully? | 2 publishers, 2 keys, 2 byte strings, 1 version, 2 attempts, 1 cleaner, 1 claim each |
| `pub_cleaners` | can overlapping cleaners, stale claims and late operations touch what matters, and does an abandoned object go? | 2 publishers, 2 keys, 2 cleaners, 1 attempt claimed up to 3 times, under fairness |
| `pub_fence` | is every admission fenced, is the abstract registry implemented, does the quota hold? | 2 versions, one depending on the other, 1 policy change, 2 attempts, quota 1 |
| `pub_same_bytes` | violation, see section 6 | 2 keys, 1 byte string |
| `feed` | what may a polling client miss, do floors, caps and janitors do their work? | any transactions open at once, 1 client, 2 janitors, 2 events, 3 cursors with a cap of 2, page and batch of 1, 1 policy change, under fairness |
| `feed_writers` | violation, see section 6 | 2 events, any transactions open at once, 1 client |
| `enrollment` | does a flow sign in once, is every membership backed, can invitations widen scopes or undo offboarding? | 3 accounts, 3 flows, 2 invitations, 2 concurrent callbacks, 2 scopes of which the founder has 1 |
| `mcp_sessions` | do the session lists agree and the caps hold, who pays for a new session, do pool and objects outlive all work and is the shutdown completed? | 3 principals in 2 workspaces, caps 2, 2 and 3, 4 sessions drawn, 2 requests, 1 call per session, TTL 0 on a clock of 2 values, 1 janitor, under fairness |
| `oauth_grants` | does a grant keep to one live token and to its consent, and does it stay dead? | 1 code, 3 tokens (two rotations), 2 scopes, 2 policies |
| `library` | what does cutting lose or misplace, is a successful Index complete, can a search miss what was there, do snapshots and executions leave nothing out or behind? | texts of up to 3 paragraphs, markdown of up to 5 lines (4 with headings without a text or backticks inside a line) and longer ones with a fence, trees of depth 3, some with values JSON has no text for, texts of up to 15 bytes; 2 items in a pool of 1 or 2, 3 kinds of search, 1 failed statement, both stores; 3 events, 4 budgets; 4 executions; under fairness of the batch |
| `catalog` | what can a hidden record do to an answer, are index updates serial and answers current, do admitted recipes run, was every ready answer true? | 4 records, a default limit of 1, a page of 2, a scan of 3; 2 writers or a writer and a reader, 4 partial or full contents, 3 generations; recipes of 3 steps and 3 requirements; 6 requests, 10 document shapes, 2 changes of the world, 1 tick |
| `platform` | do all faults of an issuer show, does the ledger tell the truth about the schema, do tokens outlive rotations, are pages of one ranking, does the child process always end? | any issuer with at most 2 faults and 1 cut probe; 2 releases started twice, the first with a shorter or another manifest, 5 tables, sequences and functions, 1 intervention; 3 keys, 2 rotations or restarts, clock of 5 values; 2 impostors; 2 corpora of 3 and 2 documents, 2 clients, pages of 1; under fairness of the runtime |

Why these are enough: every race in the code is between two parties over one row, so two
publishers, cleaners or janitors and one version, attempt or family reach it; two keys and two
byte strings reach every outcome of the reserve and commit transactions; three claims let a
stale claim meet a fresh one twice. With one code there is never more than one token request
in flight that can still mint, so a second request slot adds no state. Three flows let the founder invite a maintainer who invites in turn, and two invitations let
two callbacks of one account race. Four sessions under caps 2, 2 and 3 make each cap evict and
refuse; with a TTL of 0 one tick expires what was not used since. In `library`, three paragraphs
are one held back, one cut and one after, five lines are two headings, a fence and its content,
and arrays of three elements have a range on each side of an element that is too big or has no
JSON text; a second
item meets the first in the store, and with a pool of 1 it must wait. In `catalog`, the
fourth record lies past the scan of a text search while the first is live, and two hidden records
fill a page; a writer's
race needs two writers and one edit each, a reader's one writer; recipes of three steps have a
chain, a fork and a join; a preparation reads its facts at least twice, so two changes (one
before, one between) reach every combination of stale and fresh. In `platform`, a fault can
only be hidden by one other; the lock admits one release at a time, so two of them with a crash
and one restart each reach every hand-over, and a provisioning by either falls before or after
the migrations of the other; two rotations retire a key and the one that
retired it; and a client on its second page meets the second corpus or the second vector. The
theorems of section 5 hold for all bounds. Named bounds: `MaxGen` (claims per attempt), `MaxPolicy` (policy
changes), `MaxEvent`, `MaxCursor`, `MaxConsents`, `MaxDrawn` (sessions), `MaxTime`, `MaxFaults` (failed
statements), `MaxEvents` (session events), `RecipeAsks` and `CallBytes` (recipes asked for and the bytes of a call), `SearchAsks` (searches made), `MaxChanges` (changes of the catalog's world), `MaxCuts`
(probes cut off), `MaxStarts` and `MaxMeddling` (migrations), `MaxClock` and `MaxRekeys` (keys); `MaxActive`, `MaxLedger`, `CleanupLimit`,
`PageSize`, `CursorCap`, `PurgeBatch`, `MaxBatches`, `MaxAge`, `Skew`, `MaxLease`, `MaxDepth`,
`DefaultLimit` (20), `MaxPage` (100), `MaxScan` (10000), `MaxBytes` (4 MiB), `LookupLimit`, `RecentMax`, `SnippetLen`, `Floor`, `MaxSemantic`, `MaxLexical` and
`Batch` are limits of the code with small values; `MaxGen` of `ScopedIndex` is the last
generation, 2^64 - 1 in the code, at which the index refuses to publish.

`oauth_grants`, `enrollment`, `mcp_sessions` and the violation runs without janitors switch the
deadlock check off: a server that nobody calls rests, and one that was shut down has ended. So do
`library`, `catalog` and `platform`: a call that was answered is over.

Several properties are conjunctions of named parts that answer one question, for instance
`LedgerIsTrue`, `CleanersStayCurrent`, `PositionsHold`, `SessionTableAddsUp`; the parts stand
beside them with their own comments.

## 4. Fairness

`Publication!CleanupFairness`: time passes, so leases and claims run out; the ticker of a
replica starts a pass every minute and takes the oldest leases first, so an attempt that stays
claimable is claimed; a running pass tries each claim and finishes it unless it fails. No PUT,
DELETE or transaction is assumed to succeed. `AbandonedObjectsGo` is stated accordingly.
`EventFeed!FairSpec`: the ticker keeps starting passes and a pass ends or fails. No purge is
assumed to succeed: `ExpiredEventsGo` says the event goes or readiness reports a failure.
`McpServer!Fairness`: a tool call returns (requests carry a timeout), a handler reaches its end,
a cancelled janitor returns, and the shutdown goroutine goes on, the deadline of the HTTP server
included. Nobody is assumed to call, and nobody to ask for the shutdown.
`MCLibrary!MCFairness`: every goroutine of a batch keeps running, and a store call of it succeeds
or fails; so `BatchCompletes`. Searches and `Close` have no fairness.
`EmbeddingRuntime!RuntimeFairness`: Go runs a goroutine that can run, which is `Start`, the
supervisor, a stop under way and the wait that reaps. Nothing makes the child bind, die or
answer, and `Terminate` may have no effect: only `Kill` ends it.
Publishers, clients, writers, searches and sign-ins have no fairness.

## 5. Proofs

All theorems hold for every value of the constants that satisfies the named assumptions of the
component's module.

`PublicationProofs`. `IInv` adds to the invariants that TLC checks what makes them inductive: an
outstanding PUT, DELETE or claim names an attempt in a state that can no longer be committed
(for deletes) or is the publisher's own (for puts); a publisher at its commit step whose attempt
is still staged has its object in place; a row's object key is the key of a committed attempt
for the same version and digest. It is needed because "the object of an admitted version is
present" is broken by a delete that was ordered long before: one has to know that no delete is
ever ordered for an attempt that can still become committed. Each action has one step per
conjunct it can disturb. From it follow `PublicationTypeOK`, `AdmittedObjectsAreSafe`,
`CommitsAreRows`, `DeletionsAreSafe`, the action property `PublicationIsFenced` and the
refinement `PublicationRefinesRegistry`: initial states map to initial states, each admission to
`Admit`, each revocation to `Revoke`, and every other step to a stutter.

On top of it stand two more invariants. `CleanInv` counts: the staged attempts are within the
quota, a claim of the current generation finds its attempt still `deleting` and is held by one
pass, and finitely many attempts were drawn so far (`DrawnFinite`; that
`Attempt` is finite is not assumed, and without finitely many a cardinality says nothing). From
it follow `StagedStaysWithinQuota` and, with a lemma per action on what it may do to an attempt,
`PassesStayCurrent`: a stalled pass never finishes its successor's claim. `CallsOwnTheirRows`
says that a call that may still commit owns its key's row, and that every reply in hand is true;
with it `LedgerStaysTrue` follows from one lemma per action.

`EventFeedProofs`. `FeedInv` holds for any number of open transactions, clients and janitors: a live cursor
was drawn, its position and the floor are events that were visible, a purge deletes what was
visible, what is purged is below the floor, the cap holds. `MaxIsGreatest` and `LowestIsPrefix`
say what `ORDER BY ... LIMIT` returns, from a least element of a set of naturals, not by
induction. From them follow `PositionsNeverMove` and `PositionsAlwaysHold`. That nothing is
skipped is not true of every behaviour (run `feed_writers`, section 6). `SkippedEventsWereLate`
says without any premise what is: an event that an acknowledged position passed unseen became
visible after one of a greater id. `NothingSkippedInOrder` draws the conclusion for behaviours in
which events become visible in the order of their ids, the premise that the code would have to
establish. Both rest on `IdsAreDrawnOnce` and on the lemma `ReadsAlwaysStandApart`: under the
advisory lock of a read the cursor it started from stays live.
Assumed: the bounds are positive.

`OAuthGrantsProofs`. `IInv` says besides the checked properties: the families of a code exist
only when it is consumed and there is one of them; a family has one unconsumed token; a token
under minting belongs to exactly one request; a family in which a mint failed has an
unconsumed token that no client knows, so it can never be rotated even if its revocation was
lost; only consumed secrets are counted as replayed. From it follow `GrantsTypeOK`,
`OneUsableToken`, `ReplayEndsGrants`, `GrantsNeverWiden` and the action properties
`RevocationIsFinal`, `FailedGrantsStayDead` and their conjunction `EndingIsFinal`.

`IdentityProofs`, enrollment. `IInv` is the conjunction of the five checked invariants with two more: a
callback at work and an issued session belong to a flow that is consumed, so nobody else can
take it (without this, single use of a flow is not inductive), and a written invitation names a
real role and an inviting account, so that redeeming it enrolls. One lemma per action, one step
per conjunct. From it follow `EnrollmentTypeOK`, `FlowsAreSingleUse`, `MembershipsAreBacked`,
`InvitationsOnlyDelegate`, `SessionsBelongToMembers`, `SessionsAreEarnedOnce` and the action
property `OffboardingIsFinal`. Assumed: the founder is an account, the configured scopes are scopes, and
`None` is neither an account, an invitation nor a flow.

`IdentityProofs`, signing keys. `KeysInv` says that no token outlives its age from now; that the key of a
token under minting or out is known for as long as the token may be accepted, unless an operator
retired that key; that a current key has no retirement unless one was chosen; that a revocation
lasts as long as the token; and what a verification in progress has established. The second part
is what rotation relies on: `TokensOutliveRotation` itself speaks of tokens that are out, while a
rotation may fall between reading the current key and signing. One lemma per action; from them
follows `TokensOutliveEveryRotation`. Assumed: there is a key, and ages, skews, leases and the
clock's bound are naturals; `MaxRekeys` is any value.

`IdentityProofs`, issuer qualification: `QualifiedIssuersAlwaysComply`, for every set of faults and any
number of probes cut off, where the run tries pairs of faults. `Asked` says which faults each probe
asks about. `QualInv` says what a row that has failed nothing so far has told (none of the faults its
probes asked about is there, `InRow`), what it left for its next probe (`Left`: the client of the code
row, the family and the generation of the refresh row, the bound token of the audience row), what is
known whatever failed (`Known`: the grant remembered is a family of the issuer's), and that each row that
ended has failed or told (`Told`). `Left` is what it takes: that a family is refused after reuse
tells nothing unless the family stood before. There is one lemma per probe: it passes only if the faults it
asks about are absent, and it passes if there are none, given what was left. They rest on a lemma per
request of the issuer and on what later requests keep of its state (`Keeps`). Assumed: the faults of
the issuers under test are faults.

`McpServerProofs`. `ServerInv` is type, table and counts: the three lists are chains over the same
live sessions in the order of last use (`Agrees`), no session was used later than now, the caps
hold, a request holds a session exactly while its call is counted, and shutdown goes through its
phases in order. The lemmas are about the operators on lists: `ToFront`, `Without`, the coldest
idle member, and `MakeRoom` with its three caps, of which the clamping of `New`
(`CapAssumption`) makes one eviction at each enough. From it follow `TableAlwaysAddsUp`,
`BackendsAreClosedLast` and the action property `EvictionsStayFair`. Assumed besides the caps:
each principal has a workspace, and the requests in flight are finitely many, as goroutines are
(`RequestAssumption`), since calls in flight are counted.

`PlatformProofs`. Migrations: `MigrateInv` says that the ledger is the adopted rows and then
exactly the migrations whose SQL was committed (`LedgerAddsUp`), and what each process knows: what
it read before it writes still holds, because nobody else has the lock or because the ledger
only grows, and what it was told stays true. Of the role it says that, until an administrator
interferes, it may do what the manifest reviews that it was last provisioned for and, through
PUBLIC, call every function of the ledger (`Confined`). From it follows `ReleasesStaySound`:
a binary attests the role just when what it reviews is what the role was provisioned for together
with all functions of the ledger. So a migration that brings a table, or a function the binary
does not know, ends attestation until the next provisioning, and one that brings only a function
is attested by its own release at once, through PUBLIC. It holds for any manifests that are
sequences of file names and any `Uses`. Search: `SearchInv` says for each client that what it
has read is the beginning of each ranking it may still be in, up to the key its cursor names, and
of the vectors that a build has those of a prefix of the documents and a publication all of them.
A cursor carries a digest of the revision and the ranking, so a page either continues that
ranking or is refused. From it follows `PagesStayOfOneRanking`. Assumed: two corpora of one
revision have the same entries, since a revision is a digest of them (`RevisionAssumption`), and
pages and batches are not empty. The order `SortSeq` makes is not used: what matters is that both
pages are cut from the same sequence.

`CatalogProofs`. Scoped index: the lemmas about `Patch` and `Build` say that a partial update,
posting by posting and bucket by bucket, makes what a rebuild of the resulting entries makes, and
`IndexInv` that every call carries a snapshot that was current and has prepared what that snapshot
gives. From it follow `IndexStaysSound` and the action properties `PublishesStaySerial` and
`AnswersStayCurrent`. Services: `PreparedFactsStayHeld` says that a ready preparation and a ready
composition were true at one instant, though nothing is locked between their reads. The argument
is that what is lost is lost for good (`LostForGood`: a revoked artifact, an ended membership and
a generation that advanced never come back) and that every fact is read again after the instant.
So if something was wrong at the instant, some step still to come finds it: `PrepCaught` and
`CompCaught` say at each step of the second reading what may still be wrong and that it has not
been passed, `Misses` that a resolution in progress cannot end in the finding of the first. A
second binding is the one artifact that may appear (`RivalKnown`). Assumed: nothing but a positive
last generation of the index.

Recipes: `RecipesRun` and `SelectionsAreForced` hold for any recipes and candidates. `RunGood`
relates what a run has charged to the calls it has made or passed over: no more is charged than
was made (`Counts`), what was made is within the recipe's calls, which `Validate` bounds by the
limits, and a call about to be made is a new one (`CallIsNew`); so the budget cannot end a run
whose bytes suffice (`BudgetLasts`). A step that is enabled and not done has, by the order that
`Validate` requires, a first one whose sources are done (`SomeStepIsNext`). That its input fits is
`AssignableIsSound`: along the levels at which schemas are compared, whatever the source's schema
accepts the target's accepts too. `SettledIsNarrower` and `SelectionIsChosen` say how a connection
group narrows the candidates of its members, from which a selection serves every requirement and
any other that does is the same. Assumed of a recipe: finitely many steps and candidates, and
pointers that have a length.

Search: `HiddenRecordsCrowdAtMost` holds for any rows and query. A ranking is described by places:
a record's place is one more than the number of records before it (`PlacesAreRanks`,
`RankedByPlace`), so it is a function of the set that is ranked and not of the order in which it
came, and places only shrink with the set (`PlacesShrink`). `PageFacts` says of the store's page
that it is the scanned matches of the first places. What `Discover` ranks is what the caller may
read of the page (`DiscoverSeesTheReadable`), and the answer is a prefix of that ranking, taken up
to the limit (`TakesThePrefix`) and cut from its tail until it fits the byte budget
(`ShrinksFromTheTail`); what is left out ranks behind what is given (`CutsLeaveTheRest`). So a readable record that is missing was past the scan, off the page, or at
or behind the first one that did not fit (`AnswersMissForAReason`); a limit alone never explains
it, since the page is no longer than the limit. When scan
and page take everything, the page without the unreadable records has the same readable ones
(`OthersLeaveNoTrace`). Assumed: finitely many records with distinct identifiers and
finitely many terms, and a positive default limit, page and scan.

`LibraryProofs`. `LibInv` follows an item and a search through their steps. Store and items
(`StoreOk`, `ItemsOk`): every chunk belongs to a saved source, the chunk whose words an item is
about to add is saved, and so every term of the vocabulary is a word of some saved chunk. The
store only grows (`StoreGrows`), so what a search read of a chunk stays true of it. Searches
(`SearchOk`): after a tier that answered nothing, no chunk below the search's floor hits in it
(`NoWords`, `NoText`); a correction is a term of the vocabulary, hence the first tier after it
has a hit unless a source filter is set, and an unfiltered search never comes to the second one.
The lemmas about operators say that a ranking is empty only when nothing hits (`RankedFacts`),
that a budget never removes the first result (`ConvertFacts`) and that `FuzzyMatch` finds a term
when one is near enough (`CorrectFacts`). From it follows `EmptySearchesOverlookNothing`, for
`LibSpec`, of which the checked instance is a part: there one search runs at a time. Assumed: the
chunks of a document have words of the vocabulary, terms are numbered from 1, limits are positive
(`WithLimit` ignores others) and distances are naturals; nothing of the snippets, the budgets or
the number of goroutines. `RunsAlwaysLeaveNothingBehind` is the safety part of `CallsEndClean`:
an execution has its file exactly from its creation to its removal and its subprocess exactly
while it runs (`ExecutionOk`).

`SuccessesAreStored` adds to it what an `Index` call has stored so far (`ItemsStored`): the chunks,
the words and the bytes of a prefix of its document, and the calls that the statistics count
(`CountersOk`). It holds for any documents, over both stores, with any number of failed statements.
`SnapshotsKeepTheirErrors` rests on `SessInv`: the views that `BuildSnapshot` takes of the log are
lengths it had, each at least the one before, and errors are read last, so every error among the
recent events is among the errors. The rest is about `Render`: the costs of the sections' prefixes
never decrease, the greatest prefix within the budget is the one written, and the section after it
is cut to what is left (`Prefixed`). Assumed: the recent events and the budgets are naturals and a line
has bytes.

Sums and sequences defined by recursion are reasoned about without the library's induction
theorems: `Climb` says that if a bound holds at 0 and each step keeps it, there is no least place
at which it fails.

`PlatformProofs`, embedding process: `RuntimesStayClean` is the safety part of `RuntimesEndClean`.
`RuntimeOk` says at each place of `Start` and `Close` what there is of the session, the child and
the bind: no child before a pinned session, none unreaped once the session may go. Assumed:
nothing.

Only model-checked, and why:

* Liveness (`AbandonedObjectsGo`, `ExpiredEventsGo`, `ShutdownCompletes`, `BatchCompletes`, the
  leads-to parts of `RuntimesEndClean`): outside what the prover handles.
* `ChunksAccountForText`: `Chunking` and `StructuredChunks` compute with recursive operators, and what
  a recursion computes for every input is an induction over data, which the installed provers
  cannot do.

## 6. Findings

* `pub_same_bytes`: key k1 reserves and loses its attempt to cleanup; k2 publishes the same
  bytes; every retry with k1 is a conflict (`publication.go`, the comparison of the row's object
  key with the retired attempt's), while the design says identical bytes return the existing
  admission.
* `feed_writers`: ids become visible out of order, and cursors advance to the greatest visible
  id, so an event that commits late is never delivered to a cursor that passed it.

Observed while modelling, without a run of their own:

* A purge between the two statements of a read (`events.go`, the floor and then the rows) turns
  a retention gap into a silently shorter page.
* At the cursor cap a read deletes its own input cursor when that is the oldest, although the
  comment beside it says the input stays usable.
* Offsets of plain text chunks drift from the document when paragraphs are blank or trimmed
  (`chunk.go:23` calls them byte offsets), and `splitPreservingCodeBlocks` ends a part only at
  two blank lines, not at one.
* `convertMatches` looks for the words of the source filter, not of the query, when it places a
  snippet (`search.go:175`); `Render` does not count a section's heading in its budget.
* An execution's timeout kills the interpreter; a descendant that holds stdout open keeps
  `cmd.Run` waiting. `normalizeYAML` merges two keys that print alike.
* The discovery store scans and cuts its page (`postgres.go:93-98`, `:147`) before records are
  authorized and filtered by tag, while `catalog/discovery/index.go:107-108` says that a hidden
  record must not influence order, counts, snippets or budget decisions. Enough hidden records, or
  records whose tags do not fit, ahead of a readable one keep it out of the answer, which may then
  be empty. `HiddenRecordsOnlyCrowd` says exactly that, and that hidden records do nothing else.
* A markdown heading without a text has position 0 (`chunk.go:158-161`). When it comes next after a
  heading with a text that is not at the very start, `ChunkContent` panics in the slice of
  `chunk.go:201`; otherwise everything before its end is filed under its path.
* A YAML value such as `.nan` or `.inf` has no JSON text, so the top-level entry or element that
  holds one is passed over without an error (`chunk_json.go:44-47`, `:87-90`), while the label of an
  array range still spans it. `ChunksAccountForText` names what is lost.
* A paragraph with three backticks anywhere in it counts as a fence (`chunk.go:286`), so it is never
  cut and its chunk may exceed the limit.
* A role has to be provisioned again after each migration with a table or a function that the
  running binaries do not review (`runtime_role.go:115`, `:195`, `verify_runtime_role.go:72-83`):
  until then the older binaries, or all of them, refuse to attest it.
* Public entry search ranks only the first 100 lexical hits in hybrid mode. `SearchApps` pages by
  a bare offset, so a switch between hybrid and lexical ranking mixes two rankings; the property
  `PagesAreOfOneRanking` claims one ranking for entries only.
* `Adopt` compares the fingerprint in a transaction before the one that writes.
* `KeySet.currentKey` does not look at the current key's own `NotAfter`. A revocation lease may
  end at a token's expiry while `Verify` tolerates 30 seconds of skew beyond it; `Revoke` has no
  production caller, and `TokensOutliveRotation` claims rejection for verifications begun before
  the expiry.
* The readiness probes of the embedding runtime could be answered by another listener after the
  child died and before it is reaped; neither kind of impostor passes both probes.

## 7. Not modelled, and the plan

Not modelled:

* Validation of documents over bytes: the publication v2 decoder, package archives, provenance
  and directory records. Each is a long list of independent refusals of one input; a model would
  be the list again.
* HTTP routing, encoding and page rendering; configuration; telemetry; the command line and the
  local MCP server, which call the library and keep nothing.
* The in-memory event store, which only tests use, and the evaluation tools.
* Bookmarks, the discovery response cache (`cache.go`), `connections.go`, the readiness gate of the
  first enrollment, and several capabilities in one resolution: left for lack of room, not
  because they could not be modelled.
* The data inside a component that is modelled: envelopes and receipts, key material, floating
  point scores (orders by table instead), edit distance (a table of distances), stemming.

`PROJECT.json` lists every component with its reason.

Next, in this order:

1. Proofs: chunking, once its recursions are functions of natural numbers.
2. The discovery response cache together with `ScopedIndex`; several capabilities in `Resolution`.
3. Bookmarks and the enrollment gate.
