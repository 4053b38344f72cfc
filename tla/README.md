# A verification development for morphis

morphis is a GraphQL server (Rust, `src/`) that generates a schema from a
configuration of PostgreSQL tables and Elasticsearch indexes, an authentication
library it shares with a proxy (`identity-auth/`, `auth-proxy/`), a pipeline
that keeps the search index in step with the database (`db/`, `pgx/`,
`docker-compose.yml`), and a web frontend (`frontend/`).

This directory holds TLA+ modules translated from that source, the TLC
configurations that check them, and proofs checked by TLAPS. Paths below are
relative to the repository. Every definition that models code carries an entry
in `PROJECT.json` ("map") with the lines it stands for.

1. [The system](#1-the-system)
2. [Modules](#2-modules)
3. [Runs](#3-runs)
4. [Fairness](#4-fairness)
5. [Proofs](#5-proofs)
6. [What the runs found](#6-what-the-runs-found)
7. [Limits of the models](#7-limits-of-the-models)
8. [Plan](#8-plan)

## 1. The system

### Components and how they interact

```
 browser --> frontend (Next.js) --> [auth-proxy] --> GraphQL server / MCP tools
                                        |                |
                                  Authenticator     Authenticator      identity: header -> value
                                        |                |
                                  JwksProvider      JwksProvider --CircuitBreaker--> identity provider
                                                         |
            table resolvers, relation loader, row filters --> PostgreSQL
            search service, PermissionCache --CircuitBreaker--> Elasticsearch
                                                                     ^
 PostgreSQL --triggers--> NOTIFY --listener--> RabbitMQ --consumer---+
                                                  (reads PostgreSQL again)
```

| Component | State it keeps | Operations | Hard behaviour | What makes it correct |
|---|---|---|---|---|
| **Circuit breaker** `identity-auth/src/circuit_breaker.rs` | state with its payload, failure count | `call` = ask, run the future, record the outcome | the lock is not held across the future; outcomes arrive late; a future may be dropped | no call for a full cool-down after a trip, a bounded number of probes, recovery |
| **Token validation, JWKS** `authenticator.rs`, `jwks.rs` | cached key set and its age | `authenticate`, `resolve_keys`, `warm` | fetches overlap with each other and with key rotation; expiry; breaker rejections | a valid token is not rejected for a cache's sake; the cache converges |
| **Row filters, permission cache, search** `src/schema/search/` | cache of permission rows with TTL | resolve filters one after the other, query Elasticsearch, enrich the hits | searches miss together, permissions change under them, entries expire | Elasticsearch restricts as SQL does, exactly so where the index keeps values whole; no filter is lost; a revocation takes effect |
| **Index pipeline** `db/triggers.sql`, `pgx/`, `docker-compose.yml` | notifications, queue, documents | triggers, listen/publish, consume and rebuild | the document is read in several statements; losses, redelivery, restarts | a stale document always has a notification on its way; documents become current |
| **Relation loader** `src/schema/relation.rs` | the coalescing window | `load_many`, dispatch, one query per group | keys of different identities and requests share a batch; a group may fail | each parent row gets what a query of its own would return |
| **Table resolvers** `src/schema/table.rs`, `where_filter.rs` | none of their own | single, list, create, update, delete | several arguments and filters number their parameters in one statement; paging | the statement is well formed and means the request; only rows the filters allow are touched |
| **Search operators, Elasticsearch client** `operator.rs`, `es_client.rs` | none | filter to query DSL, the in-memory adapter the tests run against | clause placement; null, empty and refused operands; lists | the query means the filter |
| **Hit enrichment** `src/schema/search/mod.rs` | none of its own; the recursion of `es_batch_enrich` | one statement per join and level | rows move between two statements, a statement fails, hits share a key | each join shows the rows of one moment, or none |
| Document contract `contract.rs` | none | shape tests over fixtures | none | tests |
| Depth limit `limits.rs` | memo table of one walk | depth of a document | shared and cyclic fragments | no document deeper than the limit passes |
| Schema assembly `src/schema/mod.rs`, `util.rs` | the schema, built once | start-up | none at run time | unit tests |
| Entry points `main.rs`, `auth.rs`, `mcp.rs`, `auth-proxy/` | the MCP schema cache | authenticate, run, answer | first-answer caching | the identity reaches every resolver |
| Frontend list page and search `frontend/app/[entity]/page.tsx`, `search-bar.tsx`, `advanced-filter.tsx` | query, filter, page, result of the multi-term search | effects and promises | answers that arrive late, effects that return early | the table shows what the controls say |
| Frontend dialogs, relation panel, locale | open dialog, delete target, messages | `confirm`, delete, change of locale | a second dialog, a late answer | nothing is deleted unless confirmed |
| Frontend forms, tables, metadata, sign-in | a schema cache | rendering | none shared | tests |

Interactions are calls (resolvers to database and Elasticsearch), messages
(NOTIFY, RabbitMQ), shared state (the breaker, the permission cache, the JWKS
cache and the loader's window are shared by all requests of a process) and
dropped futures: axum drops a handler's future when its client disconnects, at
whatever `await` it stands. Every module in which requests overlap has an action
for that.

`PROJECT.json` lists each component with its status, and under "hazards" every
place in this code that is hard to test, with the property that watches it or
the reason none does.

## 2. Modules

| Module | Stands for | State | Steps |
|---|---|---|---|
| `CircuitBreaker` | `CircuitBreaker` | `state`, `failure_count`, `elapsed`, `remaining` are `Inner`; `inFlight` the calls between the two lock acquisitions; `probes`, `dropped` are history | one per arm of `is_request_allowed` (`AllowClosed`, `StartHalfOpen`, `CloseDirectly`, `TakeProbeSlot`, `Reject`), `RecordSuccess`, `RecordFailure`, `DropCall`, `Tick` |
| `ProbeGate` | what a caller may rely on (abstract) | `gate`, `cooling`, `budget`, `calls` | `Pass`, `Retry`, `Probe`, `Succeed`, `Fail`, `Abandon`, `Cool` |
| `JwksProvider` | `Authenticator::authenticate` and `JwksProvider`, composed with the breaker (`B == INSTANCE CircuitBreaker`) | `cached`, `age`: `JwksCache`; `version`: what the provider publishes; `req`: each request's place; `up`: whether `warm` is done | `Lookup` (secret, then cache under the read lock), `BeginFetch`, `Respond`, `FetchFails`, `BadBody`, `Store`, `Drop`, `Rotate`, `Warm`, `Tick` |
| `RowFilter` | `row_filter.rs` as operators: which filters match, what the SQL compiler's clause means, which terms a permission row gives | none | none |
| `SearchService` | filter resolution through `PermissionCache`, then the query | `cache`: entries with the ticks they have left; `search`: each search's place, the positions of the filters left to do (`todo`), the `clauses` it has and, as history, the filters `resolved` and from which contents; `version`: contents of the permission tables | `Start`, `ReadCache`, `DbAnswers`, `DbFails`, `Insert`, `Query`, `Drop`, `Grant`, `Tick` |
| `EsQuery` | which documents a clause matches, with what score, and the page that is returned: `es_client.rs`, but for lists, of which every item counts (section 7) | none | none |
| `SearchConfig` | an index and its joins in `config.rs`, and how deep they nest | none | none |
| `SearchFilter` | `operator.rs`: the operators of each column type, what the generated input types accept, the clauses a filter becomes | none | none |
| `JsonValue` | JSON values, as far as the search reads them | none | none |
| `HitEnrichment` | `es_batch_enrich` | `call`: what it was called with; `stack`: the calls of the recursion under way; `version`: contents of the joined tables; `asked`, `failed` are history | `Call`, `SkipJoin`, `NoKeys`, `Statement`, `StatementFails`, `Return`, `Forget`, `Write` |
| `SearchHits` | one search from its arguments to its answer: body, hits, and the enrichment of `HitEnrichment` | `phase`, `request`, `found`, `erred` and those of `HitEnrichment` | `Ask`, `EsAnswers`, `EsAnswersError`, `EsFails`, `EnrichHits`, `Answer`, `Drop`, `Write` |
| `IndexPipeline` | triggers, listener, queue, consumer | `mats`, `owner`, `rev`: the tables; `channel`, `queue`, `consumer`, `index`; `forsaken`, `writes` are history | six writes each with its trigger, `Publish`, `ListenerStops/Starts`, the consumer's steps one per resolver, drop and restart |
| `PerRowRelations` | what a relation field promises (abstract) | `rows`, `key`, `status`, `value` | `Call`, `Read`, `Return`, `Fail`, `Drop`, `Write` |
| `RelationLoader` | `relation.rs` and the DataLoader window | as above, with `pending` (the window) and `batches` (calls of `load` under way) | `Call`, `Dispatch`, `RunGroup`, `GroupFails`, `Deliver`, `Drop`, `Write` |
| `SqlStatement` | the statements `table.rs` and `where_filter.rs` compile, and what PostgreSQL makes of them | none | none |
| `TableResolvers` | the five generated fields | `table`; `last`: the request just answered | `Get`, `List`, `NextPage`, `Create`, `Update`, `Delete`, `Answered` |
| `QueryGuards` | the depth limit of `limits.rs`, and the validation behind it | `doc`; `stack`: the calls of `selection_depth` under way, each with the place of its loop; `memo`, `visited`, `deepest`: the locals of `max_depth`; `verdict`; `walked` is history | one per arm of the `match`: `PassIntrospection`, `EnterField`, `EnterInline`, `Recall`, `PassSpread`, `EnterFragment`; `Return`; `Visit`, `Visited`, `ParseQuery`; `Validate` |
| `CircuitBreakerProofs`, `JwksProviderProofs`, `SearchServiceProofs`, `IndexPipelineProofs`, `RelationLoaderProofs`, `TableResolversProofs`, `SearchHitsProofs`, `QueryGuardsProofs` | proofs about these; `SearchHitsProofs` about `HitEnrichment` too | | |
| `MC...` | constants for the runs | | |

```
ProbeGate <--refined by-- CircuitBreaker <--INSTANCE-- JwksProvider
                                ^--EXTENDS-- CircuitBreakerProofs <--INSTANCE-- JwksProviderProofs
RowFilter <--EXTENDS-- SearchService <--EXTENDS-- SearchServiceProofs
    ^--EXTENDS-- SqlStatement <--EXTENDS-- TableResolvers
                                            ^--EXTENDS-- TableResolversProofs
PerRowRelations <--refined by-- RelationLoader <--EXTENDS-- RelationLoaderProofs
JsonValue <--EXTENDS-- EsQuery <--EXTENDS-- SearchFilter <--EXTENDS-- SearchHits <--EXTENDS-- SearchHitsProofs
    ^                                           |                         |
    +---EXTENDS-- SearchConfig <--EXTENDS-------+-- HitEnrichment <-------+
IndexPipeline <--EXTENDS-- IndexPipelineProofs
QueryGuards <--EXTENDS-- QueryGuardsProofs
```

A search is split between two modules at the point where the code has a list of
clauses in hand: `SearchService` says how row filters become clauses while
searches share the cache and permissions change, `SearchHits` takes such clauses
as part of its request (`rows`) and says what becomes of them. Nothing but the
clauses passes from one to the other, so no interleaving is lost.

The enrichment has a module of its own because it does not depend on how its
sources were found. `HitEnrichment` says what `es_batch_enrich` does with any page
of sources and any joins; `SearchHits` extends it and makes the calls, with the
sources Elasticsearch answered. `EnrichesAPage` states that a search, seen through
the variables of `HitEnrichment`, is a behaviour of its specification, whose
theorems so hold for the search too.

What is atomic follows the code. The breaker, the JWKS cache and the permission
cache are each behind a lock that is released before the next `await`, so each
locked section is one step and the awaits between are where other steps fall. A
SQL statement is one step. The consumer of the pipeline runs one statement per
resolver, so each is a step.

Abstractions that several modules use:

- *Time* is an age or a rest in ticks that saturates at the timeout the code
  compares it with, since the code reads a clock in no other way.
- *Data that changes outside the process* (published key sets, permission
  tables) is a sequence of successive contents and a number that only grows, so
  "stale" and "newer" can be said.
- *Row contents* in the pipeline are a revision that every update flips: two
  documents are equal exactly when the same rows in the same revisions are in them.
- *Statements* are lists of conditions with the numbers of their parameters and
  the parameters, so a wrong number picks a wrong value as it would in PostgreSQL.

`TableResolvers` treats what is refused (by validation, by the database, by a
missing row) as no step: a refused request changes nothing in the code either.

## 3. Runs

| Run | Instance | Distinct states | Shows |
|---|---|---|---|
| `breaker` | 3 callers, five configurations | 274 | the invariants, the refinement of `ProbeGate`, recovery |
| `jwks` | 2 requests, 2 published sets, 5 tokens, TTL 2 | 37,317 | stable keys accepted, monotonic re-fetch, correct use of the breaker, convergence |
| `search` | 2 searches, 3 filters, 3 identities, 2 table contents | 123,396 | agreement of the two compilers on a text and a keyword column, all filters applied, live entries kept, revocation |
| `hits` | about 180 requests, 3 documents, two levels of joins and a many-to-one one, 2 table contents | 14,217 | the page is the one the request means, the hits keep their number, each join shows one moment, every search ends |
| `index` | 2 materials, 3 children, 1 attribute, 2 writes | 529,002 | staleness only while a notification is pending, eventual currency |
| `relation` | 3 loads, 2 rows, 2 tenants, 1 write | 140,256 | the refinement of `PerRowRelations`, every load ends |
| `table` | 4 keys, 3 columns, every table over them | 36,764 | well-formed statements that mean their arguments, paging, write protection |
| `depth` | every document of 1 operation and 2 fragments with 1 or 2 items each, some with 2 operations; limit 2 | 1,765,270 | exactly the documents nested too deep are refused, by a linear walk |
| `jwks_missing_kid`, `search_shared_key`, `hits_shared_key`, `index_moved_child` | as above | | the four violations of section 6 |

### Properties, and the bounds

**`breaker`.** `CountMatchesState`: the circuit is off `Closed` exactly on a count
at the threshold, whichever calls record late. `SlotsAccounted`: slots left +
probes in flight + probes dropped = the configured number. `ImplementsGate`: the
refinement. `RecoversUnlessExhausted`: if calls stop failing the circuit closes
for good, unless every probe of one half-open window was dropped; that exception
is real, as nothing gives a slot back. Three callers are the least for a probe, a
second probe or rejection, and a late call of the previous period at once. The
configurations cover threshold 0, 1, 2, no timeout, and 0, 1, 2 probes.

**`jwks`.** `StableKeyNeverRejected`: a token signed by a key that every published
set holds is accepted or gets an error, never a rejection, whatever overlapping
fetches left in the cache. `RefetchIsMonotonic`: the set that decides a
re-fetching request is no older than the one it found. `UsesBreaker`: the
composition's steps are steps of `CircuitBreaker`. `CacheConverges`. Two requests
are enough for an older fetch to be stored over a newer one; one rotation that
keeps a key and drops another separates every kind of token; TTL 2 allows a
fresh entry of two ages. The new key is one of the HMAC family and the stable one is
not, so that expiry is enforced by the family of the key. The tokens are: the new key's, the stable key's with and
without a kid, an expired one with the kid of an inconvertible key, and one of
the shared secret.

**`search`.** What a term query compares is a parameter: `Indexed` says of each
column which terms the index keeps of a value. A keyword keeps the value; a
dynamically mapped string keeps its words (README.md:394). `EsAgreesWithSql`: a
resolved filter leaves a search exactly the documents that its SQL clause holds for,
on the contents its rows came from, with the equalities of SQL read as term
queries; and those of the SQL clause itself where the index is `Exact` on the filter's
columns. A filter that added no clause leaves all documents. `AllFiltersApplied`: a
search that reaches its query has one clause per matching filter; a filter whose rows
give no term adds none (`GivesClause`), as line 194 of the code has it, so the property
says that this does not happen. `LiveEntryKept`: no live entry is replaced or
prolonged. `RevocationTakesEffect`: after the last change every search is decided by
present contents from some point on, searches repeating for ever. Two searches can
miss together; the filters have different sources and TTLs 2 and 1, so one entry
expires before the other; identities match none, one kind and all filters; the second
contents move one user and empty another's permissions. Regions are a text column and
hold "us" and "us-west": a term query for "us" finds both, one for "us-west" neither.
Teams are keywords. So both halves of the agreement are put to the test, and equality
with SQL, asked of the regions too, would fail.

**`hits`.** `HitsMeanTheRequest`: the hits are the page of the documents that the
filter, the words and the row filters mean, stated per operator and value without
any clause, although each part is compiled apart from the others and they meet
in one bool body. `EnrichedFromOneStatement`: an answered search shows, join by
join and level by level, either all rows the tables held at one moment after
the hits were found, under a parent with their key, or none because the
statement failed; never a document's own stale children. `StackOK`: as many
sources as hits at every moment, so that each keeps its score, and every call of
the recursion for the join its caller is at. `TypeOK`: an answer waits for all
joins of all hits. `EnrichesAPage`: the refinement of `EnrichSpec`, each call
with one of the pages in `Calls`. `EverySearchEnds`. The
requests vary one thing at a time around a plain search: every operator of every
column type with present, absent, empty, null and ill-typed operands, nested
filters of both levels, words with AND and OR, a raw query allowed and refused,
row filters of both kinds and the impossible one, limits missing, negative,
zero, in and above the range. The documents differ in what is missing (a list, a
number, a key), one has two features of different names, of which `eq`, `ne`, `all`
and the words find the second or both, one has a feature without a name before one
with it, and the second table contents move one child, add one and delete
one; three statements and one change are enough for a change between any two.
Values are texts of letters or numbers, so that lower case, wildcards and
comparison of a number with its text can go wrong.

**`index`.** `StaleOnlyWhilePending`: a material's document is current, or a
notification for it is in the channel, the queue or the consumer's hands, or it
was *forsaken* (lost with the listener, dropped by the lenient consumer, or
left by a row that moved). `EventuallyIndexed`. The run starts from every
database that the foreign keys allow over the rows; two writes suffice for one
to fall between any two of the consumer's reads and for a second to undo or
follow it, and a message to be redelivered behind a newer one.

**`relation`.** `ImplementsPerRow`: whatever is batched with whatever, each load
reads what one query of its own would at some moment between its call and its
answer. `EveryLoadEnds`. The loads are the same key for two tenants, and a third
that repeats the first, shares its group under another key, or has no filter
and wants a single row: those are the ways two keys can meet. All loads end, so
the run is without the deadlock check.

**`table`.** `StatementsWellFormed`: one WHERE before everything, parameters
numbered without gap. `AnswersMeanTheRequest`: a get or a page returns rows that
meet every argument and filter, and as many as fit. `PagesCoverTable`: a client
that pages to the end in the default order has every row once, although each
query orders ties anew. `OnlyMatchingRowsModified`: a row that disappears or
changes was the one named and allowed. `CreatedRowsHoldHeaders`: auto-set columns
come from the headers, never from the input. The key is composite, one filter
reads a permission table and one is a column, list arguments combine every kind
of `filter` and `where` with refused, clamped, missing limits and orders that
name nothing. Rows are independent of each other in every statement, so four
keys are enough for pages of one and two rows with ties.

**`depth`.** `DepthLimitExact`: of the documents that validation accepts, those and
only those whose fields nest deeper than the limit are refused, although
depths are remembered per fragment while they are still being computed.
`WalkIsLinear`: a fragment is walked at most once at the root and once below it,
in cyclic documents too. Two fragments spread each other at the root, under a
field and in an inline fragment; one spread is undefined. That is enough for a
fragment met first at the root and then below it, in either order, and for a
partial depth remembered inside a cycle. One call, return or turn of the loop is
one step: a document goes through `selection_depth` with the recursion on `stack`,
and the properties hold it against a definition of depth that knows neither the
memo table nor an order (`Nestings`). A request ends with its verdict, so the run is
without the deadlock check.

Every property is tied to a mutant of the code's definition in `PROJECT.json`
("mutants"): a dropped guard, a missing reset or a wrong number that makes the
run fail. The operators marked `Mutant:` in the modules are those forms; no
specification uses them.

## 4. Fairness

Safety is checked under `Spec` steps without any assumption. Liveness assumes:

| Module | Assumed | Why |
|---|---|---|
| `CircuitBreaker` | the clock runs; an admitted call ends *in some way*, success, failure or dropped; someone keeps calling | time; each request's future is polled or dropped; without a call nothing is ever decided (`Open` is left only in `is_request_allowed`) |
| `JwksProvider` | clock; start-up is retried until it succeeds; a request under way goes on or is dropped; each token keeps being presented | the process is restarted by its supervisor; as above |
| `SearchService` | clock; a search under way goes on, fails or is dropped | as above |
| `SearchHits` | what a search waits for (Elasticsearch, a statement) answers or fails, and the search goes on; nothing says it is dropped | each call returns or errs |
| `IndexPipeline` | the listener publishes, the consumer consumes, unless it restarts for ever | both are loops over their input |
| `RelationLoader` | the window's timer fires; a query answers or fails | the DataLoader spawns its timer; sqlx returns or errs |

No fairness says that anything succeeds. No HTTP client of the code sets a
timeout, so "ends" can mean that the caller gave up; a call that hangs for ever
with a patient caller is outside the liveness results (it is listed as a hazard
at `jwks.rs:48`).

## 5. Proofs

`CircuitBreakerProofs` proves, for any finite set of callers and any set of
configurations (the two assumptions of the module, both true of every deployment):

| Theorem | Statement |
|---|---|
| `TypeCorrect` | `Spec => []TypeOK` |
| `CountCorrect` | `Spec => []CountMatchesState` |
| `SlotsCorrect` | `Spec => []SlotsAccounted` |
| `Refinement` | `Spec => ImplementsGate` |

The inductive invariant is `IInv == TypeOK /\ CountMatchesState /\ SlotsAccounted`.
Neither safety invariant is inductive alone: `SlotsAccounted` needs from `TypeOK`
that probes are a set of calls in flight (so that a returning call is counted
once, and its size is a number) and that payloads are cleared outside their own
variant (so that a window starts from zero); `CountMatchesState` needs that the
count is a natural number. `InitEstablishes` and `StepPreserves` show the
induction, one step per action; `ProbeCounting` holds the facts about the size
of the probe set. For the refinement `InitRefines` and `StepRefines` map each
action to one of `ProbeGate` (for instance `StartHalfOpen` and `CloseDirectly`
both to `Retry`) under `IInv`, which rules out a negative cool-down.

`RelationLoaderProofs` proves, for any loads, rows, keys and tenants, any number
of batches under way and any number of writes (the assumptions only type the
constants, and say that `None` is no value):

| Theorem | Statement |
|---|---|
| `TypeCorrect` | `Spec => []TypeOK` |
| `Refinement` | `Spec => ImplementsPerRow` |

`TypeOK` is inductive because it says where loads are: in the window or in one
batch while they wait, never in two, and a batch owes an answer for exactly those
of its keys that it has not got. `ReadsFromBatch` turns that into what the
refinement mapping needs: the batch a load would choose is *its* batch.
`GroupAnswers` is the heart: since a group's keys agree on filter and shape, the
rows one query finds for all of them are, key by key, those of a query for that
key alone. `StepRefines` maps a group's query to one abstract `Read` of the loads
that it answers; a failed batch forgets what it had read (`Fail`).

`JwksProviderProofs` proves, for any finite set of requests, any tokens, any
sequence of published key sets, any TTL and any breaker configuration:

| Theorem | Statement |
|---|---|
| `ProviderUsesBreaker` | `Spec => UsesBreaker` |
| `TypeCorrect` | `Spec => []TypeOK` |
| `StableKeyCorrect` | `Spec => []StableKeyNeverRejected` |
| `RefetchCorrect` | `Spec => []RefetchIsMonotonic` |

That the provider uses its breaker needs no invariant: each action is an action
of the breaker or leaves it alone. With it the breaker's own invariant, proved in
`CircuitBreakerProofs`, is imported instead of proved again (`BreakerTyped`). The
rest is one induction over two facts. `Ordered`: a key set in hand was published
by now and is no older than the one the request found. `FreshIsFilled`: a cache
that counts as fresh was filled. Neither property is inductive alone: a
verdict is reached from a set stored by another request, so what is in the cache
has to be known too. Assumed are only the types of the constants, that something
is published, and that "no kid" is no key.

`SearchServiceProofs` proves, for any searches, row filters, identities, documents
and history of the permission tables:

| Theorem | Statement |
|---|---|
| `TypeCorrect` | `Spec => []TypeOK` |
| `FiltersCorrect` | `Spec => [](Consistent => AllFiltersApplied)` |
| `LiveEntryCorrect` | `Spec => LiveEntryKept` |
| `AgreementCorrect` | `Spec => [](Consistent => EsAgreesWithSql)` |

`Consistent` is the condition under which the clauses are right: filters on one source
and user column select the same `match_columns`, and every filter pairs its columns
with columns the source has. It is a condition on the configuration and the tables,
which nothing checks. Without its first half both statements are false: the run
`search_shared_key` shows a filter that resolves to rows without a term, adds no clause
and so leaves every document. `Accounted` says that the filters still to do and those
resolved are disjoint and make up the matching ones, and that only a resolved one has a
clause; `CacheJustified` and `RowsJustified` that what a cache entry or a search holds is
what the tables had for *that key*, which is where a shared key breaks it;
`ClausesJustified` that every resolved filter has a clause, with the documents of the SQL
clause read term by term. `CompilersAgree` is the heart: from the rows fetched for a
filter under the condition a clause is given, and it lets through what `TermClause`
does. For equality with the SQL clause (`ExactIsEquality`) the index has to be `Exact` on the
columns of that filter, whatever it is on others. Nothing in
the repository gives the index a mapping, so where a filtered column is a string whose
values are not single lower-case words, the theorem promises the term queries only
(section 7).

`IndexPipelineProofs` proves, for any materials, rows and number of writes:

| Theorem | Statement |
|---|---|
| `TypeCorrect` | `Spec => []TypeOK` (types and foreign keys) |
| `StaleCorrect` | `Spec => []StaleOnlyWhilePending` |

`StaleOnlyWhilePending` is far from inductive: what the consumer is about to write
was read in up to four statements. `ConsumerSound` strengthens it: everything the
consumer has read of its material is still what the database holds, or the
material has changed since and *another* message for it waits (or was
forsaken). `Written` states what all six writes have in common, and
`WriteMaterial`, `WriteRow` show it of each: every material but those the trigger
names, or that a moved row left, is the `Same`, down to the attributes of its
features. `MaterialExists` is where the foreign keys are needed: a trigger that
joins up to the material always finds one. `WritePreserves` and
`DeliveryPreserves` are the two halves of the induction.

`TableResolversProofs` proves, for any columns, key, row filters, permission tables,
identities, arguments and inputs:

| Theorem | Statement |
|---|---|
| `TypeCorrect` | `Spec => []TypeOK` (types and unique keys) |
| `StatementsCorrect` | `Spec => []StatementsWellFormed` |
| `AnswersCorrect` | `Spec => []AnswersMeanTheRequest` |
| `OnlyMatchingCorrect` | `Spec => OnlyMatchingRowsModified` |
| `CreatedCorrect` | `Spec => []CreatedRowsHoldHeaders` |
| `PagesCorrect` | `Spec => []PagesCoverTable` |

All but the last rest on one theorem about the compiling loop, `LoopKeeps`: whatever statement
the compiling loop starts from and whatever number it counts from, what it adds is
connected and numbered without gap, and holds for a row exactly if each test that
is not left out does, given parameters that are bound where the numbers say
(`Adds` is that loop invariant). `KeyStatement` and `ListStatement` put the parts
together: the SET parameters of an update before those of the key, `filter` before
`where`, both before the row filters. The state invariant (`IInv`) adds to the
properties that a table is finite and that a client who pages has no more rows
than there are (`ListOpen`), without which a page could be asked for beyond the
end. For the last theorem it also says (`ListContinues`) what a client has been
handed so far: no row twice, and a set of rows of which every other wanted row
comes after, by the key (`ComesFirst`). That set does not depend on how the
database ordered what came before. `PrefixesAgree` shows that two such sets of
the same size are equal, since the key orders the rows totally (`KeyOrderIsTotal`),
and `PageContinues` that a page taken at the offset equal to that size goes on
where the client is, whatever order this statement chose; an empty page then means
that nothing is left. Assumed (named in `TableResolvers`) are the types of the constants, and two
facts about what reaches the code. Each operator of `where` has a value, except that the
list of `in` may be empty: the choice between WHERE and AND looks at the
parameters, so an operator that bound none would break it. And the columns that
headers set are outside the key and each set by one filter, which the
configuration files follow and `config.rs` does not check.

`SearchHitsProofs` proves, for any configuration of joins nested to any depth,
any requests and documents, any calls and any history of the tables:

| Theorem | Statement |
|---|---|
| `StackCorrect` | `EnrichSpec => []StackOK` |
| `EnrichedCorrect` | `EnrichSpec => []EnrichedFromOneStatement` |
| `Enriches` | `Spec => EnrichesAPage` (the refinement of `EnrichSpec`) |
| `SearchTypeCorrect` | `Spec => []TypeOK` |
| `SearchEnriched` | `Spec => [](StackOK /\ EnrichedFromOneStatement)` |
| `HitsCorrect` | `Spec => []HitsMeanTheRequest` |

The first two are about any page of sources, the last four about a search.

`EnrichedFromOneStatement` speaks of the end only. Its strengthening `EnrichInv`
says of every call of the recursion under way that the joins it has passed are
`Done` (what they show is right, at every level) and that its own sources are,
but for the joins inserted since, the rows one version has for the keys of its
caller's sources (`AreRows`). `AttachFacts` is what one turn of the loop does: the
join gets exactly the children that were fetched, although their groups are taken
out of the map one by one, and the other joins, the keys and the rows stay; so
`AttachFills` can take `AreRows` of the callee into `Done` of the caller when a
call returns. Levels are not counted in this: sources and joins are `Shown` if a
set of such pairs contains them and is closed under going one level down
(`IsClosed`), which is put together where a call returns (`ShownIfDone`);
`EnrichedIfShown` finally shows that all pairs in the property's own `Levels` are in
that set. `RightStays` is why a write, or the failure of another statement, does no
harm: what one version showed, it still showed. Assumed (named in
`HitEnrichment`): the types of the constants, that a table is finite and its rows
are JSON objects, and that an `index_field` names nothing else among the fields it
meets (another join of its list, a key, a column of the rows). `config.yaml` (333-347)
follows that and nothing checks it; without it one join would overwrite another.

The invariant of the search is `AskedInv`: past its refusals a request is one that
may be asked, and what was found is what Elasticsearch answers to its body
(`Hits`). For `Enriches` it remains to show that these hits are a page: their
places are numbers of documents ahead, and every place up to the number of matching
documents is taken, by one of them (`EveryPlaceTaken`, from which `PageFacts` and
`HitsFacts` have the length of the page and who is on it). With the refinement,
`SearchEnriched` follows from the first two theorems, and `SearchTypeCorrect` from
`EnrichStays`: while the call is under way nothing else touches its stack.

`HitsCorrect` is about the compilation. `PageMeans` reduces it to single documents:
a document has to match the body exactly if it is wanted, with the relevance as
its score (`BodyMeans`). `BodyMeansRequest` shows that of each accepted request:

- *Words.* The paths `collect_searchable_fields` lists are the fields that the
  index, its joins and theirs have (`WordFields`), and a path leads to what the parts
  of a document hold (`PartIsAtPath`), so the words found are the words said
  (`WordsMean`). `WordsCounted` turns counts into `and` and `or`.
- *Operators.* The values of a field are a set, of which one has to do. `LeafFacts` says
  what each clause asks of them, `KeywordFacts` that the `keyword` appended to a path does
  not change a value, `StarFacts` that a
  pattern with one star in front is a test for a suffix. `OperatorsMean` puts together
  that the clauses of one field ask what its operators mean, whatever operands the
  input type takes, those that give no clause included.
- *Filter.* The compiler goes down wherever it meets an object without an
  operator's name; the meaning goes down the joins of the configuration. `FieldsAreParts`
  and `PartsAreFields` show, for filters that the input types accept, that both come
  by the same fields, level by level, and `WaysAgree` that one path means the same
  join in a filter and in a document. `FilterCompiles` concludes.

Assumed besides (named in `SearchHits`, evaluated by the run):

| Assumption | Why the code justifies it |
|---|---|
| `SearchTyped` | types; no two documents are equal, since each has the key of its row |
| `PagesCalled` | the calls considered include every page of documents with the joins of its index |
| `FieldsNamed` | searchable fields and joins of one configuration have different names (an input type has no two fields of one name); none has the name of an operator or `keyword`. Nothing checks the second half: a joined table with a searchable column `in` would have its filters taken for operators |
| `FieldsPlain` | searchable fields are columns that hold no objects; they may hold lists |
| `TextsHaveNoStar` | operands of `ends_with` hold no `*`, which the compiler does not escape (section 7) |

`QueryGuardsProofs` proves, for any documents, with any number of operations,
fragments and levels, and any limit:

| Theorem | Statement |
|---|---|
| `LinearCorrect` | `Spec => []WalkIsLinear` |
| `DepthCorrect` | `Spec => []DepthLimitExact` |

Both rest on `IInv`. `WalkInv` says of the calls under way that each is made for the
item at which its caller stands, and of every depth in a call or in the memo table
that some way down the document has it (`Reached`). `LinearInv` counts: the
fragments walked are those remembered and those under way (`Begun`), each at most
once per exemption, so there are no more than twice the fragments; this holds with
cycles too, where the walk keeps partial depths. `CoverInv` is the other half of
`DepthLimitExact` and needs a document without cycles: the depth found so far in a
call covers every way down from the items it has passed, and a remembered depth
every way down from its fragment (`Bounded`). There no spread is ever met while its
fragment is under way (`NoCycleMet`), because the ranks of the fragments fall along
the stack; a spread that is passed with depth 0 would break the invariant.
`Reached` and `Bounded` are stated by closed sets of places and depths, so that a step
puts them together without recursion. What connects them with the property's own
recursive definition are `BoundedMeans` and `ReachedMeans`: no number in `Nestings`
exceeds a bound, and every depth some way has is among them. The second needs that
the ways in a document without cycles are no longer than `LongestWay`: each place has
a height that falls with every step down (`HeightFalls`), so the last step finds nothing
new (`Settled`). Assumed are a natural limit and the shape of a parsed document. TLC
cannot evaluate `Reached` and `Bounded`, which speak of all sets; it checks what they
imply, the two properties.

Some facts take induction over data. The first of a set of filter positions
(`SearchServiceProofs`), the result of the loop (`LoopKeeps`), the children in a
group (`GroupFacts`), the levels of joins (`EnrichedIfShown`), of a filter and of a
path (`EveryLevel`, `PartsFacts`, `FilterFacts`, `WalkFacts`) and the ways down a
document (`BoundedMeans`, `Settled`): the least number for which they would not
exist, or not be right, is shown not to be. All use that `<` is well founded on `Nat`, which can be cited
without an operator parameter.

Model-checked only are the liveness properties (`RecoversUnlessExhausted`,
`CacheConverges`, `RevocationTakesEffect`, `EventuallyIndexed`, `EveryLoadEnds`,
`EverySearchEnds`): liveness under fairness and `ENABLED` are out of the prover's
reach. Every invariant and every action property that a passing run checks is
proved, `AllFiltersApplied` and `EsAgreesWithSql` under the condition named above.

## 6. What the runs found

Each is a run that TLC finds violated, with the sentence of the repository it
contradicts in `PROJECT.json` ("findings").

- `search_shared_key` (code): the permission cache's key leaves out
  `match_columns`. Two subquery filters on one table and user column read each
  other's rows; the second finds none of its columns in them and adds no clause: the
  search runs without that filter.
- `index_moved_child` (code): updating the foreign key of a child row re-indexes
  the material it went to, not the one it left.
- `jwks_missing_kid` (documentation): a kid missing from a fresh cache is said to
  cause a re-fetch. It does not while any key of the set is convertible.
- `hits_shared_key` (code): `es_batch_enrich` takes the rows of a key out of its map
  when the first hit with that key gets them. A second hit with the same value in
  its local field, as in a many-to-one join, is shown without any.

## 7. Limits of the models

- *External*: PostgreSQL (one statement is atomic, ties are ordered anew by each
  query, NULL equals nothing), Elasticsearch (answers a query as its clauses say, or
  fails), the DataLoader's window, the listener and the consumer (a published
  image, modelled from how `docker-compose.yml` and `pgx/config.toml` run it), RabbitMQ
  (keeps what was published until it is acknowledged; a queue that itself loses
  messages is not modelled, `index` loses them before and after it). The map marks
  them external where no code of the repository defines them.
- *Transactions.* A statement of the index pipeline, its triggers and its commit are one
  step. Under READ COMMITTED the look-up of `db/triggers.sql` 52-54 does not see a move
  of a feature that another session has not committed, and may notify the material the
  feature is leaving. That race is not in the model (noted at its hazard).
- *Text comparison.* `HitEnrichment` compares the key of a row with the keys asked for
  as `::text = ANY` does by the value they stand for: a number and its text are one key.
  Other texts PostgreSQL may give a value (a padded or formatted one) are not modelled.
- *Not in the modules*: token decoding and the mapping of claims to headers (pure);
  LIKE patterns, casts and the GraphQL input types of the table resolvers (four
  operators stand for the ten); multi-statement transactions (the server runs
  none); composite relation keys (one value here).
- *Term queries of row filters.* `SearchService` leaves the mapping open (`Indexed`). The
  index of the repository is created without one, so strings become texts of which the
  words are kept, and README.md:394 asks for header values of one word or for keywords.
  Keywords are `Exact`, and the agreement with SQL follows. One-word header values are
  not enough: a document of "us-west" is also found by "us", where the SQL clause would
  not let it through (listed as a hazard). `SearchHits` takes the row filters as clauses
  and gives them the same meaning on both sides, that of a keyword.
- *Search queries*. What a clause asks of one value is taken from the in-memory adapter
  of `es_client.rs`; in particular `match_phrase` looks for a part of the text, where
  Elasticsearch compares words. Which values a path leads to is not: the adapter
  stops at the first item of a list that has the next field (306), while the suite that
  runs against Elasticsearch expects any item to count (`tests/search.hurl` 114-122 and
  147-171), and so does the model. The adapter's rule is the mutant `BelowFirstItem`: the
  run fails with it. Items of a list are not kept apart, as Elasticsearch does not
  without nested types: two conditions may be met by two children. Lists directly
  inside lists, and bool clauses nested deeper than the compiled ones, are not modelled.
  Texts are sequences of letters, so a `*` in an operand (`ends_with` and its kin do not
  escape it) is not among them, nor are fractional keys. A range bound that is no JSON
  number, as a `BigInt` in text form, yields no clause, and neither does a boolean in a
  list of a `BigInt`; the reference meaning in `SearchHits` says so too. Generated filter
  types are named per index field; two indexes that collide there are not modelled.
- `local_fields` and `foreign_fields` of a join (README.md:216) are accepted by the
  configuration but not read by `es_batch_enrich`, so there is no behaviour of theirs to
  model. Nothing removes an expired entry from the permission cache (`row_filter.rs` 47);
  the model's set of keys is fixed.
- *Not modelled*: the frontend's list page, dialogs and locale. They
  have real hazards (listed, at `page.tsx` 122 and 136, `locale-provider.tsx` 53,
  `confirm-dialog.tsx` 92), but when an effect runs is decided by React's
  scheduler, which the repository does not determine: a model would consist mostly
  of that. The entry points (`main.rs`, `mcp.rs`, the proxy) are sequences of early
  returns around the authenticator, whose calls are the requests of `JwksProvider`;
  their one piece of state, the introspected schema, is written once. Schema
  assembly, the document contract, rendering, deployment and the benchmark keep no
  state between events.
- A deployment with several server processes has one breaker and one cache per
  process and shares nothing, so one process is modelled.

## 8. Plan

Done, in this order: the breaker (first, since two clients rest on it), token
validation, search and row filters, the index pipeline, the relation loader, the
table resolvers, the depth limit, the compilation of search filters and the
enrichment of hits; the two abstract specifications and their refinements; the
proofs about each of these components.

Open:

1. The composition of `SearchService` with `CircuitBreaker`, as `JwksProvider` has
   it: the Elasticsearch client is its second user. Every outcome the breaker can
   produce is one of `SearchHits` today (`EsFails`).
2. The list page of the frontend, with the scheduler of its effects as an explicit,
   external part.
