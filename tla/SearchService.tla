--------------------------- MODULE SearchService ---------------------------
(***************************************************************************)
(* A search{Index} query (src/schema/search/mod.rs, row_filter.rs): the    *)
(* row filters are resolved to Elasticsearch clauses through the shared    *)
(* PermissionCache, then the index is queried.                             *)
(*                                                                         *)
(* The cache is a map behind a mutex that is held for one get or one       *)
(* get-and-set at a time, never across the database round trip, so         *)
(* searches that miss together fetch together.  An entry is kept here with *)
(* the ticks it has left: get() treats an expired entry as a missing one.  *)
(* The permission tables change underneath; Tables numbers their states.   *)
(***************************************************************************)
EXTENDS RowFilter

CONSTANTS
    Searches,    \* tasks that run a search, one at a time each
    Filters,     \* the row_filters of the index' table, in order
    Identities,  \* identities requests carry: header -> value
    Docs,        \* the documents of the index
    Indexed,     \* its mapping: column -> value -> the terms kept of the value
    Tables       \* successive contents of the permission tables

ASSUME SomeTables == Len(Tables) \in Nat \ {0}
ASSUME SomeIdentity == Identities # {}
ASSUME FiltersTyped ==
    /\ Filters \in Seq(Range(Filters))
    /\ \A f \in Range(Filters) :
          f.kind \in {"column", "subquery"} /\ (f.kind = "subquery" => f.cache_ttl \in Nat)

VARIABLES
    version,  \* number of the present contents of the permission tables
    cache,    \* PermissionCache.store
    search    \* what each search is doing

vars == <<version, cache, search>>

Versions == 1..Len(Tables)

\* The positions in row_filters of the filters that apply to an identity.
Matching(id) == {i \in DOMAIN Filters : Matches(Filters[i], id)}

MatchingOf(kind, id) == {i \in Matching(id) : Filters[i].kind = kind}

SubqueryFilters == {f \in Range(Filters) : f.kind = "subquery"}

\* Mutant: the key does not name the source.
CacheKeyWithoutSource(f, value) == <<f.user_column, value>>

\* cache_key: the source, the user column and the identity value.
CacheKey(f, value) == <<f.from_source, f.user_column, value>>

CacheKeys ==
    {CacheKey(p[1], p[2][p[1].from_header]) :
        p \in {q \in SubqueryFilters \X Identities : Matches(q[1], q[2])}}

\* A term query compares its value as it is with the terms the index keeps of
\* the column: the value itself of a keyword, the words of a text.
TermMatches(d, column, value) == value \in Indexed[column][d[column]]

\* apply_es: nothing matches on no rows, and only rows that give a term count.
EsClause(d, f, rows) ==
    \E row \in rows :
        /\ Terms(f, row) # {}
        /\ \A i \in Terms(f, row) : TermMatches(d, f.columns[i], row[f.match_columns[i]])

\* No rows give an impossible clause; rows none of which gives a term, no
\* clause at all.
GivesClause(f, rows) == rows = {} \/ \E row \in rows : Terms(f, row) # {}

\* A missing entry, and an expired one.
NoEntry == [rows |-> {}, version |-> 1, left |-> 0]

Live(key) == cache[key].left > 0

\* A search that is over, and one that never ran.
Ended(pc) == [pc |-> pc, id |-> CHOOSE id \in Identities : TRUE,
              todo |-> {}, clauses |-> {}, resolved |-> {}, rows |-> {}, version |-> 1]

Idle == Ended("idle")

Init ==
    /\ version = 1
    /\ cache = [key \in CacheKeys |-> NoEntry]
    /\ search = [s \in Searches |-> Idle]

Finished == {"idle", "hits", "error"}

\* The first filter that is not resolved yet.
At(s) == CHOOSE i \in search[s].todo : \A j \in search[s].todo : i <= j
Current(s) == Filters[At(s)]
Value(s) == search[s].id[Current(s).from_header]
Key(s) == CacheKey(Current(s), Value(s))

\* Mutant: a filter that found no rows adds no clause.
ResolveSkippingEmpty(s, rows, v) ==
    LET clause == [at |-> At(s), docs |-> {d \in Docs : EsClause(d, Current(s), rows)}]
        rest == search[s].todo \ {At(s)}
    IN  search' = [search EXCEPT ![s] =
            [pc |-> IF rest = {} THEN "query" ELSE "filter", id |-> search[s].id, todo |-> rest,
             clauses |-> search[s].clauses \cup (IF rows = {} THEN {} ELSE {clause}),
             resolved |-> search[s].resolved \cup {[at |-> At(s), version |-> v]},
             rows |-> {}, version |-> 1]]

\* The filter the search is at is decided: the clause it adds, if any, and
\* (history) from which contents of the tables.
Resolve(s, rows, v) ==
    LET clause == [at |-> At(s), docs |-> {d \in Docs : EsClause(d, Current(s), rows)}]
        rest == search[s].todo \ {At(s)}
    IN  search' = [search EXCEPT ![s] =
            [pc |-> IF rest = {} THEN "query" ELSE "filter", id |-> search[s].id, todo |-> rest,
             clauses |-> search[s].clauses \cup
                           (IF GivesClause(Current(s), rows) THEN {clause} ELSE {}),
             resolved |-> search[s].resolved \cup {[at |-> At(s), version |-> v]},
             rows |-> {}, version |-> 1]]
-----------------------------------------------------------------------------
\* The filters that apply; a column filter is a term clause at once.
Start(s, id) ==
    /\ search[s].pc \in Finished
    /\ LET columns == MatchingOf("column", id)
           subqueries == MatchingOf("subquery", id)
       IN  search' = [search EXCEPT ![s] =
             [pc |-> IF subqueries = {} THEN "query" ELSE "filter", id |-> id,
              todo |-> subqueries, rows |-> {}, version |-> 1,
              clauses |-> {[at |-> i,
                            docs |-> {d \in Docs : TermMatches(d, Filters[i].column,
                                                       id[Filters[i].from_header])}] :
                              i \in columns},
              resolved |-> {[at |-> i, version |-> 1] : i \in columns}]]
    /\ UNCHANGED <<version, cache>>

\* Mutant: a hit prolongs the entry to its full time to live.
ReadCacheSliding(s) ==
    /\ search[s].pc = "filter"
    /\ IF Live(Key(s))
       THEN /\ Resolve(s, cache[Key(s)].rows, cache[Key(s)].version)
            /\ cache' = [cache EXCEPT ![Key(s)].left = Current(s).cache_ttl]
       ELSE /\ search' = [search EXCEPT ![s].pc = "fetch"]
            /\ UNCHANGED cache
    /\ UNCHANGED version

\* permission_cache.lock().await.get(&cache_key).
ReadCache(s) ==
    /\ search[s].pc = "filter"
    /\ IF Live(Key(s))
       THEN Resolve(s, cache[Key(s)].rows, cache[Key(s)].version)
       ELSE search' = [search EXCEPT ![s].pc = "fetch"]
    /\ UNCHANGED <<version, cache>>

\* The database answers the fetch with the rows it holds at that moment.
DbAnswers(s) ==
    /\ search[s].pc = "fetch"
    /\ search' = [search EXCEPT ![s] =
            [pc |-> "insert", id |-> search[s].id, todo |-> search[s].todo,
             clauses |-> search[s].clauses, resolved |-> search[s].resolved,
             rows |-> FetchRows(Tables[version], Current(s), Value(s)), version |-> version]]
    /\ UNCHANGED <<version, cache>>

\* Mutant: the remaining filters are given up, the search is not.
DbFailsOnlyFilter(s) ==
    /\ search[s].pc = "fetch"
    /\ search' = [search EXCEPT ![s].pc = "query"]
    /\ UNCHANGED <<version, cache>>

\* `?` on the fetch: the whole search fails.
DbFails(s) ==
    /\ search[s].pc = "fetch"
    /\ search' = [search EXCEPT ![s] = Ended("error")]
    /\ UNCHANGED <<version, cache>>

\* Mutant: the insert does not look again.
InsertUnchecked(s) ==
    /\ search[s].pc = "insert"
    /\ cache' = [cache EXCEPT ![Key(s)] =
            [rows |-> search[s].rows, version |-> search[s].version,
             left |-> Current(s).cache_ttl]]
    /\ Resolve(s, search[s].rows, search[s].version)
    /\ UNCHANGED version

\* The double-checked insert; the search uses its own rows in any case.
Insert(s) ==
    /\ search[s].pc = "insert"
    /\ IF Live(Key(s))
       THEN UNCHANGED cache
       ELSE cache' = [cache EXCEPT ![Key(s)] =
                [rows |-> search[s].rows, version |-> search[s].version,
                 left |-> Current(s).cache_ttl]]
    /\ Resolve(s, search[s].rows, search[s].version)
    /\ UNCHANGED version

\* es.search(): the hits are what every clause lets through, or the request
\* fails, is refused by the breaker or its answer does not parse.
Query(s) ==
    /\ search[s].pc = "query"
    /\ \E outcome \in {"hits", "error"} :
          search' = [search EXCEPT ![s] = Ended(outcome)]
    /\ UNCHANGED <<version, cache>>

\* The request is dropped at one of its awaits.
Drop(s) ==
    /\ search[s].pc \notin Finished
    /\ search' = [search EXCEPT ![s] = Idle]
    /\ UNCHANGED <<version, cache>>

\* A permission is granted or revoked.
Grant ==
    /\ version < Len(Tables)
    /\ version' = version + 1
    /\ UNCHANGED <<cache, search>>

\* Time passes: entries get older, and expire.
Tick ==
    /\ \E key \in CacheKeys : Live(key)
    /\ cache' = [key \in CacheKeys |->
            IF cache[key].left > 1 THEN [cache[key] EXCEPT !.left = @ - 1] ELSE NoEntry]
    /\ UNCHANGED <<version, search>>

Progress(s) ==
    ReadCache(s) \/ DbAnswers(s) \/ DbFails(s) \/ Insert(s) \/ Query(s) \/ Drop(s)

Next ==
    \/ Tick
    \/ Grant
    \/ \E s \in Searches : Progress(s) \/ \E id \in Identities : Start(s, id)

Spec == Init /\ [][Next]_vars

\* Time passes and a search under way ends, in an error if nothing else.
Fairness == WF_vars(Tick) /\ \A s \in Searches : WF_vars(Progress(s))

FairSpec == Spec /\ Fairness
-----------------------------------------------------------------------------
(* Properties.                                                             *)

TypeOK ==
    /\ version \in Versions
    /\ \A key \in CacheKeys :
          /\ cache[key].version \in Versions
          /\ cache[key].left \in Nat
    /\ \A s \in Searches :
          /\ search[s].pc \in Finished \cup {"filter", "fetch", "insert", "query"}
          /\ search[s].id \in Identities
          /\ search[s].version \in Versions
          /\ search[s].pc \in {"filter", "fetch", "insert"} <=> search[s].todo # {}

\* What the clauses of filter i leave of the documents: all, if it has none.
LetsThrough(s, i) == {d \in Docs : \A c \in search[s].clauses : c.at = i => d \in c.docs}

\* The SQL clause of a filter, its equalities read as term queries.
TermClause(d, f, value, tables) ==
    CASE f.kind = "column" -> TermMatches(d, f.column, value)
      [] f.kind = "subquery" ->
            \E row \in RowsOf(tables, f, value) :
                \A i \in DOMAIN f.columns :
                    TermMatches(d, f.columns[i], row[f.match_columns[i]])

Columns(f) == IF f.kind = "column" THEN {f.column} ELSE Range(f.columns)

\* The index keeps every value of the filter's columns as one term, itself: a
\* keyword, or a text of one word in small letters.  That is asked of what the
\* documents hold; README.md:394 asks it of header values, but a document of
\* "us-west" is found by the one word "us" too.
Exact(f) == \A column \in Columns(f) : \A d \in Docs : Indexed[column][d[column]] = {d[column]}

\* "Both compilers below consume this -- one interpretation, two outputs"
\* (57-58): a resolved filter leaves a search the documents that its SQL clause
\* holds for, on the contents of the permission tables it was resolved from,
\* whichever search filled the cache: with the equalities of SQL read as term
\* queries, and as they stand if the index is Exact on the filter's columns.
EsAgreesWithSql ==
    \A s \in Searches : \A r \in search[s].resolved :
        LET f == Filters[r.at]
            value == search[s].id[f.from_header]
        IN  /\ LetsThrough(s, r.at) = {d \in Docs : TermClause(d, f, value, Tables[r.version])}
            /\ Exact(f) => LetsThrough(s, r.at) =
                              {d \in Docs : SqlClause(d, f, value, Tables[r.version])}

\* What the agreement takes for granted of the row filters: each pairs its
\* columns with columns the source has, and two filters on the same source
\* and user column select the same ones, since their cache entries are shared.
Consistent ==
    /\ \A f \in SubqueryFilters :
          /\ DOMAIN f.columns = DOMAIN f.match_columns /\ DOMAIN f.columns # {}
          /\ \A v \in Versions : \A row \in Tables[v][f.from_source] :
                Range(f.match_columns) \subseteq DOMAIN row
    /\ \A f, g \in SubqueryFilters :
          f.from_source = g.from_source /\ f.user_column = g.user_column
            => f.match_columns = g.match_columns

\* A search that reaches Elasticsearch carries one clause per filter that
\* applies to its identity, also when some were resolved from the cache and
\* others not: none is lost or doubled on the way, and the rows of a filter,
\* whichever search fetched them, always give a term or are none at all.
AllFiltersApplied ==
    \A s \in Searches :
        search[s].pc = "query" =>
            /\ {c.at : c \in search[s].clauses} = Matching(search[s].id)
            /\ \A c, d \in search[s].clauses : c.at = d.at => c = d

\* A live entry is neither replaced nor prolonged: of searches that missed
\* together the first to insert wins, so a result is served for at most its
\* time to live (the double check at 162-167).
LiveEntryKept ==
    [][\A key \in CacheKeys :
          Live(key) => \/ cache'[key] = cache[key]
                       \/ cache'[key].left < cache[key].left]_vars

\* After the last change to the permission tables every search is decided,
\* from some point on, by their present contents, however often it is
\* repeated: a fetch that was under way at the change may still store the old
\* rows, but only for one time to live, which no hit prolongs (get 36-44).
RevocationTakesEffect ==
    <>[](\A s \in Searches : \A r \in search[s].resolved :
            Filters[r.at].kind = "subquery" => r.version = version)
=============================================================================
