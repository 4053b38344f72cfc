------------------------ MODULE SearchServiceProofs ------------------------
(***************************************************************************)
(* Proofs about SearchService for any number of searches, any row filters, *)
(* identities and documents and any history of the permission tables.      *)
(*                                                                         *)
(* Typed and Accounted are inductive together.  That every filter adds its *)
(* clause and that the clause agrees with SQL is proved for row filters    *)
(* that are Consistent: without it the shared cache key makes both false,  *)
(* as the run search_shared_key shows.                                     *)
(***************************************************************************)
EXTENDS SearchService, WellFoundedInduction, TLAPS

\* A set of positions that is not empty has a first one.
LEMMA FirstPosition ==
    ASSUME NEW T \in SUBSET DOMAIN Filters, T # {}
    PROVE  /\ (CHOOSE i \in T : \A j \in T : i <= j) \in T
           /\ \A j \in T : (CHOOSE i \in T : \A k \in T : i <= k) <= j
<1>1. T \subseteq Nat
  BY FiltersTyped
<1>2. PICK i \in T : \A j \in T : ~(<<j, i>> \in OpToRel(<, Nat))
  BY <1>1, NatLessThanWellFounded, WFMin
<1>3. ASSUME NEW j \in T, j < i PROVE FALSE
  <2>1. <<j, i>> \in OpToRel(<, Nat)
    <3>1. <<j, i>> \in Nat \X Nat /\ <<j, i>>[1] < <<j, i>>[2]
      BY <1>1, <1>3
    <3> QED
      BY <3>1, Zenon DEF OpToRel
  <2> QED
    BY <1>2, <2>1, Zenon
<1>4. \A j \in T : i <= j
  BY <1>1, <1>3
<1> QED
  BY <1>4

-----------------------------------------------------------------------------
(* Types, and the filters a search accounts for.                           *)

SearchTyped(s) ==
    /\ search[s] = [pc |-> search[s].pc, id |-> search[s].id, todo |-> search[s].todo,
                    clauses |-> search[s].clauses, resolved |-> search[s].resolved,
                    rows |-> search[s].rows, version |-> search[s].version]
    /\ search[s].pc \in Finished \cup {"filter", "fetch", "insert", "query"}
    /\ search[s].id \in Identities
    /\ search[s].version \in Versions
    /\ search[s].todo \subseteq MatchingOf("subquery", search[s].id)
    /\ search[s].pc \in {"filter", "fetch", "insert"} <=> search[s].todo # {}
    /\ \A r \in search[s].resolved : r.version \in Versions

Typed ==
    /\ version \in Versions
    /\ cache = [key \in CacheKeys |-> cache[key]]
    /\ \A key \in CacheKeys : cache[key].version \in Versions /\ cache[key].left \in Nat
    /\ search = [s \in Searches |-> search[s]]
    /\ \A s \in Searches : SearchTyped(s)

\* Every filter that applies to a search under way is either resolved or still
\* to be, and only a resolved one has a clause, at most one; a search that is
\* over has none.
Accounted(s) ==
    LET done == {r.at : r \in search[s].resolved} IN
    /\ search[s].pc \in Finished => search[s].clauses = {} /\ search[s].resolved = {}
    /\ search[s].pc \notin Finished => done \cup search[s].todo = Matching(search[s].id)
    /\ done \cap search[s].todo = {}
    /\ \A c \in search[s].clauses : c.at \in done
    /\ \A c, d \in search[s].clauses : c.at = d.at => c = d

IInv == Typed /\ \A s \in Searches : Accounted(s)

\* What the steps that change one search leave behind.
LEMMA OneSearch ==
    ASSUME IInv, NEW s \in Searches, NEW after, search' = [search EXCEPT ![s] = after]
    PROVE  /\ search' = [t \in Searches |-> search'[t]]
           /\ search'[s] = after
           /\ \A t \in Searches \ {s} :
                 search'[t] = search[t] /\ SearchTyped(t)' /\ Accounted(t)'
<1>1. search' = [t \in Searches |-> IF t = s THEN after ELSE search[t]]
  BY DEF IInv, Typed
<1>2. search'[s] = after /\ \A t \in Searches \ {s} : search'[t] = search[t]
  BY <1>1
<1>3. ASSUME NEW t \in Searches \ {s} PROVE SearchTyped(t)' /\ Accounted(t)'
  BY <1>2, <1>3 DEF IInv, Typed, SearchTyped, Accounted
<1> QED
  BY <1>1, <1>2, <1>3

\* The filter a search is at is a subquery filter that applies to it, and its
\* key is a key of the cache.
LEMMA AtFilter ==
    ASSUME IInv, NEW s \in Searches, search[s].pc \in {"filter", "fetch", "insert"}
    PROVE  /\ At(s) \in search[s].todo
           /\ Current(s) \in SubqueryFilters
           /\ Matches(Current(s), search[s].id)
           /\ Current(s).cache_ttl \in Nat
           /\ Key(s) \in CacheKeys
<1>1. /\ search[s].todo # {}
      /\ search[s].todo \subseteq MatchingOf("subquery", search[s].id)
      /\ search[s].id \in Identities
  BY DEF IInv, Typed, SearchTyped
<1>2. At(s) \in search[s].todo
  BY <1>1, FirstPosition DEF At, MatchingOf, Matching
<1>3. /\ Current(s) \in SubqueryFilters
      /\ Matches(Current(s), search[s].id)
  BY <1>1, <1>2 DEF Current, SubqueryFilters, MatchingOf, Matching, Range
<1>4. Current(s).cache_ttl \in Nat
  BY <1>3, FiltersTyped DEF SubqueryFilters
<1>5. Key(s) \in CacheKeys
  <2> DEFINE p == <<Current(s), search[s].id>>
  <2>1. p \in SubqueryFilters \X Identities /\ Matches(p[1], p[2])
    BY <1>1, <1>3
  <2>2. Key(s) = CacheKey(p[1], p[2][p[1].from_header])
    BY DEF Key, Value
  <2> QED
    BY <2>1, <2>2 DEF CacheKeys
<1> QED
  BY <1>2, <1>3, <1>4, <1>5

\* Resolving the filter a search is at keeps its account.
LEMMA ResolvePreserves ==
    ASSUME IInv, NEW s \in Searches, search[s].pc \in {"filter", "insert"},
           NEW rows, NEW v \in Versions, Resolve(s, rows, v)
    PROVE  /\ search' = [t \in Searches |-> search'[t]]
           /\ \A t \in Searches : SearchTyped(t)' /\ Accounted(t)'
<1> DEFINE clause == [at |-> At(s), docs |-> {d \in Docs : EsClause(d, Current(s), rows)}]
           added == IF GivesClause(Current(s), rows) THEN {clause} ELSE {}
           entry == [at |-> At(s), version |-> v]
           rest == search[s].todo \ {At(s)}
           pc == IF rest = {} THEN "query" ELSE "filter"
           after == [pc |-> pc, id |-> search[s].id, todo |-> rest,
                     clauses |-> search[s].clauses \cup added,
                     resolved |-> search[s].resolved \cup {entry},
                     rows |-> {}, version |-> 1]
<1>1. search' = [search EXCEPT ![s] = after]
  BY Zenon DEF Resolve
<1>2. /\ entry.at = At(s) /\ entry.version = v
      /\ \A c \in added : c.at = At(s)
      /\ \A c, d \in added : c = d
  OBVIOUS
<1> HIDE DEF entry, added
<1>3. search'[s] = after
  BY <1>1, OneSearch
<1>4. At(s) \in search[s].todo
  BY AtFilter
<1>5. SearchTyped(s)'
  BY <1>2, <1>3, SomeTables DEF IInv, Typed, SearchTyped, Versions, MatchingOf, Matching, Finished
<1>6. Accounted(s)'
  <2> DEFINE done == {r.at : r \in search[s].resolved}
  <2>1. {r.at : r \in search'[s].resolved} = done \cup {At(s)}
    BY <1>2, <1>3
  <2>2. /\ done \cap search[s].todo = {}
        /\ \A c \in search[s].clauses : c.at \in done
        /\ \A c, d \in search[s].clauses : c.at = d.at => c = d
        /\ done \cup search[s].todo = Matching(search[s].id)
    BY DEF IInv, Accounted, Finished
  <2> HIDE DEF done
  <2>3. \A c \in search'[s].clauses :
          c \in search[s].clauses \/ (c \in added /\ c.at = At(s))
    BY <1>2, <1>3
  <2>4. /\ \A c \in search'[s].clauses : c.at \in done \cup {At(s)}
        /\ \A c, d \in search'[s].clauses : c.at = d.at => c = d
    BY <1>2, <1>4, <2>2, <2>3
  <2> QED
    BY <1>3, <1>4, <2>1, <2>2, <2>4 DEF Accounted, Finished, Matching
<1> QED
  BY <1>1, <1>5, <1>6, OneSearch

\* Giving up, and ending, leaves no clause behind.
LEMMA EndPreserves ==
    ASSUME IInv, NEW s \in Searches, NEW pc \in Finished,
           search' = [search EXCEPT ![s] = Ended(pc)]
    PROVE  /\ search' = [t \in Searches |-> search'[t]]
           /\ \A t \in Searches : SearchTyped(t)' /\ Accounted(t)'
<1> DEFINE after == Ended(pc)
<1>1. /\ after.id \in Identities
      /\ after = [pc |-> pc, id |-> after.id, todo |-> {}, clauses |-> {}, resolved |-> {},
                   rows |-> after.rows, version |-> 1]
  BY SomeIdentity DEF Ended
<1> HIDE DEF after
<1>2. search' = [search EXCEPT ![s] = after]
  BY DEF after
<1>3. search'[s] = after
  BY <1>2, OneSearch
<1>4. SearchTyped(s)'
  BY <1>1, <1>3, SomeTables DEF SearchTyped, Versions, Finished
<1>5. Accounted(s)'
  BY <1>1, <1>3 DEF Accounted, Finished
<1> QED
  BY <1>2, <1>4, <1>5, OneSearch

\* A search starts with a clause for every column filter, and with every
\* subquery filter still to be resolved.
LEMMA StartPreserves ==
    ASSUME IInv, NEW s \in Searches, NEW id \in Identities, Start(s, id)
    PROVE  /\ search' = [t \in Searches |-> search'[t]]
           /\ \A t \in Searches : SearchTyped(t)' /\ Accounted(t)'
<1> DEFINE columns == MatchingOf("column", id)
           subqueries == MatchingOf("subquery", id)
           passing(i) ==
             {d \in Docs : TermMatches(d, Filters[i].column, id[Filters[i].from_header])}
           clause(i) == [at |-> i, docs |-> passing(i)]
           clauses == {clause(i) : i \in columns}
           entry(i) == [at |-> i, version |-> 1]
           resolved == {entry(i) : i \in columns}
           pc == IF subqueries = {} THEN "query" ELSE "filter"
           after == [pc |-> pc, id |-> id, todo |-> subqueries, rows |-> {}, version |-> 1,
                     clauses |-> clauses, resolved |-> resolved]
<1>1. search' = [search EXCEPT ![s] = after]
  BY Zenon DEF Start
<1>2. /\ {r.at : r \in resolved} = columns
      /\ \A r \in resolved : r.version = 1
      /\ \A c \in clauses : c.at \in columns
      /\ \A c, d \in clauses : c.at = d.at => c = d
  <2>1. \A i \in columns : clause(i).at = i /\ entry(i).at = i /\ entry(i).version = 1
    OBVIOUS
  <2> HIDE DEF clause, entry
  <2> QED
    BY <2>1
<1>3. columns \cup subqueries = Matching(id) /\ columns \cap subqueries = {}
  <2>1. \A i \in Matching(id) : Filters[i].kind \in {"column", "subquery"}
    BY FiltersTyped DEF Matching, Range
  <2> QED
    BY <2>1 DEF MatchingOf
<1> HIDE DEF clauses, resolved, columns, subqueries
<1>4. search'[s] = after
  BY <1>1, OneSearch
<1>5. SearchTyped(s)'
  BY <1>2, <1>4, SomeTables
     DEF SearchTyped, Versions, Finished, subqueries, MatchingOf, Matching
<1>6. Accounted(s)'
  BY <1>2, <1>3, <1>4 DEF Accounted, Finished, Matching
<1> QED
  BY <1>1, <1>5, <1>6, OneSearch

LEMMA InitEstablishes == Init => IInv
<1> SUFFICES ASSUME Init PROVE IInv
  OBVIOUS
<1>1. /\ Idle = [pc |-> "idle", id |-> Idle.id, todo |-> {}, clauses |-> {}, resolved |-> {},
                  rows |-> Idle.rows, version |-> 1]
      /\ Idle.pc = "idle" /\ Idle.id \in Identities /\ Idle.todo = {}
      /\ Idle.clauses = {} /\ Idle.version = 1
  BY SomeIdentity DEF Idle, Ended
<1>2. ASSUME NEW s \in Searches PROVE SearchTyped(s) /\ Accounted(s)
  BY <1>1, SomeTables DEF Init, SearchTyped, Accounted, Versions, Finished
<1>3. Typed
  BY <1>2, SomeTables DEF Init, Typed, NoEntry, Versions
<1> QED
  BY <1>2, <1>3 DEF IInv

LEMMA StepPreserves == IInv /\ [Next]_vars => IInv'
<1> SUFFICES ASSUME IInv, [Next]_vars PROVE IInv'
  OBVIOUS
<1> DEFINE CacheTyped ==
      /\ version \in Versions
      /\ cache = [key \in CacheKeys |-> cache[key]]
      /\ \A key \in CacheKeys : cache[key].version \in Versions /\ cache[key].left \in Nat
    SearchesKept ==
      /\ search' = [t \in Searches |-> search'[t]]
      /\ \A t \in Searches : SearchTyped(t)' /\ Accounted(t)'
<1>0. CacheTyped
  BY DEF IInv, Typed
<1>a. CacheTyped' /\ SearchesKept => IInv'
  BY DEF IInv, Typed
<1>b. UNCHANGED <<version, cache>> => CacheTyped'
  BY <1>0 DEF Versions
<1>c. UNCHANGED search => SearchesKept
  BY DEF IInv, Typed, SearchTyped, Accounted
<1>1. ASSUME NEW s \in Searches, NEW id \in Identities, Start(s, id) PROVE IInv'
  BY <1>1, <1>a, <1>b, StartPreserves DEF Start
<1>2. ASSUME NEW s \in Searches, ReadCache(s) PROVE IInv'
  <2>1. CASE Live(Key(s))
    <3>1. cache[Key(s)].version \in Versions
      BY <1>0, <1>2, AtFilter DEF ReadCache
    <3>2. SearchesKept
      BY <1>2, <2>1, <3>1, ResolvePreserves DEF ReadCache
    <3> QED
      BY <1>2, <1>a, <1>b, <3>2 DEF ReadCache
  <2>2. CASE ~Live(Key(s))
    <3>1. search' = [search EXCEPT ![s] = [search[s] EXCEPT !.pc = "fetch"]]
      BY <1>2, <2>2 DEF ReadCache
    <3>2. search'[s] = [pc |-> "fetch", id |-> search[s].id, todo |-> search[s].todo,
                        clauses |-> search[s].clauses, resolved |-> search[s].resolved,
                        rows |-> search[s].rows, version |-> search[s].version]
      BY <3>1, OneSearch DEF IInv, Typed, SearchTyped
    <3>3. SearchTyped(s)'
      BY <1>2, <3>2 DEF ReadCache, IInv, Typed, SearchTyped, Finished, MatchingOf, Matching,
         Versions
    <3>4. Accounted(s)'
      BY <1>2, <3>2 DEF ReadCache, IInv, Accounted, Finished, Matching
    <3> QED
      BY <1>2, <1>a, <1>b, <3>1, <3>3, <3>4, OneSearch DEF ReadCache
  <2> QED
    BY <2>1, <2>2
<1>3. ASSUME NEW s \in Searches, DbAnswers(s) PROVE IInv'
  <2> DEFINE rows == FetchRows(Tables[version], Current(s), Value(s))
             after == [pc |-> "insert", id |-> search[s].id, todo |-> search[s].todo,
                       clauses |-> search[s].clauses, resolved |-> search[s].resolved,
                       rows |-> rows, version |-> version]
  <2>1. search' = [search EXCEPT ![s] = after]
    BY <1>3 DEF DbAnswers
  <2>2. search'[s] = after
    BY <2>1, OneSearch
  <2> HIDE DEF rows
  <2>3. SearchTyped(s)'
    BY <1>0, <1>3, <2>2 DEF DbAnswers, IInv, Typed, SearchTyped, Finished, MatchingOf,
       Matching, Versions
  <2>4. Accounted(s)'
    BY <1>3, <2>2 DEF DbAnswers, IInv, Accounted, Finished, Matching
  <2> QED
    BY <1>3, <1>a, <1>b, <2>1, <2>3, <2>4, OneSearch DEF DbAnswers
<1>4. ASSUME NEW s \in Searches, DbFails(s) \/ Query(s) \/ Drop(s) PROVE IInv'
  <2>1. \E pc \in Finished : search' = [search EXCEPT ![s] = Ended(pc)]
    BY <1>4 DEF DbFails, Query, Drop, Finished, Idle
  <2>2. SearchesKept
    BY <2>1, EndPreserves
  <2> QED
    BY <1>4, <1>a, <1>b, <2>2 DEF DbFails, Query, Drop
<1>5. ASSUME NEW s \in Searches, Insert(s) PROVE IInv'
  <2>1. search[s].version \in Versions
    BY DEF IInv, Typed, SearchTyped
  <2>2. SearchesKept
    BY <1>5, <2>1, ResolvePreserves DEF Insert
  <2>3. CacheTyped'
    <3> DEFINE entry == [rows |-> search[s].rows, version |-> search[s].version,
                         left |-> Current(s).cache_ttl]
    <3>1. entry.version \in Versions /\ entry.left \in Nat
      BY <1>5, <2>1, AtFilter DEF Insert
    <3> HIDE DEF entry
    <3>2. cache' \in {cache, [cache EXCEPT ![Key(s)] = entry]}
      BY <1>5 DEF Insert, entry
    <3> QED
      BY <1>0, <1>5, <3>1, <3>2 DEF Insert, Versions
  <2> QED
    BY <1>a, <2>2, <2>3
<1>6. CASE Grant
  <2>1. version' \in Versions
    BY <1>0, <1>6, SomeTables DEF Grant, Versions
  <2> QED
    BY <1>0, <1>6, <1>a, <1>c, <2>1 DEF Grant, Versions
<1>7. CASE Tick
  <2>1. ASSUME NEW key \in CacheKeys
        PROVE  cache'[key].version \in Versions /\ cache'[key].left \in Nat
    BY <1>0, <1>7, <2>1, SomeTables DEF Tick, NoEntry, Versions
  <2>2. cache' = [key \in CacheKeys |-> cache'[key]]
    BY <1>7 DEF Tick
  <2> QED
    BY <1>0, <1>7, <1>a, <1>c, <2>1, <2>2 DEF Tick, Versions
<1>8. CASE UNCHANGED vars
  BY <1>8, <1>a, <1>b, <1>c DEF vars
<1> QED
  BY <1>1, <1>2, <1>3, <1>4, <1>5, <1>6, <1>7, <1>8 DEF Next, Progress

LEMMA Inductive == Spec => []IInv
  BY InitEstablishes, StepPreserves, PTL DEF Spec

\* The state is always a value of its type.
THEOREM TypeCorrect == Spec => []TypeOK
<1>1. IInv => TypeOK
  BY DEF IInv, Typed, SearchTyped, TypeOK
<1> QED
  BY <1>1, Inductive, PTL

\* Nobody replaces or prolongs a live entry of the permission cache: it only
\* gets older, whoever missed together with the one that filled it.
THEOREM LiveEntryCorrect == Spec => LiveEntryKept
<1>1. ASSUME IInv, [Next]_vars, NEW key \in CacheKeys, Live(key)
      PROVE  cache'[key] = cache[key] \/ cache'[key].left < cache[key].left
  <2>1. cache[key].left \in Nat /\ cache[key].left > 0
    BY <1>1 DEF IInv, Typed, Live
  <2>2. CASE UNCHANGED cache
    BY <2>2
  <2>3. CASE Tick
    <3>1. cache'[key] = IF cache[key].left > 1
                        THEN [cache[key] EXCEPT !.left = @ - 1] ELSE NoEntry
      BY <1>1, <2>3 DEF Tick
    <3> QED
      BY <2>1, <3>1 DEF NoEntry
  <2>4. ASSUME NEW s \in Searches, Insert(s)
        PROVE  cache'[key] = cache[key]
    <3>1. CASE Live(Key(s))
      BY <2>4, <3>1 DEF Insert
    <3>2. CASE ~Live(Key(s))
      <4>1. key # Key(s)
        BY <1>1, <3>2
      <4>2. cache' = [cache EXCEPT ![Key(s)] =
                [rows |-> search[s].rows, version |-> search[s].version,
                 left |-> Current(s).cache_ttl]]
        BY <2>4, <3>2 DEF Insert
      <4> QED
        BY <1>1, <4>1, <4>2 DEF IInv, Typed
    <3> QED
      BY <3>1, <3>2
  <2> QED
    BY <1>1, <2>2, <2>3, <2>4 DEF Next, Progress, Start, ReadCache, DbAnswers, DbFails, Query,
       Drop, Grant, vars
<1>2. IInv /\ [Next]_vars =>
        [\A key \in CacheKeys :
            Live(key) => \/ cache'[key] = cache[key]
                         \/ cache'[key].left < cache[key].left]_vars
  BY <1>1
<1> QED
  BY <1>2, Inductive, PTL DEF Spec, LiveEntryKept
-----------------------------------------------------------------------------
(* Every filter adds its clause, and Elasticsearch agrees with SQL.        *)

\* The rows of a filter are none or give terms, and the clause made from them
\* lets through what the SQL of the filter does on the same contents of the
\* tables, its equalities read as term queries.
LEMMA CompilersAgree ==
    ASSUME Consistent, NEW f \in SubqueryFilters, NEW value, NEW v \in Versions
    PROVE  /\ GivesClause(f, FetchRows(Tables[v], f, value))
           /\ \A d : EsClause(d, f, FetchRows(Tables[v], f, value))
                       <=> TermClause(d, f, value, Tables[v])
<1> DEFINE R == RowsOf(Tables[v], f, value)
           S == FetchRows(Tables[v], f, value)
           cut(row) == Restrict(row, Range(f.match_columns))
           fits(d, row) == \A i \in DOMAIN f.columns :
                             TermMatches(d, f.columns[i], row[f.match_columns[i]])
<1>1. /\ DOMAIN f.columns = DOMAIN f.match_columns /\ DOMAIN f.columns # {}
      /\ f.kind = "subquery"
      /\ \A row \in R : Range(f.match_columns) \subseteq DOMAIN row
  BY DEF Consistent, SubqueryFilters, RowsOf
<1>2. S = {cut(row) : row \in R}
  BY DEF FetchRows
<1>3. ASSUME NEW row \in R
      PROVE  /\ Terms(f, cut(row)) = DOMAIN f.columns
             /\ \A i \in DOMAIN f.columns : cut(row)[f.match_columns[i]] = row[f.match_columns[i]]
  BY <1>1 DEF Terms, Restrict, Range
<1> HIDE DEF S, R, cut
<1>4. GivesClause(f, S)
  BY <1>1, <1>2, <1>3 DEF GivesClause
<1>5. ASSUME NEW d PROVE EsClause(d, f, S) <=> \E row \in R : fits(d, row)
  <2>1. ASSUME NEW row \in R
        PROVE  fits(d, row) <=>
                 /\ Terms(f, cut(row)) # {}
                 /\ \A i \in Terms(f, cut(row)) :
                       TermMatches(d, f.columns[i], cut(row)[f.match_columns[i]])
    BY <1>1, <1>3
  <2> QED
    BY <1>2, <2>1 DEF EsClause
<1>6. ASSUME NEW d PROVE TermClause(d, f, value, Tables[v]) <=> \E row \in R : fits(d, row)
  BY <1>1 DEF TermClause, R
<1> QED
  BY <1>4, <1>5, <1>6 DEF S

\* Where the index is exact, a term query is an equality.
LEMMA ExactIsEquality ==
    ASSUME Consistent, NEW f \in Range(Filters), Exact(f), NEW value, NEW v \in Versions,
           NEW d \in Docs
    PROVE  TermClause(d, f, value, Tables[v]) <=> SqlClause(d, f, value, Tables[v])
<1>1. ASSUME NEW column \in Columns(f), NEW x PROVE TermMatches(d, column, x) <=> d[column] = x
  BY DEF Exact, TermMatches
<1>2. CASE f.kind = "column"
  BY <1>1, <1>2 DEF Columns, TermClause, SqlClause
<1>3. CASE f.kind = "subquery"
  <2> DEFINE R == RowsOf(Tables[v], f, value)
             fits(row) == \A i \in DOMAIN f.columns : d[f.columns[i]] = row[f.match_columns[i]]
  <2>1. DOMAIN f.columns = DOMAIN f.match_columns
    BY <1>3 DEF Consistent, SubqueryFilters
  <2>2. \A i \in DOMAIN f.columns : f.columns[i] \in Columns(f)
    BY <1>3 DEF Columns, Range
  <2>3. TermClause(d, f, value, Tables[v]) <=> \E row \in R : fits(row)
    BY <1>1, <1>3, <2>2 DEF TermClause
  <2>4. SqlClause(d, f, value, Tables[v]) <=>
          Project(d, f.columns) \in {Project(row, f.match_columns) : row \in R}
    BY <1>3 DEF SqlClause
  <2>5. ASSUME NEW row
        PROVE  Project(d, f.columns) = Project(row, f.match_columns) <=> fits(row)
    BY <2>1 DEF Project
  <2> QED
    BY <2>3, <2>4, <2>5
<1> QED
  BY <1>2, <1>3, FiltersTyped

\* A live entry holds the rows of every filter that has its key.
CacheJustified ==
    \A key \in CacheKeys : Live(key) =>
        \A f \in SubqueryFilters : \A value :
            CacheKey(f, value) = key =>
                cache[key].rows = FetchRows(Tables[cache[key].version], f, value)

\* The rows a search brings from the database are those of its filter.
RowsJustified ==
    \A s \in Searches : search[s].pc = "insert" =>
        search[s].rows = FetchRows(Tables[search[s].version], Current(s), Value(s))

\* What a filter with a decided version lets through, by the reference.
Means(id, r) ==
    {d \in Docs : TermClause(d, Filters[r.at], id[Filters[r.at].from_header], Tables[r.version])}

\* Every resolved filter has a clause, which lets through what it should.
ClausesJustified ==
    \A s \in Searches : \A r \in search[s].resolved :
        \E c \in search[s].clauses : c.at = r.at /\ c.docs = Means(search[s].id, r)

Justified == CacheJustified /\ RowsJustified /\ ClausesJustified

\* The parts of Justified that speak of one search.
SearchJustified(s) ==
    /\ search[s].pc = "insert" =>
          search[s].rows = FetchRows(Tables[search[s].version], Current(s), Value(s))
    /\ \A r \in search[s].resolved :
          \E c \in search[s].clauses : c.at = r.at /\ c.docs = Means(search[s].id, r)

LEMMA JustifiedParts ==
    Justified <=> CacheJustified /\ \A s \in Searches : SearchJustified(s)
  BY DEF Justified, RowsJustified, ClausesJustified, SearchJustified

LEMMA JustifiedInit == Init => Justified
<1> SUFFICES ASSUME Init PROVE Justified
  OBVIOUS
<1>1. CacheJustified
  BY DEF Init, CacheJustified, Live, NoEntry
<1>2. Idle.pc = "idle" /\ Idle.resolved = {}
  BY DEF Idle, Ended
<1>3. ASSUME NEW s \in Searches PROVE SearchJustified(s)
  BY <1>2, <1>3 DEF Init, SearchJustified
<1> QED
  BY <1>1, <1>3, JustifiedParts

\* Rows that are justified give a clause that is.
LEMMA ResolveJustified ==
    ASSUME Consistent, IInv, Justified, NEW s \in Searches,
           search[s].pc \in {"filter", "insert"}, NEW v \in Versions,
           Resolve(s, FetchRows(Tables[v], Current(s), Value(s)), v)
    PROVE  \A t \in Searches : SearchJustified(t)'
<1> DEFINE rows == FetchRows(Tables[v], Current(s), Value(s))
           clause == [at |-> At(s), docs |-> {d \in Docs : EsClause(d, Current(s), rows)}]
           entry == [at |-> At(s), version |-> v]
           rest == search[s].todo \ {At(s)}
           pc == IF rest = {} THEN "query" ELSE "filter"
           after == [pc |-> pc, id |-> search[s].id, todo |-> rest,
                     clauses |-> search[s].clauses \cup {clause},
                     resolved |-> search[s].resolved \cup {entry},
                     rows |-> {}, version |-> 1]
<1>1. Current(s) \in SubqueryFilters
  BY AtFilter
<1>2. search' = [search EXCEPT ![s] = after]
  <2>1. GivesClause(Current(s), rows)
    BY <1>1, CompilersAgree
  <2> QED
    BY <2>1 DEF Resolve
<1>3. /\ clause.at = At(s) /\ entry.at = At(s)
      /\ clause.docs = Means(search[s].id, entry)
  <2>1. \A d \in Docs :
          EsClause(d, Current(s), rows) <=> TermClause(d, Current(s), Value(s), Tables[v])
    BY <1>1, CompilersAgree
  <2>2. clause.docs = {d \in Docs : EsClause(d, Current(s), rows)}
    OBVIOUS
  <2>3. Means(search[s].id, entry) = {d \in Docs : TermClause(d, Current(s), Value(s), Tables[v])}
    BY DEF Means, Current, Value
  <2> QED
    BY <2>1, <2>2, <2>3
<1> HIDE DEF clause, entry, rows
<1>4. search'[s] = after /\ \A t \in Searches \ {s} : search'[t] = search[t]
  BY <1>2, OneSearch
<1>5. SearchJustified(s)'
  <2>1. /\ search'[s].pc # "insert" /\ search'[s].id = search[s].id
        /\ search'[s].clauses = search[s].clauses \cup {clause}
        /\ search'[s].resolved = search[s].resolved \cup {entry}
    BY <1>4
  <2>2. \A r \in search[s].resolved :
          \E c \in search[s].clauses : c.at = r.at /\ c.docs = Means(search[s].id, r)
    BY JustifiedParts DEF SearchJustified
  <2>3. ASSUME NEW r \in search'[s].resolved
        PROVE  \E c \in search'[s].clauses : c.at = r.at /\ c.docs = Means(search'[s].id, r)
    <3>1. CASE r = entry
      BY <1>3, <2>1, <3>1
    <3>2. CASE r \in search[s].resolved
      BY <2>1, <2>2, <3>2
    <3> QED
      BY <2>1, <3>1, <3>2
  <2> QED
    BY <2>1, <2>3 DEF SearchJustified, Means
<1>6. ASSUME NEW t \in Searches \ {s} PROVE SearchJustified(t)'
  <2>1. SearchJustified(t) /\ search'[t] = search[t]
    BY <1>4, <1>6, JustifiedParts
  <2> QED
    BY <2>1 DEF SearchJustified, Current, At, Value, Means
<1> QED
  BY <1>5, <1>6

LEMMA JustifiedStep ==
    ASSUME Consistent, IInv, Justified, [Next]_vars
    PROVE  Justified'
<1>p. CacheJustified' /\ (\A s \in Searches : SearchJustified(s)') => Justified'
  BY DEF Justified, CacheJustified, RowsJustified, ClausesJustified, SearchJustified, Value,
     Current, At, Means
<1>a. UNCHANGED cache => CacheJustified'
  BY DEF Justified, CacheJustified, Live
<1>b. ASSUME NEW t \in Searches, search'[t] = search[t] PROVE SearchJustified(t)'
  <2>1. SearchJustified(t)
    BY JustifiedParts
  <2> QED
    BY <1>b, <2>1 DEF SearchJustified, Current, At, Value, Means
<1>c. ASSUME NEW s \in Searches, NEW after, search' = [search EXCEPT ![s] = after],
             SearchJustified(s)', UNCHANGED cache
      PROVE  Justified'
  BY <1>a, <1>b, <1>c, <1>p, OneSearch
<1>1. ASSUME NEW s \in Searches, NEW id \in Identities, Start(s, id) PROVE Justified'
  <2> DEFINE columns == MatchingOf("column", id)
             subqueries == MatchingOf("subquery", id)
             clause(i) == [at |-> i,
                docs |-> {d \in Docs : TermMatches(d, Filters[i].column,
                                                   id[Filters[i].from_header])}]
             clauses == {clause(i) : i \in columns}
             entry(i) == [at |-> i, version |-> 1]
             resolved == {entry(i) : i \in columns}
             pc == IF subqueries = {} THEN "query" ELSE "filter"
             after == [pc |-> pc, id |-> id, todo |-> subqueries, rows |-> {}, version |-> 1,
                       clauses |-> clauses, resolved |-> resolved]
  <2>1. search' = [search EXCEPT ![s] = after] /\ UNCHANGED cache
    BY <1>1, Zenon DEF Start
  <2>2. ASSUME NEW i \in columns
        PROVE  clause(i).at = entry(i).at /\ clause(i).docs = Means(id, entry(i))
    <3>1. Filters[i].kind = "column"
      BY <2>2 DEF MatchingOf
    <3> QED
      BY <3>1 DEF Means, TermClause
  <2> HIDE DEF clause, entry
  <2>3. \A r \in resolved : \E c \in clauses : c.at = r.at /\ c.docs = Means(id, r)
    BY <2>2
  <2> HIDE DEF clauses, resolved, subqueries
  <2>4. /\ search'[s].pc # "insert" /\ search'[s].id = id /\ search'[s].clauses = clauses
        /\ search'[s].resolved = resolved
    BY <2>1, OneSearch
  <2>5. SearchJustified(s)'
    BY <2>3, <2>4 DEF SearchJustified, Means
  <2> QED
    BY <1>c, <2>1, <2>5
<1>2. ASSUME NEW s \in Searches, ReadCache(s) PROVE Justified'
  <2>1. CASE Live(Key(s))
    <3>1. /\ Key(s) \in CacheKeys /\ Current(s) \in SubqueryFilters
          /\ cache[Key(s)].version \in Versions
      BY <1>2, AtFilter DEF ReadCache, IInv, Typed
    <3>2. cache[Key(s)].rows = FetchRows(Tables[cache[Key(s)].version], Current(s), Value(s))
      BY <2>1, <3>1 DEF Justified, CacheJustified, Key
    <3>3. \A t \in Searches : SearchJustified(t)'
      BY <1>2, <2>1, <3>1, <3>2, ResolveJustified DEF ReadCache
    <3> QED
      BY <1>2, <1>a, <1>p, <3>3 DEF ReadCache
  <2>2. CASE ~Live(Key(s))
    <3>1. search' = [search EXCEPT ![s] = [search[s] EXCEPT !.pc = "fetch"]]
      BY <1>2, <2>2 DEF ReadCache
    <3>2. search'[s] = [pc |-> "fetch", id |-> search[s].id, todo |-> search[s].todo,
                        clauses |-> search[s].clauses, resolved |-> search[s].resolved,
                        rows |-> search[s].rows, version |-> search[s].version]
      BY <3>1, OneSearch DEF IInv, Typed, SearchTyped
    <3>3. SearchJustified(s)'
      BY <3>2, JustifiedParts DEF SearchJustified, Means
    <3> QED
      BY <1>2, <1>c, <3>1, <3>3 DEF ReadCache
  <2> QED
    BY <2>1, <2>2
<1>3. ASSUME NEW s \in Searches, DbAnswers(s) PROVE Justified'
  <2> DEFINE rows == FetchRows(Tables[version], Current(s), Value(s))
             after == [pc |-> "insert", id |-> search[s].id, todo |-> search[s].todo,
                       clauses |-> search[s].clauses, resolved |-> search[s].resolved,
                       rows |-> rows, version |-> version]
  <2>1. search' = [search EXCEPT ![s] = after] /\ UNCHANGED cache
    BY <1>3 DEF DbAnswers
  <2> HIDE DEF rows
  <2>2. /\ search'[s].id = search[s].id /\ search'[s].todo = search[s].todo
        /\ search'[s].clauses = search[s].clauses /\ search'[s].resolved = search[s].resolved
        /\ search'[s].rows = rows /\ search'[s].version = version
    BY <2>1, OneSearch
  <2>3. Current(s)' = Current(s) /\ Value(s)' = Value(s)
    BY <2>2 DEF Current, At, Value
  <2>4. SearchJustified(s)'
    BY <2>2, <2>3, JustifiedParts DEF SearchJustified, Means, rows
  <2> QED
    BY <1>c, <2>1, <2>4
<1>4. ASSUME NEW s \in Searches, DbFails(s) \/ Query(s) \/ Drop(s) PROVE Justified'
  <2>1. PICK pc \in Finished : search' = [search EXCEPT ![s] = Ended(pc)]
    BY <1>4 DEF DbFails, Query, Drop, Finished, Idle
  <2>2. search'[s].pc # "insert" /\ search'[s].resolved = {}
    BY <2>1, OneSearch DEF Ended, Finished
  <2>3. SearchJustified(s)'
    BY <2>2 DEF SearchJustified
  <2> QED
    BY <1>4, <1>c, <2>1, <2>3 DEF DbFails, Query, Drop
<1>5. ASSUME NEW s \in Searches, Insert(s) PROVE Justified'
  <2>1. /\ search[s].pc = "insert" /\ search[s].version \in Versions
        /\ Key(s) \in CacheKeys /\ Current(s) \in SubqueryFilters
    BY <1>5, AtFilter DEF Insert, IInv, Typed, SearchTyped
  <2>2. search[s].rows = FetchRows(Tables[search[s].version], Current(s), Value(s))
    BY <2>1 DEF Justified, RowsJustified
  <2>3. \A t \in Searches : SearchJustified(t)'
    BY <1>5, <2>1, <2>2, ResolveJustified DEF Insert
  <2>4. CacheJustified'
    <3> DEFINE entry == [rows |-> search[s].rows, version |-> search[s].version,
                         left |-> Current(s).cache_ttl]
    <3>1. CASE Live(Key(s))
      BY <1>5, <1>a, <3>1 DEF Insert
    <3>2. CASE ~Live(Key(s))
      <4>1. cache' = [cache EXCEPT ![Key(s)] = entry]
        BY <1>5, <3>2 DEF Insert
      <4>2. ASSUME NEW f \in SubqueryFilters, NEW value, CacheKey(f, value) = Key(s)
            PROVE  entry.rows = FetchRows(Tables[entry.version], f, value)
        <5>1. /\ f.from_source = Current(s).from_source
              /\ f.user_column = Current(s).user_column /\ value = Value(s)
          BY <4>2 DEF CacheKey, Key
        <5>2. f.match_columns = Current(s).match_columns
          BY <2>1, <5>1 DEF Consistent
        <5> QED
          BY <2>2, <5>1, <5>2 DEF FetchRows, RowsOf
      <4> HIDE DEF entry
      <4>3. \A key \in CacheKeys : cache'[key] = IF key = Key(s) THEN entry ELSE cache[key]
        BY <4>1 DEF IInv, Typed
      <4> QED
        BY <4>2, <4>3 DEF Justified, CacheJustified, Live
    <3> QED
      BY <3>1, <3>2
  <2> QED
    BY <1>p, <2>3, <2>4
<1>6. CASE Grant
  BY <1>6, <1>a, <1>b, <1>p DEF Grant
<1>7. CASE Tick
  <2>1. ASSUME NEW key \in CacheKeys, cache'[key].left > 0
        PROVE  /\ Live(key) /\ cache'[key].rows = cache[key].rows
               /\ cache'[key].version = cache[key].version
    <3>1. cache'[key] = IF cache[key].left > 1
                        THEN [cache[key] EXCEPT !.left = @ - 1] ELSE NoEntry
      BY <1>7, <2>1 DEF Tick
    <3>2. cache[key].left \in Nat
      BY <2>1 DEF IInv, Typed
    <3> QED
      BY <2>1, <3>1, <3>2 DEF NoEntry, Live
  <2>2. CacheJustified'
    BY <2>1 DEF Justified, CacheJustified, Live
  <2> QED
    BY <1>7, <1>b, <1>p, <2>2 DEF Tick
<1>8. CASE UNCHANGED vars
  BY <1>8, <1>a, <1>b, <1>p DEF vars
<1> QED
  BY <1>1, <1>2, <1>3, <1>4, <1>5, <1>6, <1>7, <1>8 DEF Next, Progress

LEMMA JustifiedAlways == Spec => [](Consistent => Justified)
<1>1. Init => (Consistent => Justified)
  BY JustifiedInit
<1>2. IInv /\ (Consistent => Justified) /\ [Next]_vars => (Consistent => Justified)'
  <2>1. Consistent' <=> Consistent
    BY DEF Consistent
  <2> QED
    BY <2>1, JustifiedStep
<1> QED
  BY <1>1, <1>2, Inductive, PTL DEF Spec

\* A search that reaches Elasticsearch carries exactly one clause for every
\* filter that applies to its identity, whichever were found in the cache, if
\* the row filters are Consistent.  Without that a filter may find rows of
\* another in the cache that give no term, and adds no clause.
THEOREM FiltersCorrect == Spec => [](Consistent => AllFiltersApplied)
<1>1. IInv /\ (Consistent => Justified) => (Consistent => AllFiltersApplied)
  <2> SUFFICES ASSUME IInv, Justified, NEW s \in Searches, search[s].pc = "query"
               PROVE  /\ {c.at : c \in search[s].clauses} = Matching(search[s].id)
                      /\ \A c, d \in search[s].clauses : c.at = d.at => c = d
    BY DEF AllFiltersApplied
  <2> DEFINE done == {r.at : r \in search[s].resolved}
  <2>1. search[s].todo = {}
    BY DEF IInv, Typed, SearchTyped
  <2>2. /\ done = Matching(search[s].id)
        /\ \A c \in search[s].clauses : c.at \in done
        /\ \A c, d \in search[s].clauses : c.at = d.at => c = d
    BY <2>1 DEF IInv, Accounted, Finished
  <2>3. \A r \in search[s].resolved : \E c \in search[s].clauses : c.at = r.at
    BY DEF Justified, ClausesJustified
  <2>4. {c.at : c \in search[s].clauses} = done
    BY <2>2, <2>3
  <2> QED
    BY <2>2, <2>4
<1> QED
  BY <1>1, Inductive, JustifiedAlways, PTL

\* Row filters that are Consistent restrict a search as they restrict the SQL,
\* through whichever search's cache entry they were resolved: up to what a term
\* query matches, and exactly where the index keeps the values as they are.
THEOREM AgreementCorrect == Spec => [](Consistent => EsAgreesWithSql)
<1>1. IInv /\ (Consistent => Justified) => (Consistent => EsAgreesWithSql)
  <2> SUFFICES ASSUME IInv, Consistent, Justified, NEW s \in Searches,
                      NEW r \in search[s].resolved
               PROVE  LET f == Filters[r.at]
                          value == search[s].id[f.from_header]
                      IN  /\ LetsThrough(s, r.at) =
                               {d \in Docs : TermClause(d, f, value, Tables[r.version])}
                          /\ Exact(f) => LetsThrough(s, r.at) =
                               {d \in Docs : SqlClause(d, f, value, Tables[r.version])}
    BY DEF EsAgreesWithSql
  <2> DEFINE f == Filters[r.at]
             value == search[s].id[f.from_header]
             meant == {d \in Docs : TermClause(d, f, value, Tables[r.version])}
  <2>1. PICK c \in search[s].clauses : c.at = r.at /\ c.docs = meant
    BY DEF Justified, ClausesJustified, Means
  <2>2. \A b \in search[s].clauses : b.at = r.at => b = c
    BY <2>1 DEF IInv, Accounted
  <2>3. LetsThrough(s, r.at) = meant
    BY <2>1, <2>2 DEF LetsThrough
  <2>4. f \in Range(Filters) /\ r.version \in Versions
    <3>1. r.at \in Matching(search[s].id)
      BY DEF IInv, Accounted
    <3> QED
      BY <3>1 DEF Matching, Range, IInv, Typed, SearchTyped
  <2>5. ASSUME Exact(f), NEW d \in Docs
        PROVE  TermClause(d, f, value, Tables[r.version])
                 <=> SqlClause(d, f, value, Tables[r.version])
    BY <2>4, <2>5, ExactIsEquality
  <2> HIDE DEF f, value
  <2>6. Exact(f) => meant = {d \in Docs : SqlClause(d, f, value, Tables[r.version])}
    BY <2>5
  <2> QED
    BY <2>3, <2>6 DEF f, value
<1> QED
  BY <1>1, Inductive, JustifiedAlways, PTL
=============================================================================
