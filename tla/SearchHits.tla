------------------------------ MODULE SearchHits ------------------------------
(***************************************************************************)
(* The life of one search (src/schema/search/mod.rs): its arguments become *)
(* a body for Elasticsearch, whose hits are then enriched with the rows    *)
(* PostgreSQL holds for their joins: es_batch_enrich, which HitEnrichment  *)
(* models.  The clauses of the row filters arrive with the request:        *)
(* SearchService models how they are resolved.                             *)
(***************************************************************************)
EXTENDS SearchFilter, HitEnrichment

CONSTANTS
    Requests,  \* what a client may ask
    Docs,      \* the documents of the index, in its order
    MaxLimit   \* LimitsConfig.max_limit

VARIABLES
    phase,    \* where the search is
    request,  \* its arguments
    found,    \* the hits Elasticsearch answered with
    erred     \* it answered with an error (history)

Indices == {r.index : r \in Requests}

\* Documents differ, since each has the key of its row.
ASSUME SearchTyped ==
    /\ MaxLimit \in Nat
    /\ Docs \in Seq(Range(Docs)) /\ IsInjective(Docs)
    /\ \A r \in Requests :
          /\ r.query \in Seq(Range(r.query))
          /\ \A v \in {r.limit, r.offset} : Kind(v) = "int" => v.int \in Int

\* The values of a field in what a document has at a join.
Held(node, f) == Items(Inside(node.val, f))

\* The calls a search may make are those with a page of documents.
ASSUME PagesCalled ==
    \A cfg \in Indices : \A n \in 0..MaxLimit : \A page \in [1..n -> Range(Docs)] :
        [sources |-> page, joins |-> cfg.join_fields] \in Calls

\* The fields of a filter are named apart: from each other, as they are in one
\* input type; from the operators, since a name of these makes its filter one of
\* operators; and from the "keyword" of every text.
ASSUME FieldsNamed ==
    \A cfg \in Indices \cup Joins :
        LET joins == {jf.index_field : jf \in Range(cfg.join_fields)} IN
        /\ cfg.searchable_fields \cap joins = {}
        /\ (cfg.searchable_fields \cup joins) \cap (AllOperators \cup {"keyword"}) = {}

\* What is searched for in a document is a column that holds no object.
ASSUME FieldsPlain ==
    \A cfg \in Indices, i \in DOMAIN Docs : \A node \in Parts(Docs[i], cfg, Depth) :
        \A f \in node.cfg.searchable_fields : \A d \in Held(node, f) : Kind(d) # "obj"

\* Texts are letters: the pattern made of one has no other star than its own.
ASSUME TextsHaveNoStar ==
    \A r \in Requests : \A part \in Parts(r.filter, r.index, Depth) :
        \A f \in part.cfg.searchable_fields : \A given \in part.val :
            LET text == Field(Field(given, f), "ends_with") IN
            Kind(text) = "str" => text.str \in Seq(Range(text.str) \ {"*"})

searchVars == <<phase, request, found, erred>>
vars == <<searchVars, enrichVars>>

DefaultLimit == 50

\* u64() of an argument that is absent, null or negative gives nothing.
Unsigned(v, default) == IF Kind(v) = "int" /\ v.int >= 0 THEN v.int ELSE default

PageSize(r) == Min({Unsigned(r.limit, DefaultLimit), MaxLimit})

Offset(r) == Unsigned(r.offset, 0)

\* Two levels of joins.
CollectSearchableFields(cfg) ==
    {<<f>> : f \in cfg.searchable_fields}
        \cup UNION {{<<jf.index_field, f>> : f \in jf.searchable_fields}
                \cup UNION {{<<jf.index_field, nested.index_field, f>> :
                                f \in nested.searchable_fields} : nested \in Range(jf.join_fields)} :
            jf \in Range(cfg.join_fields)}

\* Mutant: a raw query takes the place of every clause.
BoolBodyRawAlone(r) ==
    IF r.raw.kind # "none" THEN [must |-> {r.raw}]
    ELSE [must |-> BuildEsFilter(r.filter) \cup r.rows]

\* A raw query replaces filter and text, never the row filters.
BoolBody(r) ==
    IF r.raw.kind # "none" THEN [must |-> {r.raw} \cup r.rows]
    ELSE LET must == BuildEsFilter(r.filter) \cup r.rows
             text == [kind |-> "multi_match", query |-> r.query,
                      fields |-> CollectSearchableFields(r.index),
                      operator |-> IF r.queryOperator = "AND" THEN "and" ELSE "or"]
         IN  IF r.query = <<>> THEN [must |-> must] ELSE [must |-> must, should |-> {text}]

\* A filter its input type refuses never reaches the resolver.
Refused(r) ==
    \/ ~FilterAccepted(r.filter, r.index)
    \/ r.raw.kind # "none" /\ ~r.index.allow_raw_es_query
    \/ r.raw.kind = "invalid"

NoRequest == [query |-> <<>>]

Ended == {"idle", "answered", "error"}

Init ==
    /\ phase = "idle" /\ request = NoRequest /\ found = <<>> /\ erred = FALSE
    /\ EnrichInit
-----------------------------------------------------------------------------
\* A client asks: the request is refused, or sent to Elasticsearch.
Ask(r) ==
    /\ phase \in Ended
    /\ phase' = IF Refused(r) THEN "error" ELSE "query"
    /\ request' = r
    /\ found' = <<>> /\ erred' = FALSE
    /\ Forget

Receive(hits, isError) ==
    /\ phase = "query"
    /\ phase' = "enrich"
    /\ found' = hits /\ erred' = isError
    /\ Call([i \in DOMAIN hits |-> hits[i].source], request.index.join_fields)
    /\ UNCHANGED request

EsAnswers == Receive(EsSearch(Docs, BoolBody(request), PageSize(request), Offset(request)), FALSE)

\* An error that has a JSON body has no hits.hits, which counts as no hits.
EsAnswersError == Receive(<<>>, TRUE)

\* The breaker rejects, the request fails or its answer is no JSON.
EsFails ==
    /\ phase = "query"
    /\ phase' = "error"
    /\ UNCHANGED <<request, found, erred, enrichVars>>

EnrichHits ==
    /\ phase = "enrich"
    /\ Enrich
    /\ UNCHANGED searchVars

\* Mutant: the answer does not wait for the joins.
AnswerEarly ==
    /\ phase = "enrich"
    /\ phase' = "answered"
    /\ UNCHANGED <<request, found, erred, enrichVars>>

\* The sources, zipped with the scores of the hits, are the answer.
Answer ==
    /\ phase = "enrich" /\ Finished
    /\ phase' = "answered"
    /\ UNCHANGED <<request, found, erred, enrichVars>>

\* The request is dropped at one of its awaits.
Drop ==
    /\ phase \in {"query", "enrich"}
    /\ phase' = "idle" /\ request' = NoRequest
    /\ found' = <<>> /\ erred' = FALSE
    /\ Forget

Progress == EsFails \/ EsAnswersError \/ EsAnswers \/ Answer \/ EnrichHits

Next ==
    \/ Progress \/ Drop
    \/ Write /\ UNCHANGED searchVars
    \/ \E r \in Requests : Ask(r)

Spec == Init /\ [][Next]_vars

\* What a search waits for answers or fails.
FairSpec == Spec /\ WF_vars(Progress)
-----------------------------------------------------------------------------
(* Properties.                                                             *)

\* An answer waits for every join of every hit.
TypeOK ==
    /\ phase \in Ended \cup {"query", "enrich"}
    /\ stack # <<>> <=> phase \in {"enrich", "answered"}
    /\ phase = "answered" => Finished
    /\ stack # <<>> =>
          Len(call.sources) = Len(found) /\ call.joins = request.index.join_fields

\* Whatever is searched for, es_batch_enrich is called with a page of sources
\* and runs as HitEnrichment says.
EnrichesAPage == EnrichSpec

\* What a list asks for.
Listed(v) == {item \in Range(v.arr) : Kind(item) # "bool"}

\* What an operator asks of the values of a field: one of them has to do, and
\* "ne" rules out all of them.  Null, an empty text to look for and an empty list
\* ask nothing, nor does a boolean in a list (a BigInt may be one) or a range
\* bound that is no number.
OperandMeans(op, v, values) ==
    LET texts == {d.str : d \in {d \in values : Kind(d) = "str"}}
        numbers == {Number(d) : d \in {d \in values : IsNumber(d)}}
        given(item) == \E d \in values : ValuesEqual(d, item)
    IN  \/ Kind(v) = "null"
        \/ CASE op = "eq" -> given(v)
             [] op = "ne" -> ~given(v)
             [] op = "in" -> Listed(v) # {} => \E item \in Listed(v) : given(item)
             [] op = "all" -> \A item \in Listed(v) : given(item)
             [] op = "contains" -> v.str # <<>> => \E t \in texts : Occurs(v.str, t)
             [] op = "starts_with" -> v.str # <<>> => \E t \in texts : IsPrefix(v.str, t)
             [] op = "ends_with" -> v.str # <<>> => \E t \in texts : IsSuffix(v.str, t)
             [] OTHER -> IsNumber(v) => \E n \in numbers : InRange(op, n, Number(v))

\* Field by field, at every join of the index and of its joins.
FilterMeans(v, cfg, doc) ==
    \A part \in Parts(v, cfg, Depth), node \in Parts(doc, cfg, Depth) :
        part.path = node.path =>
            \A f \in node.cfg.searchable_fields : \A given \in part.val :
                LET ops == Field(given, f) IN
                Kind(ops) = "obj" =>
                    \A op \in DOMAIN ops.obj : OperandMeans(op, ops.obj[op], Held(node, f))

\* Words are looked for two levels of joins down.
SaysWord(word, cfg, doc) ==
    \E node \in Parts(doc, cfg, 2) : \E f \in node.cfg.searchable_fields :
        \E d \in Held(node, f) : Kind(d) = "str" /\ Occurs(Lower(word), Lower(d.str))

Relevance(r, doc) ==
    IF r.raw.kind # "none" THEN 0
    ELSE Cardinality({i \in DOMAIN r.query : SaysWord(r.query[i], r.index, doc)})

Wanted(r, doc) ==
    /\ \A c \in r.rows : ClauseMatches(c, doc)
    /\ IF r.raw.kind # "none" THEN ClauseMatches(r.raw, doc)
       ELSE /\ FilterMeans(r.filter, r.index, doc)
            /\ r.query # <<>> =>
                  IF r.queryOperator = "AND" THEN Relevance(r, doc) = Len(r.query)
                  ELSE Relevance(r, doc) > 0

\* The hits are the page of the documents that the filter, the words and the
\* row filters of the request mean, the more relevant ones on earlier pages,
\* although filter operators, words and row filters are compiled apart from
\* each other into one bool query (search 224-261, operator.rs).
HitsMeanTheRequest ==
    phase \in {"enrich", "answered"} /\ ~erred =>
        LET wanted == {i \in DOMAIN Docs : Wanted(request, Docs[i])}
            ranked(k) == {i \in wanted : Relevance(request, Docs[i]) >= found[k].score}
            above(k) == {i \in wanted : Relevance(request, Docs[i]) > found[k].score}
            skipped == Offset(request)
            room == IF Kind(request.limit) = "int" /\ request.limit.int \in 0..MaxLimit
                    THEN request.limit.int
                    ELSE IF Kind(request.limit) = "int" /\ request.limit.int >= 0 THEN MaxLimit
                    ELSE Min({DefaultLimit, MaxLimit})
        IN  /\ Len(found) = Max({0, Min({room, Cardinality(wanted) - skipped})})
            /\ IsInjective([k \in DOMAIN found |-> found[k].source])
            /\ \A k \in DOMAIN found :
                  /\ \E i \in ranked(k) \ above(k) : Docs[i] = found[k].source
                  /\ Cardinality(above(k)) < skipped + k
                  /\ Cardinality(ranked(k)) >= skipped + k

\* Every search ends, however deep its joins are nested.
EverySearchEnds == (phase \notin Ended) ~> (phase \in Ended)

\* "The engine enriches search results with up-to-date join data from
\* PostgreSQL" (README.md:218): each hit carries the rows that have its key.
HitsCarryTheirRows ==
    phase = "answered" /\ ~erred /\ failed = {} =>
        \A jf \in Range(request.index.join_fields) :
            \A source \in Range(stack[1].sources) :
                \E v \in asked..version :
                    {RowOf(c, jf) : c \in Attached(source, jf)}
                        = RowsWithKey(v, jf, Keys({source}, jf))
=============================================================================
