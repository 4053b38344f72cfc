------------------------------- MODULE EsQuery -------------------------------
(***************************************************************************)
(* What a search body asks of an index (src/schema/search/es_client.rs).   *)
(* Two adapters stand behind EsClient; the operators here are those of the *)
(* in-memory one, which evaluates the bodies this program generates, but   *)
(* for lists: it looks into the first item that has a field, Elasticsearch *)
(* into all of them, as tests/search.hurl:114-122 and 147-171 expect: M003 *)
(* is found by the second of its features.                                 *)
(*                                                                         *)
(* Documents are JSON values.  A path is the sequence of its segments.     *)
(* A clause is a record with its kind; a bool body maps the parts it has,  *)
(* of "must", "must_not" and "should", to their clauses.                   *)
(***************************************************************************)
EXTENDS JsonValue, Integers, SequencesExt

CONSTANT LowerCase  \* pieces written with capitals -> the same in small letters

IsNumber(v) == Kind(v) \in {"int", "float"}

Number(v) == IF Kind(v) = "int" THEN v.int ELSE v.float

\* values_equal: 2 is 2.0.
ValuesEqual(a, b) ==
    IF IsNumber(a) /\ IsNumber(b) THEN Number(a) = Number(b) ELSE a = b

\* A scalar is its own "keyword".
Member(v, name) ==
    IF name = "keyword" /\ Kind(v) \in {"str", "int", "float", "bool"} THEN v ELSE Field(v, name)

\* Mutant: of a list, only the first item that has the segment.
BelowFirstItem(vs, name) ==
    LET first(v) ==
            LET items == IF Kind(v) = "arr" THEN v.arr ELSE <<v>>
                having == {i \in DOMAIN items : Member(items[i], name) # Missing}
            IN  IF having = {} THEN {} ELSE {Member(items[Min(having)], name)}
    IN  UNION {first(v) : v \in vs}

\* One segment further.
Below(vs, name) == {Member(item, name) : item \in Items(vs)} \ {Missing}

\* The values a document has at a path.
DocAtPath(doc, path) ==
    LET node[n \in 0..Len(path)] == IF n = 0 THEN {doc} ELSE Below(node[n - 1], path[n])
    IN  Items(node[Len(path)])

Lower(text) ==
    [i \in DOMAIN text |-> IF text[i] \in DOMAIN LowerCase THEN LowerCase[text[i]] ELSE text[i]]

Occurs(part, text) ==
    \E i \in 0..(Len(text) - Len(part)) : SubSeq(text, i + 1, i + Len(part)) = part

\* The pattern without the stars at its ends.
Needle(pattern) ==
    LET kept == {i \in DOMAIN pattern : pattern[i] # "*"} IN
    IF kept = {} THEN <<>> ELSE SubSeq(pattern, Min(kept), Max(kept))

WildcardMatches(pattern, text) ==
    LET opens == IsPrefix(<<"*">>, pattern)
        closes == IsSuffix(<<"*">>, pattern)
    IN  CASE opens /\ ~closes -> IsSuffix(Needle(pattern), text)
          [] closes /\ ~opens -> IsPrefix(Needle(pattern), text)
          [] OTHER -> Occurs(Needle(pattern), text)

InRange(op, n, bound) ==
    CASE op = "gt" -> n > bound
      [] op = "gte" -> n >= bound
      [] op = "lt" -> n < bound
      [] op = "lte" -> n <= bound

\* The words of a multi_match that occur in one of its fields.
MatchedTerms(clause, doc) ==
    {i \in DOMAIN clause.query :
        \E field \in clause.fields :
            \E d \in DocAtPath(doc, field) :
                Kind(d) = "str" /\ Occurs(Lower(clause.query[i]), Lower(d.str))}

MultiMatches(clause, doc) ==
    /\ MatchedTerms(clause, doc) # {}
    /\ clause.operator = "and" => MatchedTerms(clause, doc) = DOMAIN clause.query

\* A must_not rejects what matches all of its clauses; of should one is enough.
BoolHolds(body, Matches(_)) ==
    /\ "must" \in DOMAIN body => \A c \in body["must"] : Matches(c)
    /\ "must_not" \in DOMAIN body => \E c \in body["must_not"] : ~Matches(c)
    /\ "should" \in DOMAIN body => \E c \in body["should"] : Matches(c)

ValueMatches(clause, d) ==
    CASE clause.kind = "term" -> ValuesEqual(d, clause.val)
      [] clause.kind = "terms" -> \E v \in clause.vals : ValuesEqual(d, v)
      [] clause.kind = "match_phrase" -> Kind(d) = "str" /\ Occurs(clause.val, d.str)
      [] clause.kind = "prefix" -> Kind(d) = "str" /\ IsPrefix(clause.val, d.str)
      [] clause.kind = "wildcard" -> Kind(d) = "str" /\ WildcardMatches(clause.val, d.str)
      [] clause.kind = "range" -> IsNumber(d) /\ InRange(clause.op, Number(d), Number(clause.val))

\* Of the values a field has, one is enough.
LeafMatches(clause, doc) ==
    IF clause.kind = "multi_match" THEN MultiMatches(clause, doc)
    ELSE \E d \in DocAtPath(doc, clause.field) : ValueMatches(clause, d)

\* Bool clauses nest: the row filters of several columns are a must within a
\* should within the must of the body, and nothing compiled nests deeper.
InnerMatches(clause, doc) ==
    IF clause.kind = "bool" THEN BoolHolds(clause.body, LAMBDA c : LeafMatches(c, doc))
    ELSE LeafMatches(clause, doc)

ClauseMatches(clause, doc) ==
    IF clause.kind = "bool" THEN BoolHolds(clause.body, LAMBDA c : InnerMatches(c, doc))
    ELSE LeafMatches(clause, doc)

BoolMatches(body, doc) == BoolHolds(body, LAMBDA c : ClauseMatches(c, doc))

\* doc_score: one for every word that matched.
Score(body, doc) ==
    IF "should" \in DOMAIN body
    THEN Cardinality(UNION {{c} \X MatchedTerms(c, doc) :
                               c \in {c \in body["should"] : c.kind = "multi_match"}})
    ELSE 0

\* Mutant: the page is cut before the hits are ranked.
EsSearchCutFirst(docs, body, size, from) ==
    LET matched == SetToSortSeq({i \in DOMAIN docs : BoolMatches(body, docs[i])}, <)
        page == SubSeq(matched, from + 1, Min({from + size, Len(matched)}))
        ranked == SortSeq(page, LAMBDA i, j : Score(body, docs[i]) > Score(body, docs[j]))
    IN  [k \in DOMAIN ranked |->
            [source |-> docs[ranked[k]], score |-> Score(body, docs[ranked[k]])]]

\* Mutant: everything from the offset on, whatever the size.
EsSearchWhole(docs, body, size, from) ==
    LET matched == {i \in DOMAIN docs : BoolMatches(body, docs[i])}
        ranked == SetToSortSeq(matched,
                    LAMBDA i, j : \/ Score(body, docs[i]) > Score(body, docs[j])
                                  \/ Score(body, docs[i]) = Score(body, docs[j]) /\ i < j)
        page == SubSeq(ranked, from + 1, Len(ranked))
    IN  [k \in DOMAIN page |->
            [source |-> docs[page[k]], score |-> Score(body, docs[page[k]])]]

\* The documents of the page, best first and otherwise in their own order: the
\* place of each is the number of those before it.
EsSearch(docs, body, size, from) ==
    LET matched == {i \in DOMAIN docs : BoolMatches(body, docs[i])}
        score(i) == Score(body, docs[i])
        before(i) == {j \in matched : score(j) > score(i) \/ (score(j) = score(i) /\ j < i)}
        ranked == [k \in 1..Cardinality(matched) |->
                      CHOOSE i \in matched : Cardinality(before(i)) = k - 1]
        page == SubSeq(ranked, from + 1, Min({from + size, Len(ranked)}))
    IN  [k \in DOMAIN page |-> [source |-> docs[page[k]], score |-> score(page[k])]]
=============================================================================
