---------------------------- MODULE HitEnrichment ----------------------------
(***************************************************************************)
(* es_batch_enrich (src/schema/search/mod.rs): the sources of the hits of  *)
(* a search get the rows PostgreSQL holds for their joins, in place of the *)
(* ones they were indexed with.                                            *)
(*                                                                         *)
(* The function calls itself for nested joins.  `stack` is that recursion: *)
(* a frame has the sources it enriches, their joins and how many of them   *)
(* are filled.  Each statement is a step of its own, and the tables may    *)
(* change between two of them.  What Elasticsearch finds is any of Calls   *)
(* here; SearchHits models the search that makes the call.                 *)
(***************************************************************************)
EXTENDS SearchConfig

CONSTANTS
    Tables,  \* successive contents of the joined tables
    Calls    \* the calls a search may make: [sources, joins]

VARIABLES
    call,     \* what was called, or NoCall
    stack,    \* the calls of es_batch_enrich under way, innermost last
    version,  \* number of the present contents of the tables
    asked,    \* version when the hits arrived (history)
    failed    \* joins of which the statement failed (history)

enrichVars == <<call, stack, version, asked, failed>>

JoinLists == {c.joins : c \in Calls} \cup {jf.join_fields : jf \in Joins}

ASSUME JoinsTyped == IsFiniteSet(Joins) /\ \A joins \in JoinLists : joins \in Seq(Joins)

ASSUME CallsTyped == \A c \in Calls : c.sources \in Seq(Range(c.sources))

\* An index_field names nothing else: no other join of its list, none of the
\* keys, no column of the rows it is added to.  So they are configured
\* (config.yaml:333-347), although nothing checks it.
ASSUME IndexFieldsApart ==
    /\ \A joins \in JoinLists : \A i, j \in DOMAIN joins :
          /\ joins[i].index_field = joins[j].index_field => i = j
          /\ joins[i].index_field # joins[j].local_field
    /\ \A jf \in Joins : \A nested \in Range(jf.join_fields) :
          /\ nested.index_field # jf.foreign_field
          /\ \A v \in DOMAIN Tables : \A row \in Tables[v][jf.table] :
                nested.index_field \notin DOMAIN row.obj

\* row_to_json gives an object for every row.
IsObject(v) == v = [obj |-> [column \in DOMAIN v.obj |-> v.obj[column]]]

ASSUME TablesTyped ==
    /\ Tables \in Seq(Range(Tables)) /\ Tables # <<>>
    /\ \A v \in DOMAIN Tables : \A jf \in Joins :
          /\ IsFiniteSet(Tables[v][jf.table])
          /\ \A row \in Tables[v][jf.table] : IsObject(row)
-----------------------------------------------------------------------------
\* key_value: the text a JSON text or whole number has as a key, else none.
KeyValue(v) ==
    CASE Kind(v) = "str" -> v.str
      [] Kind(v) = "int" -> <<ToString(v.int)>>
      [] OTHER -> <<>>

KeyOf(v, column) == KeyValue(Field(v, column))

Keys(sources, jf) == {KeyOf(s, jf.local_field) : s \in sources} \ {<<>>}

Insert(v, name, list) ==
    IF Kind(v) # "obj" THEN v
    ELSE [obj |-> [k \in DOMAIN v.obj \cup {name} |-> IF k = name THEN [arr |-> list] ELSE v.obj[k]]]

\* SELECT * FROM table WHERE foreign_field::text = ANY(keys).
RowsWithKey(v, jf, keys) ==
    {row \in Tables[v][jf.table] : KeyOf(row, jf.foreign_field) \in keys}

\* The children pushed to the group of a key, one after the other.
Group(children, column, key) ==
    LET upTo[n \in 0..Len(children)] ==
            IF n = 0 THEN <<>>
            ELSE IF KeyOf(children[n], column) = key THEN Append(upTo[n - 1], children[n])
            ELSE upTo[n - 1]
    IN  upTo[Len(children)]

\* Mutant: a source without a key is lost, as in an inner join.
AttachInner(sources, jf, children) ==
    LET kept == SelectSeq(sources, LAMBDA v : KeyOf(v, jf.local_field) # <<>>) IN
    [i \in DOMAIN kept |->
        Insert(kept[i], jf.index_field,
               Group(children, jf.foreign_field, KeyOf(kept[i], jf.local_field)))]

\* grouped.remove(key): the first source with a key takes its children.
Attach(sources, jf, children) ==
    [i \in DOMAIN sources |->
        LET key == KeyOf(sources[i], jf.local_field)
            taken == \E k \in 1..(i - 1) : KeyOf(sources[k], jf.local_field) = key
        IN  Insert(sources[i], jf.index_field,
                   IF key = <<>> \/ taken THEN <<>> ELSE Group(children, jf.foreign_field, key))]

Top == Last(stack)

\* The loop is at a join.
Filling(frame) == frame.filled < Len(frame.joins)
JoinOf(frame) == frame.joins[frame.filled + 1]

\* The frame after one turn of the loop.
Filled(frame, sources) ==
    [sources |-> sources, joins |-> frame.joins, filled |-> frame.filled + 1]

WithTop(frame) == Append(Front(stack), frame)

NoCall == [sources |-> <<>>, joins |-> <<>>]

Frame(sources, joins) == [sources |-> sources, joins |-> joins, filled |-> 0]

EnrichInit == call = NoCall /\ stack = <<>> /\ version = 1 /\ asked = 1 /\ failed = {}

Call(sources, joins) ==
    /\ stack = <<>>
    /\ call' = [sources |-> sources, joins |-> joins]
    /\ stack' = <<Frame(sources, joins)>>
    /\ asked' = version /\ failed' = {}
    /\ UNCHANGED version

\* No sources, nothing to fill.
SkipJoin ==
    /\ stack # <<>> /\ Filling(Top) /\ Top.sources = <<>>
    /\ stack' = WithTop(Filled(Top, Top.sources))
    /\ UNCHANGED <<call, version, asked, failed>>

\* The loop is at a join for which no source has a key.
Keyless == Filling(Top) /\ Top.sources # <<>> /\ Keys(Range(Top.sources), JoinOf(Top)) = {}

\* Mutant: the join is not done with.
NoKeysAgain ==
    /\ stack # <<>> /\ Keyless
    /\ stack' = WithTop([Top EXCEPT !.sources = Attach(Top.sources, JoinOf(Top), <<>>)])
    /\ UNCHANGED <<call, version, asked, failed>>

\* Each source gets the empty list.
NoKeys ==
    /\ stack # <<>> /\ Keyless
    /\ stack' = WithTop(Filled(Top, Attach(Top.sources, JoinOf(Top), <<>>)))
    /\ UNCHANGED <<call, version, asked, failed>>

\* The children are attached, after their own joins were filled if they have any.
Fetched(children) ==
    stack' = IF JoinOf(Top).join_fields = <<>>
             THEN WithTop(Filled(Top, Attach(Top.sources, JoinOf(Top), children)))
             ELSE Append(stack, Frame(children, JoinOf(Top).join_fields))

Asking == Filling(Top) /\ Keys(Range(Top.sources), JoinOf(Top)) # {}

\* One statement finds the rows of all keys, in any order.
Statement ==
    /\ stack # <<>> /\ Asking
    /\ \E rows \in SetToSeqs(RowsWithKey(version, JoinOf(Top), Keys(Range(Top.sources), JoinOf(Top)))) :
          Fetched(rows)
    /\ UNCHANGED <<call, version, asked, failed>>

\* Mutant: a failed statement leaves the children of the document.
StatementFailsKeeping ==
    /\ stack # <<>> /\ Asking
    /\ stack' = WithTop(Filled(Top, Top.sources))
    /\ failed' = failed \cup {JoinOf(Top).index_field}
    /\ UNCHANGED <<call, version, asked>>

\* A failed statement is logged and counts as no rows.
StatementFails ==
    /\ stack # <<>> /\ Asking
    /\ Fetched(<<>>)
    /\ failed' = failed \cup {JoinOf(Top).index_field}
    /\ UNCHANGED <<call, version, asked>>

\* The call for nested joins returns.
Return ==
    /\ Len(stack) > 1 /\ ~Filling(Top)
    /\ LET outer == Last(Front(stack)) IN
       stack' = Append(Front(Front(stack)),
                       Filled(outer, Attach(outer.sources, JoinOf(outer), Top.sources)))
    /\ UNCHANGED <<call, version, asked, failed>>

\* The outermost call returns.
Finished == Len(stack) = 1 /\ ~Filling(Top)

\* The search is answered or dropped at an await.
Forget ==
    /\ call' = NoCall /\ stack' = <<>> /\ failed' = {} /\ asked' = version
    /\ UNCHANGED version

\* Another client changes the tables.
Write ==
    /\ version < Len(Tables)
    /\ version' = version + 1
    /\ UNCHANGED <<call, stack, asked, failed>>

Enrich == Return \/ SkipJoin \/ NoKeys \/ StatementFails \/ Statement

EnrichNext == Enrich \/ Forget \/ Write \/ \E c \in Calls : Call(c.sources, c.joins)

EnrichSpec == EnrichInit /\ [][EnrichNext]_enrichVars
-----------------------------------------------------------------------------
(* Properties.                                                             *)

\* The sources keep their number, and so the hits their scores, whatever the
\* joins do, and each call under way is for the join its caller is at.
StackOK ==
    /\ asked \in 1..version /\ version \in 1..Len(Tables)
    /\ stack # <<>> =>
          Len(stack[1].sources) = Len(call.sources) /\ stack[1].joins = call.joins
    /\ \A n \in DOMAIN stack : stack[n].filled \in 0..Len(stack[n].joins)
    /\ \A n \in 2..Len(stack) :
          Filling(stack[n - 1]) /\ stack[n].joins = JoinOf(stack[n - 1]).join_fields

\* What a source shows for a join.
Attached(source, jf) ==
    LET v == Field(source, jf.index_field) IN IF Kind(v) = "arr" THEN Range(v.arr) ELSE {}

Children(sources, jf) == UNION {Attached(s, jf) : s \in sources}

\* The row a child was made from.
RowOf(child, jf) ==
    [obj |-> Restrict(child.obj,
                DOMAIN child.obj \ {nested.index_field : nested \in Range(jf.join_fields)})]

\* The join shows the rows that one of the versions of the tables has for the
\* keys of the sources, or nothing if its statement is one that failed.
ShowsOneVersion(sources, jf, versions, without) ==
    \/ jf.index_field \in without /\ Children(sources, jf) = {}
    \/ \E v \in versions :
          {RowOf(c, jf) : c \in Children(sources, jf)} = RowsWithKey(v, jf, Keys(sources, jf))

\* Every object has its list, and the children in it have its key.
UnderTheirKey(sources, jf) ==
    \A s \in sources :
        /\ Kind(s) = "obj" => Kind(Field(s, jf.index_field)) = "arr"
        /\ \A c \in Attached(s, jf) : KeyOf(c, jf.foreign_field) = KeyOf(s, jf.local_field)

\* The sources themselves and their children at every level, each with the
\* joins they are the sources of.
Levels(sources, joins) ==
    LET level[n \in 0..Depth] ==
            IF n = 0 THEN {<<sources, joins>>}
            ELSE UNION {{<<Children(at[1], jf), jf.join_fields>> : jf \in Range(at[2])} :
                           at \in level[n - 1]}
    IN  UNION Range(level)

Enriched(sources, joins, versions, without) ==
    \A at \in Levels(sources, joins) : \A jf \in Range(at[2]) :
        ShowsOneVersion(at[1], jf, versions, without) /\ UnderTheirKey(at[1], jf)

\* When the call returns, the hits show, join by join and at every level, all
\* the rows the tables held at one moment after the hits were found, under
\* parents with their key, or none where the statement failed: nothing of the
\* indexed document's own children is left, and rows of two moments are never
\* mixed in one join (es_batch_enrich).
EnrichedFromOneStatement ==
    Finished => Enriched(Range(stack[1].sources), call.joins, asked..version, failed)
=============================================================================
