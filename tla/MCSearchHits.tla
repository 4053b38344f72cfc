----------------------------- MODULE MCSearchHits -----------------------------
(***************************************************************************)
(* Three documents of one index, with nested joins (features and their     *)
(* attributes) and a many-to-one one (brands).  Requests differ from each  *)
(* other in one respect at a time.                                         *)
(***************************************************************************)
EXTENDS SearchHits

Str(s) == [str |-> s]
Num(n) == [int |-> n]
Obj(f) == [obj |-> f]
Arr(s) == [arr |-> s]
Null == [null |-> TRUE]

MCLowerCase == [A |-> "a"]

MCColumns ==
    [materials |-> [mat_no |-> "string", count |-> "int", weight |-> "float",
                    stock |-> "int64", active |-> "boolean"],
     features  |-> [name |-> "string", mat_no |-> "string"],
     attributes |-> [feature_id |-> "int"]]

Attributes ==
    [index_field |-> "feature_attributes", table |-> "attributes",
     local_field |-> "id", foreign_field |-> "feature_id",
     searchable_fields |-> {"value"}, join_fields |-> <<>>]

Features ==
    [index_field |-> "material_features", table |-> "features",
     local_field |-> "mat_no", foreign_field |-> "mat_no",
     searchable_fields |-> {"name"}, join_fields |-> <<Attributes>>]

Brands ==
    [index_field |-> "brands", table |-> "brands",
     local_field |-> "brand", foreign_field |-> "id",
     searchable_fields |-> {}, join_fields |-> <<>>]

Index(raw) ==
    [table |-> "materials", allow_raw_es_query |-> raw,
     searchable_fields |-> {"mat_no", "name", "count", "weight", "stock", "active"},
     join_fields |-> <<Features, Brands>>]

Attribute(id, feature, value) ==
    Obj([id |-> Num(id), feature_id |-> Num(feature), value |-> Str(value)])

Feature(id, mat_no, name) ==
    Obj([id |-> Num(id), mat_no |-> Str(mat_no), name |-> Str(name)])

\* A feature as the index has it, with its attributes.
Indexed(id, mat_no, name, value) ==
    Obj([id |-> Num(id), mat_no |-> Str(mat_no), name |-> Str(name),
         feature_attributes |-> Arr(<<Attribute(id, id, value)>>)])

Brand(id) == Obj([id |-> Num(id), owner |-> Str(<<"o">>)])

\* The first has two features, the third one without a name before the one with
\* it.  The third has no count and no brand, the second lacks its features and
\* shares the brand of the first, written as a text.
MCDocs == <<
    Obj([mat_no |-> Str(<<"1">>), name |-> Str(<<"A", "b">>), count |-> Num(1), brand |-> Num(7),
         weight |-> [float |-> 2], active |-> [bool |-> TRUE], owner |-> Str(<<"u">>),
         material_features |-> Arr(<<Indexed(1, <<"1">>, <<"c">>, <<"d">>),
                                   Indexed(2, <<"1">>, <<"b">>, <<"c">>)>>)]),
    Obj([mat_no |-> Str(<<"2">>), name |-> Str(<<"b", "a">>), count |-> Num(2), brand |-> Str(<<"7">>),
         weight |-> Num(2), active |-> [bool |-> FALSE], owner |-> Str(<<"v">>),
         material_features |-> Arr(<<>>)]),
    Obj([mat_no |-> Str(<<"3">>), name |-> Str(<<"a", "b", "a">>), stock |-> Num(1),
         owner |-> Str(<<"u">>),
         material_features |-> Arr(<<Obj([id |-> Num(4), mat_no |-> Str(<<"3">>), name |-> Null]),
                                   Indexed(3, <<"3">>, <<"b">>, <<"c">>)>>)])>>

\* Between the two contents a feature moves, an attribute comes, a brand goes.
MCTables == <<
    [features |-> {Feature(1, <<"1">>, <<"c">>), Feature(2, <<"1">>, <<"b">>), Feature(3, <<"3">>, <<"b">>)},
     attributes |-> {Attribute(1, 1, <<"d">>), Attribute(2, 2, <<"c">>)},
     brands |-> {Brand(7), Brand(8)}],
    [features |-> {Feature(1, <<"1">>, <<"c">>), Feature(2, <<"3">>, <<"b">>)},
     attributes |-> {Attribute(1, 1, <<"d">>), Attribute(2, 2, <<"c">>), Attribute(3, 1, <<"b">>)},
     brands |-> {Brand(8)}]>>

\* One operator of one field.
Op(field, op, v) == Obj(field :> Obj(op :> v))

Texts == {<<>>, <<"a">>, <<"b">>, <<"a", "b">>, <<"x">>}

Filters ==
    {Null, Obj(<<>>)}
    \cup {Op("name", op, Str(t)) : op \in {"eq", "ne", "contains", "starts_with", "ends_with"}, t \in Texts}
    \cup {Op("mat_no", op, Arr(l)) : op \in {"in", "all"},
            l \in {<<>>, <<Str(<<"1">>)>>, <<Str(<<"1">>), Str(<<"2">>)>>}}
    \cup {Op("count", op, Num(1)) : op \in {"eq", "ne", "gt", "gte", "lt", "lte"}}
    \cup {Op("stock", op, v) : op \in {"eq", "gt", "in"},
            v \in {Num(0), Num(1), Str(<<"1">>), Null, Arr(<<Num(1), [bool |-> TRUE]>>),
                  Arr(<<[bool |-> TRUE]>>)}}
    \cup {Op("weight", op, v) : op \in {"eq", "lte"}, v \in {Num(2), [float |-> 2], Str(<<"2">>)}}
    \cup {Op("active", op, [bool |-> b]) : op \in {"eq", "ne", "gt"}, b \in BOOLEAN}
    \cup {Obj("material_features" :> f) :
            f \in {Null, Op("name", "all", Arr(<<Str(<<"b">>), Str(<<"c">>)>>)),
                   Op("name", "eq", Str(<<"b">>)), Op("name", "ne", Str(<<"b">>)),
                   Obj("feature_attributes" :> Op("value", "contains", Str(<<"c">>)))}}
    \cup {Obj([name |-> Obj([starts_with |-> Str(<<"a">>), ends_with |-> Str(<<"a">>)]),
               material_features |-> Op("name", "contains", Str(<<"b">>))]),
          Obj("name" :> Str(<<"a">>)), Op("owner", "eq", Str(<<"u">>))}

OwnRows == Term(<<"owner">>, Str(<<"u">>))

\* What apply_es makes of no permissions, and of two.
NoRows == Term(<<"__no_match">>, Str(<<"__impossible">>))
OneOfRows ==
    [kind |-> "bool",
     body |-> [should |-> {[kind |-> "bool", body |-> [must |-> {Term(<<"mat_no">>, Str(<<m>>))}]] :
                                m \in {"2", "3"}}]]

Plain ==
    [query |-> <<>>, queryOperator |-> "OR", raw |-> [kind |-> "none"], filter |-> Null,
     limit |-> Null, offset |-> Null, rows |-> {}, index |-> Index(TRUE)]

MCRequests ==
    {[Plain EXCEPT !.filter = f] : f \in Filters}
    \cup {[Plain EXCEPT !.query = q, !.queryOperator = o, !.rows = rows, !.offset = offset] :
            q \in {<<<<"a">>>>, <<<<"b">>>>, <<<<"a">>, <<"c">>>>, <<<<"b">>, <<"A", "b">>, <<"d">>>>},
            o \in {"AND", "OR"}, rows \in {{}, {OneOfRows}}, offset \in {Null, Num(1)}}
    \cup {[Plain EXCEPT !.rows = rows, !.limit = limit, !.filter = f] :
            rows \in {{OwnRows}, {NoRows}, {OwnRows, OneOfRows}},
            limit \in {Null, Num(-1), Num(0), Num(1), Num(9)},
            f \in {Null, Op("name", "ne", Str(<<"b">>))}}
    \cup {[Plain EXCEPT !.raw = raw, !.rows = rows, !.index = Index(allowed)] :
            raw \in {[kind |-> "invalid"], Term(<<"count">>, Num(1)),
                     [kind |-> "range", field |-> <<"count">>, op |-> "gte", val |-> Num(1)]},
            rows \in {{}, {OwnRows}}, allowed \in BOOLEAN}
    \cup {[Plain EXCEPT !.query = <<<<"b">>>>, !.filter = Op("count", "gt", Num(1))]}

MCMaxLimit == 2

MCJoins == {Features, Attributes, Brands}

\* A page of the index.
MCCalls ==
    {[sources |-> sources, joins |-> Index(TRUE).join_fields] :
        sources \in UNION {[1..n -> Range(MCDocs)] : n \in 0..MCMaxLimit}}
=============================================================================
