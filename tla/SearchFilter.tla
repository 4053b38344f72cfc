----------------------------- MODULE SearchFilter -----------------------------
(***************************************************************************)
(* The filter argument of a search{Index} field                            *)
(* (src/schema/search/operator.rs): which filters the generated input      *)
(* types accept, and the clauses they are compiled to.                     *)
(*                                                                         *)
(* A filter is a JSON value.                                               *)
(***************************************************************************)
EXTENDS EsQuery, SearchConfig

CONSTANT Columns  \* table -> column -> type: the columns of TableConfig

STRING_OPERATORS == {"eq", "ne", "in", "all", "contains", "starts_with", "ends_with"}
NUMERIC_OPERATORS == {"eq", "ne", "in", "all", "gt", "gte", "lt", "lte"}
BOOLEAN_OPERATORS == {"eq", "ne"}

AllOperators == STRING_OPERATORS \cup NUMERIC_OPERATORS \cup BOOLEAN_OPERATORS

ListOperators == {"in", "all"}

\* operator_inputs: the operators of a type and the scalars GraphQL takes for
\* them.  BigInt is a scalar without a validator.
OperatorInputs ==
    [StringOperatorsInput  |-> [ops |-> STRING_OPERATORS, scalars |-> {"str"}],
     IntOperatorsInput     |-> [ops |-> NUMERIC_OPERATORS, scalars |-> {"int"}],
     BigIntOperatorsInput  |-> [ops |-> NUMERIC_OPERATORS,
                                scalars |-> {"str", "int", "float", "bool"}],
     FloatOperatorsInput   |-> [ops |-> NUMERIC_OPERATORS, scalars |-> {"int", "float"}],
     BooleanOperatorsInput |-> [ops |-> BOOLEAN_OPERATORS, scalars |-> {"bool"}]]

OperatorTypeName(type) ==
    CASE type = "int" -> "IntOperatorsInput"
      [] type = "int64" -> "BigIntOperatorsInput"
      [] type = "float" -> "FloatOperatorsInput"
      [] type = "boolean" -> "BooleanOperatorsInput"
      [] OTHER -> "StringOperatorsInput"

\* A column the table does not list is taken for text.
FieldInput(table, field) ==
    IF table \in DOMAIN Columns /\ field \in DOMAIN Columns[table]
    THEN OperatorInputs[OperatorTypeName(Columns[table][field])]
    ELSE OperatorInputs["StringOperatorsInput"]

\* Every input field is nullable, the items of a list are not.
OperandAccepted(v, op, scalars) ==
    \/ Kind(v) = "null"
    \/ /\ op \in ListOperators /\ Kind(v) = "arr"
       /\ \A item \in Range(v.arr) : Kind(item) \in scalars
    \/ op \notin ListOperators /\ Kind(v) \in scalars

OperatorsAccepted(v, input) ==
    \/ Kind(v) = "null"
    \/ /\ Kind(v) = "obj"
       /\ \A op \in DOMAIN v.obj :
             op \in input.ops /\ OperandAccepted(v.obj[op], op, input.scalars)

\* The values that a document, or a filter, has at each join of a configuration,
\* at the joins of that join and so on down, with the path that leads there.
Parts(v, cfg, depth) ==
    LET part[n \in 0..(Depth + 2)] ==
            IF n = 0 THEN {[path |-> <<>>, cfg |-> cfg, val |-> {v}]}
            ELSE UNION {{[path |-> Append(at.path, jf.index_field), cfg |-> jf,
                          val |-> Inside(at.val, jf.index_field)] : jf \in Range(at.cfg.join_fields)} :
                           at \in part[n - 1]}
    IN  UNION {part[n] : n \in 0..depth}

\* build_search_filter_input and build_nested_search_filters: an input type has
\* a field for each searchable field and one for each join.
InputAccepted(v, cfg) ==
    \/ Kind(v) = "null"
    \/ /\ Kind(v) = "obj"
       /\ \A key \in DOMAIN v.obj :
             \/ /\ key \in cfg.searchable_fields
                /\ OperatorsAccepted(v.obj[key], FieldInput(cfg.table, key))
             \/ \E jf \in Range(cfg.join_fields) : jf.index_field = key

\* One level further than joins nest, there is nothing to accept.
FilterAccepted(v, cfg) ==
    \A at \in Parts(v, cfg, Depth + 1) : \A given \in at.val : InputAccepted(given, at.cfg)

IsOperatorObject(keys) == keys \cap AllOperators # {}

StringFieldPath(path) == IF Last(path) = "keyword" THEN path ELSE Append(path, "keyword")

Term(field, v) == [kind |-> "term", field |-> field, val |-> v]

Not(clause) == [kind |-> "bool", body |-> [must_not |-> {clause}]]

\* Mutant: an empty list matches nothing.
AnyOfNone(field, vs) == {[kind |-> "terms", field |-> field, vals |-> vs]}

AnyOf(field, vs) == {[kind |-> "terms", field |-> field, vals |-> vs] : v \in vs}

\* Null, an empty text where a text is looked for, an empty list and a range
\* bound that is no number give no clause.
OperatorClauses(field, ops) ==
    LET given(op, kinds) == {v \in {ops[o] : o \in DOMAIN ops \cap {op}} : Kind(v) \in kinds}
        scalars(op) == given(op, {"str", "int", "float", "bool"})
        texts(op) == {v.str : v \in given(op, {"str"})} \ {<<>>}
        lists(op) == {{v \in Range(list.arr) : Kind(v) \in {"str", "int", "float"}} :
                        list \in given(op, {"arr"})}
        bare == IF Last(field) = "keyword" THEN Front(field) ELSE field
    IN  UNION {
          {Term(field, v) : v \in scalars("eq")},
          {Not(Term(field, v)) : v \in scalars("ne")},
          UNION {AnyOf(field, vs) : vs \in lists("in")},
          {Term(field, v) : v \in UNION lists("all")},
          {[kind |-> "match_phrase", field |-> bare, val |-> s] : s \in texts("contains")},
          {[kind |-> "prefix", field |-> field, val |-> s] : s \in texts("starts_with")},
          {[kind |-> "wildcard", field |-> field, val |-> <<"*">> \o s] : s \in texts("ends_with")},
          UNION {{[kind |-> "range", field |-> field, op |-> op, val |-> v] :
                    v \in given(op, {"int", "float"})} : op \in {"gt", "gte", "lt", "lte"}}}

\* An object with a key that names an operator holds operators.
HoldsOperators(v) == Kind(v) = "obj" /\ IsOperatorObject(DOMAIN v.obj)

ChildClauses(path, child) ==
    CASE HoldsOperators(child) -> OperatorClauses(StringFieldPath(path), child.obj)
      [] IsNumber(child) \/ (Kind(child) = "str" /\ child.str # <<>>) -> {Term(path, child)}
      [] OTHER -> {}

\* build_es_filter_val: any other object holds nested fields.
BuildEsFilter(v) ==
    LET nested(obj) == {key \in DOMAIN obj : Kind(obj[key]) = "obj" /\ ~HoldsOperators(obj[key])}
        fields[n \in 0..Depth] ==
            IF n = 0 THEN {[path |-> <<>>, obj |-> w.obj] : w \in {w \in {v} : Kind(w) = "obj"}}
            ELSE UNION {{[path |-> Append(at.path, key), obj |-> at.obj[key].obj] :
                            key \in nested(at.obj)} : at \in fields[n - 1]}
    IN  UNION {UNION {ChildClauses(Append(at.path, key), at.obj[key]) : key \in DOMAIN at.obj} :
                  at \in UNION {fields[n] : n \in 0..Depth}}
=============================================================================
