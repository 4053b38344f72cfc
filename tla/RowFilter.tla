----------------------------- MODULE RowFilter -----------------------------
(***************************************************************************)
(* The row filters of src/schema/search/row_filter.rs as operators: which  *)
(* filters apply to an identity, what the SQL clause of each means, and    *)
(* what the rows of a subquery filter have to say to Elasticsearch.        *)
(*                                                                         *)
(* A filter is a RowFilterConfig: [kind |-> "column", from_header, column] *)
(* or [kind |-> "subquery", from_header, columns, match_columns,           *)
(* from_source, user_column, cache_ttl].  An identity maps the headers it  *)
(* has to their values.  A document or a row maps columns to values, and   *)
(* `tables` maps a source to its set of rows.                              *)
(***************************************************************************)
EXTENDS Integers, Sequences, Functions

\* matching_row_filters: a filter whose header is missing does not apply.
Matches(f, id) == f.from_header \in DOMAIN id

RowsOf(tables, f, value) == {row \in tables[f.from_source] : row[f.user_column] = value}

Project(row, columns) == [i \in DOMAIN columns |-> row[columns[i]]]

\* apply_row_filters: col = $n, or (cols) IN (SELECT match_cols ...).
SqlClause(doc, f, value, tables) ==
    CASE f.kind = "column" -> doc[f.column] = value
      [] f.kind = "subquery" ->
            Project(doc, f.columns)
                \in {Project(row, f.match_columns) : row \in RowsOf(tables, f, value)}

SqlAllows(doc, id, filters, tables) ==
    \A f \in Range(filters) :
        Matches(f, id) => SqlClause(doc, f, id[f.from_header], tables)

\* SELECT DISTINCT match_columns: rows as JSON objects of those columns only.
FetchRows(tables, f, value) ==
    {Restrict(row, Range(f.match_columns)) : row \in RowsOf(tables, f, value)}

\* The positions of a filter for which a fetched row has a term to give.
Terms(f, row) ==
    {i \in DOMAIN f.columns : i \in DOMAIN f.match_columns /\ f.match_columns[i] \in DOMAIN row}
=============================================================================
