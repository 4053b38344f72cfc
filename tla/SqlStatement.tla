---------------------------- MODULE SqlStatement ----------------------------
(***************************************************************************)
(* The statements the table resolvers compile (src/schema/table.rs,        *)
(* where_filter.rs, row_filter.rs) and what PostgreSQL makes of them.      *)
(*                                                                         *)
(* A statement is its conditions in the order they are written and the     *)
(* parameters bound to it.  A condition is written after "WHERE" or "AND", *)
(* tests a column by an operator or applies a row filter, and names its    *)
(* parameters by number; a parameter is bound by position.  Whether the    *)
(* numbers meet the positions is up to the code that writes them.  Column  *)
(* values are integers, or Null.                                           *)
(***************************************************************************)
EXTENDS RowFilter, SequencesExt

CONSTANTS
    Null,
    MaxInValues  \* MAX_IN_VALUES, the longest `in` list

NoConditions == [conds |-> <<>>, params |-> <<>>]

\* A test with the values it binds, and one that is left out.
Test(column, op, values) == [test |-> [column |-> column, op |-> op], values |-> values]
Skip == [test |-> "none", values |-> <<>>]

\* A condition more, whose numbers start at `first` past those of stmt.  It
\* is written after WHERE if nothing is bound so far, and after AND otherwise.
AddCondition(stmt, item, first) ==
    [conds |-> Append(stmt.conds, [conn |-> IF stmt.params = <<>> THEN "WHERE" ELSE "AND",
                   test |-> item.test,
                   at |-> [i \in DOMAIN item.values |-> first + Len(stmt.params) + i - 1]]),
     params |-> stmt.params \o item.values]

\* The loop over a list of tests, each of them a condition more unless it is
\* left out; upTo[n] is what stands after n of them.
AddConditions(stmt, items, first) ==
    LET upTo[n \in 0..Len(items)] ==
            IF n = 0 THEN stmt
            ELSE IF items[n] = Skip THEN upTo[n - 1]
            ELSE AddCondition(upTo[n - 1], items[n], first)
    IN  upTo[Len(items)]

\* The `filter` argument: <<column, value>> pairs; nulls and columns the
\* table has not are left out.
FilterPart(filter, columns) ==
    AddConditions(NoConditions,
        [i \in DOMAIN filter |->
            IF filter[i][2] = Null \/ filter[i][1] \notin columns THEN Skip
            ELSE Test(filter[i][1], "eq", <<filter[i][2]>>)], 1)

\* Mutant: the numbers do not continue those of `filter`.
WherePartFromOne(where, first) ==
    AddConditions(NoConditions,
        [i \in DOMAIN where |-> Test(where[i].column, where[i].op, where[i].values)], 1)

\* The `where` argument: operators [column, op, values], numbered from first.
WherePart(where, first) ==
    AddConditions(NoConditions,
        [i \in DOMAIN where |-> Test(where[i].column, where[i].op, where[i].values)], first)

\* compile_where returns an error.
WhereFails(where) ==
    \E o \in Range(where) : o.op = "in" /\ Len(o.values) \notin 1..MaxInValues

\* The parts of a list query and the key are joined: " WHERE " before the
\* first condition, " AND " between two.
Written(part) ==
    [conds |-> [i \in DOMAIN part.conds |->
         [conn |-> IF i = 1 THEN "WHERE" ELSE "AND",
          test |-> part.conds[i].test, at |-> part.conds[i].at]],
     params |-> part.params]

\* The two arguments of a list query, one after the other.
BothParts(filter, where, columns) ==
    LET f == FilterPart(filter, columns)
        w == WherePart(where, Len(f.params) + 1)
    IN  Written([conds |-> f.conds \o w.conds, params |-> f.params \o w.params])

\* Each filter that applies binds one value.
RowFilterTests(id, filters) ==
    [i \in DOMAIN filters |->
        IF ~Matches(filters[i], id) THEN Skip
        ELSE [test |-> filters[i], values |-> <<id[filters[i].from_header]>>]]

\* Mutant: written as if no condition came before.
WithRowFiltersAlone(stmt, id, filters) ==
    LET own == AddConditions(NoConditions, RowFilterTests(id, filters), Len(stmt.params) + 1)
    IN  [conds |-> stmt.conds \o own.conds, params |-> stmt.params \o own.params]

\* apply_row_filters.
WithRowFilters(stmt, id, filters) == AddConditions(stmt, RowFilterTests(id, filters), 1)

\* pk_where_clauses: the key columns and their values, numbered from start.
PkPart(pk, values, start) ==
    AddConditions(NoConditions, [i \in DOMAIN pk |-> Test(pk[i], "eq", <<values[i]>>)], start)
-----------------------------------------------------------------------------
(* What the database does with a statement.                                *)

\* A comparison with a missing value holds for no operator.
OpHolds(row, column, op, values) ==
    /\ row[column] # Null
    /\ CASE op = "eq" -> row[column] = values[1]
         [] op = "ne" -> row[column] # values[1]
         [] op = "lt" -> row[column] < values[1]
         [] op = "in" -> row[column] \in Range(values)

Holds(cond, row, params, tables) ==
    LET values == [i \in DOMAIN cond.at |-> params[cond.at[i]]] IN
    IF "op" \in DOMAIN cond.test THEN OpHolds(row, cond.test.column, cond.test.op, values)
    ELSE SqlClause(row, cond.test, values[1], tables)

\* One WHERE, then ANDs, and every parameter bound is named and vice versa.
\* `also` are the parameters named outside the conditions.
WellFormed(stmt, also) ==
    /\ \A i \in DOMAIN stmt.conds : stmt.conds[i].conn = IF i = 1 THEN "WHERE" ELSE "AND"
    /\ also \cup UNION {Range(c.at) : c \in Range(stmt.conds)} = DOMAIN stmt.params

Selected(stmt, table, tables) ==
    {row \in table : \A c \in Range(stmt.conds) : Holds(c, row, stmt.params, tables)}
=============================================================================
