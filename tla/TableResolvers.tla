--------------------------- MODULE TableResolvers ---------------------------
(***************************************************************************)
(* The five fields the server generates for a table (src/schema/table.rs): *)
(* single and list query, create, update and delete.  Each compiles one    *)
(* statement, restricts it by the row filters of the caller's identity and *)
(* runs it, so requests interleave statement by statement.  A client pages *)
(* through a list by asking for the rows after those it has.  A request    *)
(* that the server or the database refuses changes nothing and leaves no   *)
(* trace here, whatever the reason.                                        *)
(***************************************************************************)
EXTENDS SqlStatement, FiniteSets

CONSTANTS
    Columns,       \* columns of the table, in order
    Pk,            \* those of the primary key, in order
    Values,        \* values of every column
    Filters,       \* row_filters of the table
    Tables,        \* the permission tables the filters read
    Identities,    \* identities requests carry: header -> value
    ListArgs,      \* [filter, where, order_by, limit] clients send
    Inputs,        \* inputs of mutations: column -> value or Null
    DefaultLimit, MaxLimit

ASSUME PkIsKey ==
    /\ Columns \in Seq(Range(Columns))
    /\ Pk \in Seq(Range(Columns)) /\ Pk # <<>>
ASSUME NullIsNoValue == Null \notin Values
ASSUME ValuesAreIntegers == Values \subseteq Int
ASSUME LimitsNatural == DefaultLimit \in Nat /\ MaxLimit \in Nat
ASSUME InputsTyped ==
    \A input \in Inputs : \A c \in DOMAIN input \cap Range(Columns) :
        input[c] \in Values \cup {Null}

\* The arguments as their GraphQL types admit them: columns of the table, and
\* a value for every operator, except that the list of `in` may be empty.
ASSUME ArgsTyped ==
    \A args \in ListArgs :
        /\ args.filter \in Seq(Range(args.filter))
        /\ \A p \in Range(args.filter) : p[1] \in Range(Columns)
        /\ args.where \in Seq(Range(args.where))
        /\ \A o \in Range(args.where) :
              /\ o.values \in Seq(Range(o.values))
              /\ o.op # "in" => o.values # <<>>
        /\ args.limit # Null => args.limit \in Int

\* A filter is no test of an operator.  The columns that headers set are
\* columns of the table outside its key, each set by one filter: so they are
\* configured (config.yaml:104, README.md:360), although nothing checks it.
ASSUME FiltersTyped ==
    /\ Filters \in Seq(Range(Filters))
    /\ \A i \in DOMAIN Filters :
          /\ "op" \notin DOMAIN Filters[i]
          /\ (Filters[i].kind = "column" /\ Filters[i].auto_set) =>
                /\ Filters[i].column \in Range(Columns) \ Range(Pk)
                /\ \A j \in DOMAIN Filters :
                      (/\ Filters[j].kind = "column" /\ Filters[j].auto_set
                       /\ Filters[j].column = Filters[i].column) => j = i

VARIABLES
    table,  \* set of rows: column -> value or Null
    last    \* the request just answered, with its statement and answer

vars == <<table, last>>

ColumnSet == Range(Columns)
RowSpace == [ColumnSet -> Values \cup {Null}]
KeyOf(row) == [i \in DOMAIN Pk |-> row[Pk[i]]]
PkValues == [DOMAIN Pk -> Values]

Quiet == [op |-> "none"]

Init ==
    /\ \E keys \in {k \in SUBSET PkValues : IsFiniteSet(k)} :
          \E row \in [keys -> RowSpace] :
             /\ \A k \in keys : KeyOf(row[k]) = k
             /\ table = {row[k] : k \in keys}
    /\ last = Quiet

\* The client has its answer.
Answered ==
    /\ last # Quiet
    /\ last' = Quiet
    /\ UNCHANGED table
-----------------------------------------------------------------------------
(* Queries.                                                                *)

Get(id, pk) ==
    LET stmt == WithRowFilters(Written(PkPart(Pk, pk, 1)), id, Filters)
        rows == Selected(stmt, table, Tables)
    IN  /\ last = Quiet
        /\ \E answer \in IF rows = {} THEN {{}} ELSE {{r} : r \in rows} :
              last' = [op |-> "get", id |-> id, pk |-> pk, stmt |-> stmt, answer |-> answer]
        /\ UNCHANGED table

\* limits.effective_limit, Null standing for an argument that is not given.
EffectiveLimit(requested) ==
    LET asked == IF requested = Null THEN DefaultLimit ELSE requested IN
    IF asked < MaxLimit THEN asked ELSE MaxLimit

\* The segments of order_by, [column, desc], that name a column.
Sanitized(order_by) == SelectSeq(order_by, LAMBDA seg : seg.column \in ColumnSet)

\* Mutant: nothing is added for a caller that did not sort.
OrderAsAsked(order_by) == Sanitized(order_by)

\* The primary key if the caller did not sort.
Order(order_by) ==
    IF Sanitized(order_by) # <<>> THEN Sanitized(order_by)
    ELSE [i \in DOMAIN Pk |-> [column |-> Pk[i], desc |-> FALSE]]

\* NULLs are sorted as the largest value.
Less(a, b) == a # Null /\ (b = Null \/ a < b)

Before(a, b, order) ==
    \E k \in DOMAIN order :
        /\ \A i \in 1..(k - 1) : a[order[i].column] = b[order[i].column]
        /\ LET c == order[k].column IN
           IF order[k].desc THEN Less(b[c], a[c]) ELSE Less(a[c], b[c])

\* ORDER BY leaves the order of equal rows open, for every query anew.
Ordered(rows, order) ==
    {s \in SetToSeqs(rows) : \A i, j \in DOMAIN s : i < j => ~Before(s[j], s[i], order)}

\* The page after the rows in `got`, which the client has received so far.
Page(id, args, got) ==
    LET stmt == WithRowFilters(BothParts(args.filter, args.where, ColumnSet), id, Filters)
        rows == Selected(stmt, table, Tables)
        limit == EffectiveLimit(args.limit)
    IN  \E s \in Ordered(rows, Order(args.order_by)) :
          LET end == IF Len(got) + limit < Len(s) THEN Len(got) + limit ELSE Len(s)
              answer == SubSeq(s, Len(got) + 1, end)
          IN  last' = [op |-> "list", id |-> id, args |-> args, stmt |-> stmt,
                       offset |-> Len(got), answer |-> answer, got |-> got \o answer]

List(id, args) ==
    /\ last = Quiet
    /\ ~WhereFails(args.where)
    /\ args.limit # Null => args.limit >= 0
    /\ Page(id, args, <<>>)
    /\ UNCHANGED table

NextPage ==
    /\ last.op = "list" /\ last.answer # <<>>
    /\ Page(last.id, last.args, last.got)
    /\ UNCHANGED table
-----------------------------------------------------------------------------
(* Mutations.                                                              *)

\* The positions of the filters that set their column.
AutoSet == {i \in DOMAIN Filters : Filters[i].kind = "column" /\ Filters[i].auto_set}
AutoSetColumns == {Filters[i].column : i \in AutoSet}

\* Mutant: the input may set the columns of the row filters.
InputBindsAll(input) == {c \in ColumnSet : c \in DOMAIN input /\ input[c] # Null}

\* create_column_binds: nulls are skipped, auto-set columns are not taken
\* from the input.
InputBinds(input) ==
    {c \in ColumnSet : c \in DOMAIN input /\ input[c] # Null /\ c \notin AutoSetColumns}

\* The auto-set columns whose header the identity has.
HeaderBinds(id) == {i \in AutoSet : Matches(Filters[i], id)}

\* The database refuses a statement that names no column, or one twice.
\* Columns that are not written get their default: NULL, or for a key column
\* a value from its sequence.
Create(id, input) ==
    LET given == InputBinds(input)
        headers == HeaderBinds(id)
        named == given \cup {Filters[i].column : i \in headers}
    IN  /\ last = Quiet
        /\ named # {}
        /\ \A i \in headers :
              /\ Filters[i].column \notin given
              /\ \A j \in headers : Filters[j].column = Filters[i].column => j = i
        /\ \E row \in RowSpace :
              /\ \A c \in given : row[c] = input[c]
              /\ \A i \in headers : row[Filters[i].column] = id[Filters[i].from_header]
              /\ \A c \in ColumnSet \ named :
                    IF c \in Range(Pk) THEN row[c] # Null ELSE row[c] = Null
              /\ KeyOf(row) \notin {KeyOf(r) : r \in table}
              /\ table' = table \cup {row}
              /\ last' = [op |-> "create", id |-> id, answer |-> {row}]

\* update_column_binds: `col = NULL` binds nothing.
SetColumns(input) == ColumnSet \cap DOMAIN input
SetParams(input) ==
    AddConditions(NoConditions,
        [i \in DOMAIN Columns |->
            IF Columns[i] \notin SetColumns(input) \/ input[Columns[i]] = Null THEN Skip
            ELSE Test(Columns[i], "eq", <<input[Columns[i]]>>)], 1).params

\* Mutant: the row filters are not applied.
UpdateStatementUnfiltered(id, pk, input) ==
    LET where == Written(PkPart(Pk, pk, Len(SetParams(input)) + 1)) IN
    [conds |-> where.conds, params |-> SetParams(input) \o where.params]

\* The key and the row filters number their parameters after those of SET.
UpdateStatement(id, pk, input) ==
    LET where == Written(PkPart(Pk, pk, Len(SetParams(input)) + 1)) IN
    WithRowFilters([conds |-> where.conds, params |-> SetParams(input) \o where.params],
                   id, Filters)

\* Mutant: a null is bound as its text, which is no value of the column.
ChangedToText(row, input) ==
    [c \in ColumnSet |->
        IF c \notin SetColumns(input) THEN row[c]
        ELSE IF input[c] = Null THEN 0 ELSE input[c]]

Changed(row, input) ==
    [c \in ColumnSet |-> IF c \in SetColumns(input) THEN input[c] ELSE row[c]]

\* An input without a column makes the statement "SET  WHERE ...", which the
\* database refuses, and a row that is not found makes the answer an error.
Update(id, pk, input) ==
    LET stmt == UpdateStatement(id, pk, input)
        rows == Selected(stmt, table, Tables)
        changed == {Changed(r, input) : r \in rows}
        kept == table \ rows
    IN  /\ last = Quiet
        /\ SetColumns(input) # {}
        /\ rows # {}
        /\ \A r \in changed : Null \notin Range(KeyOf(r))
                              /\ \A t \in kept : KeyOf(r) # KeyOf(t)
        /\ table' = kept \cup changed
        /\ last' = [op |-> "update", id |-> id, pk |-> pk, stmt |-> stmt,
                    set |-> Len(SetParams(input)), answer |-> changed]

Delete(id, pk) ==
    LET stmt == WithRowFilters(Written(PkPart(Pk, pk, 1)), id, Filters)
        rows == Selected(stmt, table, Tables)
    IN  /\ last = Quiet
        /\ rows # {}
        /\ table' = table \ rows
        /\ last' = [op |-> "delete", id |-> id, pk |-> pk, stmt |-> stmt, answer |-> rows]

Next ==
    \/ \E id \in Identities :
          \/ \E pk \in PkValues : Get(id, pk) \/ Delete(id, pk)
          \/ \E args \in ListArgs : List(id, args)
          \/ \E input \in Inputs : Create(id, input)
          \/ \E pk \in PkValues, input \in Inputs : Update(id, pk, input)
    \/ NextPage
    \/ Answered

Spec == Init /\ [][Next]_vars
-----------------------------------------------------------------------------
(* Properties.                                                             *)

\* Types, and unique keys without NULL.
TypeOK ==
    /\ table \subseteq RowSpace
    /\ \A r \in table : Null \notin Range(KeyOf(r))
    /\ \A r, s \in table : KeyOf(r) = KeyOf(s) => r = s
    /\ last.op \in {"none", "get", "list", "create", "update", "delete"}

\* Whatever arguments and filters meet, PostgreSQL can parse and bind the
\* statement: one WHERE before everything, parameters numbered without gap.
StatementsWellFormed ==
    "stmt" \in DOMAIN last =>
        WellFormed(last.stmt, IF last.op = "update" THEN 1..last.set ELSE {})

\* What the arguments ask for, and the row filters leave.
Wanted(id, args) ==
    {r \in table :
        /\ \A p \in Range(args.filter) : p[2] # Null => r[p[1]] = p[2]
        /\ \A o \in Range(args.where) : OpHolds(r, o.column, o.op, o.values)
        /\ SqlAllows(r, id, Filters, Tables)}

\* "Row filters still apply on top of `where`" (README.md:236): a query
\* returns the rows that meet every one of its conditions, each compared
\* with its own value, and nothing else; a list, as many as fit.
AnswersMeanTheRequest ==
    /\ last.op = "get" =>
          last.answer = {r \in table : KeyOf(r) = last.pk /\ SqlAllows(r, last.id, Filters, Tables)}
    /\ last.op = "list" =>
          LET left == Cardinality(Wanted(last.id, last.args)) - last.offset
              limit == EffectiveLimit(last.args.limit)
          IN  /\ Range(last.answer) \subseteq Wanted(last.id, last.args)
              /\ Len(last.answer) = IF left < limit THEN left ELSE limit

\* "Updates/Deletes: row filter is applied so only rows matching the header
\* value can be modified" (README.md:365), and of those the one named only.
OnlyMatchingRowsModified ==
    [][ \A r \in table \ table' :
            KeyOf(r) = last'.pk /\ SqlAllows(r, last'.id, Filters, Tables) ]_vars

\* "User-supplied values for tenant_id are silently ignored and the column is
\* populated from the header instead" (README.md:364).
CreatedRowsHoldHeaders ==
    last.op = "create" =>
        \A r \in last.answer, i \in AutoSet :
            r[Filters[i].column] = IF Matches(Filters[i], last.id)
                                   THEN last.id[Filters[i].from_header] ELSE Null

\* "List queries are ordered by primary key unless order_by is given, so
\* offset paging is stable" (README.md:248): a client that pages until it
\* gets nothing has every row once, if nobody wrote meanwhile.
PagesCoverTable ==
    (/\ last.op = "list" /\ last.answer = <<>>
     /\ Sanitized(last.args.order_by) = <<>>
     /\ EffectiveLimit(last.args.limit) > 0)
        => IsInjective(last.got) /\ Range(last.got) = Wanted(last.id, last.args)
=============================================================================
