-------------------------- MODULE PerRowRelations --------------------------
(***************************************************************************)
(* What a relation field promises, whatever batching happens behind it:    *)
(* every parent row gets what one query of its own would have returned at  *)
(* a moment between its call and its answer, restricted by the row filters *)
(* of the identity that asked.                                             *)
(***************************************************************************)
CONSTANTS
    Loads,        \* resolutions of a relation field, one for every parent row
    Rows,         \* rows of the related table
    None,         \* no row, no filter, no answer yet
    Empty,        \* the empty string, which a NULL foreign key becomes
    Fks,          \* values of foreign key columns, NULL aside
    Tenants,      \* values of the column the row filter tests
    RowTypes,     \* contents a row of the related table may have; a column
                  \* that is NULL, written None, is equal to nothing
    Assignments   \* the keys a behaviour's loads may have

\* A relation key: list or single row, the row filter compiled for the
\* identity (None without the header), the parent's foreign key as text.
Keys == [isList : BOOLEAN, filter : Tenants \cup {None}, fk : Fks]

VARIABLES
    rows,     \* the related table
    key,      \* what every load asks for
    status,   \* "idle", "waiting", "read", "done", "failed" or "dropped"
    value     \* what every load has read

vars == <<rows, key, status, value>>

Select(table, k) ==
    {r \in Rows : /\ table[r] # None
                  /\ table[r].fk = k.fk
                  /\ k.filter # None => table[r].tenant = k.filter}

\* All of them for has_many; for belongs_to any one, if there is one.
Answers(table, k) ==
    LET s == Select(table, k) IN
    IF k.isList \/ s = {} THEN {s} ELSE {{r} : r \in s}

Init ==
    /\ rows \in [Rows -> RowTypes \cup {None}]
    /\ key \in Assignments
    /\ status = [l \in Loads |-> "idle"]
    /\ value = [l \in Loads |-> None]

\* Some other statement changes the table.
Write ==
    /\ rows' \in [Rows -> RowTypes \cup {None}]
    /\ UNCHANGED <<key, status, value>>

Call(l) ==
    /\ status[l] = "idle"
    /\ status' = [status EXCEPT ![l] = "waiting"]
    /\ UNCHANGED <<rows, key, value>>

\* The loads of S read, all from the same table.
Read(S) ==
    /\ \A l \in S : status[l] = "waiting"
    /\ status' = [l \in Loads |-> IF l \in S THEN "read" ELSE status[l]]
    /\ \E answer \in [S -> SUBSET Rows] :
          /\ \A l \in S : answer[l] \in Answers(rows, key[l])
          /\ value' = [l \in Loads |-> IF l \in S THEN answer[l] ELSE value[l]]
    /\ UNCHANGED <<rows, key>>

Return(S) ==
    /\ \A l \in S : status[l] = "read"
    /\ status' = [l \in Loads |-> IF l \in S THEN "done" ELSE status[l]]
    /\ UNCHANGED <<rows, key, value>>

\* An error: nothing that was read is returned.
Fail(S) ==
    /\ \A l \in S : status[l] \in {"waiting", "read"}
    /\ status' = [l \in Loads |-> IF l \in S THEN "failed" ELSE status[l]]
    /\ value' = [l \in Loads |-> IF l \in S THEN None ELSE value[l]]
    /\ UNCHANGED <<rows, key>>

\* The client goes away.
Drop(l) ==
    /\ status[l] \in {"waiting", "read"}
    /\ status' = [status EXCEPT ![l] = "dropped"]
    /\ value' = [value EXCEPT ![l] = None]
    /\ UNCHANGED <<rows, key>>

Next ==
    \/ Write
    \/ \E l \in Loads : Call(l) \/ Drop(l)
    \/ \E S \in SUBSET Loads : Read(S) \/ Return(S) \/ Fail(S)

Spec == Init /\ [][Next]_vars
=============================================================================
