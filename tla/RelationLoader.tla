--------------------------- MODULE RelationLoader ---------------------------
(***************************************************************************)
(* The batched relation resolver (src/schema/relation.rs): one DataLoader  *)
(* serves the whole schema, so the loads of every request and identity     *)
(* that fall into one coalescing window go to one call of `load`, which    *)
(* groups their keys by RelSpec and runs one query for every group, one    *)
(* after the other, while the table changes between them.                  *)
(*                                                                         *)
(* The row filters are part of the key: `filter` stands for filter_suffix  *)
(* and filter_params, isList for the rest of the spec.                     *)
(***************************************************************************)
EXTENDS FiniteSets, Functions

CONSTANTS Loads, Rows, None, Empty, Fks, Tenants, RowTypes, Assignments,
    MaxWrites  \* bound on the writes of one behaviour

ASSUME AssignmentsOfKeys ==
    Assignments \subseteq [Loads -> [isList : BOOLEAN, filter : Tenants \cup {None}, fk : Fks]]
ASSUME RowTypesOfRows == RowTypes \subseteq [fk : Fks \cup {None}, tenant : Tenants \cup {None}]
ASSUME NoneIsNoValue == None \notin Tenants \cup Fks /\ None \notin RowTypes
ASSUME EmptyIsAValue == Empty \in Fks

VARIABLES
    rows,      \* the related table
    key,       \* RelKey of every load
    status,    \* "idle", "waiting", "done", "failed" or "dropped"
    value,     \* what every load was answered
    pending,   \* loads the current window has collected
    batches,   \* calls of `load` under way
    writes     \* history: writes so far

vars == <<rows, key, status, value, pending, batches, writes>>

\* The load waits for a batch that has read its rows already.
HasRead(l) ==
    status[l] = "waiting" /\ \E b \in batches : l \in b.loads /\ key[l] \in DOMAIN b.out

BatchOf(l) == CHOOSE b \in batches : l \in b.loads

rowStatus == [l \in Loads |-> IF HasRead(l) THEN "read" ELSE status[l]]
rowValue == [l \in Loads |-> IF HasRead(l) THEN BatchOf(l).out[key[l]] ELSE value[l]]

PerRow == INSTANCE PerRowRelations WITH status <- rowStatus, value <- rowValue

Keys == PerRow!Keys

\* Mutant: the identity's row filters are not part of the spec.
SameTable(j, k) == j.isList = k.isList

\* Two keys go to the same query if their specs are equal.
SameSpec(j, k) == j.isList = k.isList /\ j.filter = k.filter

\* build_batch_query: the rows of every foreign key of the group at once,
\* under the filters of its spec.
BatchRows(group) ==
    LET spec == CHOOSE k \in group : TRUE IN
    {r \in Rows : /\ rows[r] # None
                  /\ rows[r].fk \in {k.fk : k \in group}
                  /\ spec.filter # None => rows[r].tenant = spec.filter}

\* The children of one key (by_fk), as relation_field_value shapes them: a
\* single row is the first of an unordered aggregate.
Children(group, k) ==
    LET s == {r \in BatchRows(group) : rows[r].fk = k.fk} IN
    IF k.isList \/ s = {} THEN {s} ELSE {{r} : r \in s}

Init ==
    /\ rows \in [Rows -> RowTypes \cup {None}]
    /\ key \in Assignments
    /\ status = [l \in Loads |-> "idle"]
    /\ value = [l \in Loads |-> None]
    /\ pending = {}
    /\ batches = {}
    /\ writes = 0
-----------------------------------------------------------------------------
\* Any other statement on the table: a row is inserted, changed or deleted.
Write(r, new) ==
    /\ writes < MaxWrites
    /\ writes' = writes + 1
    /\ rows' = [rows EXCEPT ![r] = new]
    /\ UNCHANGED <<key, status, value, pending, batches>>

\* load_many: the key joins the current window.
Call(l) ==
    /\ status[l] = "idle"
    /\ status' = [status EXCEPT ![l] = "waiting"]
    /\ pending' = pending \cup {l}
    /\ UNCHANGED <<rows, key, value, batches, writes>>

\* Mutant: no timer, only a full window is dispatched.
DispatchWhenFull ==
    /\ pending = Loads
    /\ batches' = batches \cup
          {[loads |-> pending, todo |-> {key[l] : l \in pending}, out |-> <<>>]}
    /\ pending' = {}
    /\ UNCHANGED <<rows, key, status, value, writes>>

\* The window ends, after 1 ms or at max_batch_size; equal keys are one.
Dispatch ==
    /\ pending # {}
    /\ batches' = batches \cup
          {[loads |-> pending, todo |-> {key[l] : l \in pending}, out |-> <<>>]}
    /\ pending' = {}
    /\ UNCHANGED <<rows, key, status, value, writes>>

\* `grouped`: the open keys whose spec is that of `first`.
Group(b, first) == {k \in b.todo : SameSpec(first, k)}

\* The batch once the rows found for a group are stored under their keys.
Stored(b, group, found) ==
    [loads |-> b.loads,
     todo |-> b.todo \ group,
     out |-> [k \in DOMAIN b.out \cup group |-> IF k \in group THEN found[k] ELSE b.out[k]]]

\* One query, for one group, while the others wait.
ReadGroup(b, group) ==
    /\ \E found \in [group -> SUBSET Rows] :
          /\ \A k \in group : found[k] \in Children(group, k)
          /\ batches' = (batches \ {b}) \cup {Stored(b, group, found)}
    /\ UNCHANGED <<rows, key, status, value, pending, writes>>

RunGroup(b) == \E first \in b.todo : ReadGroup(b, Group(b, first))

\* Mutant: the batch is given up and nobody is told.
GroupFailsSilently(b) ==
    /\ b.todo # {}
    /\ batches' = batches \ {b}
    /\ UNCHANGED <<rows, key, status, value, pending, writes>>

\* A query fails: `?` gives up the whole batch, its other groups included.
GroupFails(b) ==
    /\ b.todo # {}
    /\ batches' = batches \ {b}
    /\ status' = [l \in Loads |->
          IF l \in b.loads /\ status[l] = "waiting" THEN "failed" ELSE status[l]]
    /\ UNCHANGED <<rows, key, value, pending, writes>>

\* `load` returns and every load that still waits gets its key's children.
Deliver(b) ==
    /\ b.todo = {}
    /\ batches' = batches \ {b}
    /\ status' = [l \in Loads |->
          IF l \in b.loads /\ status[l] = "waiting" THEN "done" ELSE status[l]]
    /\ value' = [l \in Loads |->
          IF l \in b.loads /\ status[l] = "waiting" THEN b.out[key[l]] ELSE value[l]]
    /\ UNCHANGED <<rows, key, pending, writes>>

\* The request is dropped; its key stays in the window or the batch.
Drop(l) ==
    /\ status[l] = "waiting"
    /\ status' = [status EXCEPT ![l] = "dropped"]
    /\ UNCHANGED <<rows, key, value, pending, batches, writes>>

Load(b) == RunGroup(b) \/ GroupFails(b) \/ Deliver(b)

Next ==
    \/ \E r \in Rows, new \in RowTypes \cup {None} : Write(r, new)
    \/ \E l \in Loads : Call(l) \/ Drop(l)
    \/ Dispatch
    \/ \E b \in batches : Load(b)

Spec == Init /\ [][Next]_vars

\* The window's timer fires and the database answers or the query fails.
FairSpec == Spec /\ WF_vars(Dispatch) /\ WF_vars(\E b \in batches : Load(b))
-----------------------------------------------------------------------------
(* Properties.                                                             *)

\* Types; a load in the window or in a batch waits or was dropped, a load that
\* waits is in the window or in exactly one batch, and a batch has an answer
\* or a query to come for each of its keys.
TypeOK ==
    /\ rows \in [Rows -> RowTypes \cup {None}]
    /\ key \in [Loads -> Keys]
    /\ status \in [Loads -> {"idle", "waiting", "done", "failed", "dropped"}]
    /\ value \in [Loads -> (SUBSET Rows) \cup {None}]
    /\ \A l \in Loads : status[l] # "done" => value[l] = None
    /\ pending \subseteq Loads
    /\ \A b \in batches :
          /\ b \in [loads : SUBSET Loads, todo : SUBSET Keys, out : {b.out}]
          /\ b.loads \cap pending = {}
          /\ {key[l] : l \in b.loads} = b.todo \cup DOMAIN b.out
          /\ b.todo \cap DOMAIN b.out = {}
          /\ b.out \in [DOMAIN b.out -> SUBSET Rows]
    /\ \A b, c \in batches : b # c => b.loads \cap c.loads = {}
    /\ \A l \in Loads : status[l] = "waiting" =>
          l \in pending \/ \E b \in batches : l \in b.loads
    /\ \A l \in pending : status[l] \in {"waiting", "dropped"}
    /\ \A b \in batches : \A l \in b.loads : status[l] \in {"waiting", "dropped"}

\* "The values returned by batched relations [are] byte-identical to today's
\* per-row results" (.scratch/n1-relation-batching/spec.md:19), and row
\* filters of another identity never decide them: the batches implement one
\* query for every parent row.
ImplementsPerRow == PerRow!Spec

\* Every load that is not abandoned is answered, or told of an error.
EveryLoadEnds == \A l \in Loads : status[l] = "waiting" ~> status[l] # "waiting"
=============================================================================
