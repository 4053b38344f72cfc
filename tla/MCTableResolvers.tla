-------------------------- MODULE MCTableResolvers --------------------------
(* TableResolvers on a table with a composite key whose rows are           *)
(* restricted by region, through a permission table, and by tenant.        *)
EXTENDS TableResolvers

MCColumns == <<"id", "region", "tenant_id">>
MCPk == <<"id", "region">>

MCFilters ==
    <<[kind |-> "subquery", from_header |-> "X-User-ID", columns |-> <<"region">>,
       match_columns |-> <<"region">>, from_source |-> "user_permissions",
       user_column |-> "user_id", cache_ttl |-> 1],
      [kind |-> "column", from_header |-> "X-Tenant-ID", column |-> "tenant_id",
       auto_set |-> TRUE]>>

\* User 1 may see one region, user 2 none.
MCTables ==
    [s \in {"user_permissions"} |-> {[user_id |-> 1, region |-> 2, tenant_id |-> 1]}]

Headers(names, value) == [h \in names |-> value]

MCIdentities ==
    {Headers({}, 1), Headers({"X-Tenant-ID"}, 1), Headers({"X-User-ID", "X-Tenant-ID"}, 1),
     Headers({"X-User-ID"}, 2)}

Op(column, op, values) == [column |-> column, op |-> op, values |-> values]
Args(filter, where, order_by, limit) ==
    [filter |-> filter, where |-> where, order_by |-> order_by, limit |-> limit]
By(column, desc) == <<[column |-> column, desc |-> desc]>>

\* Every way the two arguments combine, an `in` list that is refused, orders
\* that name a column or none, limits that are missing, clamped and refused.
MCListArgs ==
    {Args(filter, where, <<>>, 1) :
        filter \in {<<>>, <<<<"region", 2>>, <<"tenant_id", Null>>>>, <<<<"id", 1>>, <<"region", 2>>>>},
        where \in {<<>>, <<Op("tenant_id", "ne", <<2>>)>>,
                   <<Op("region", "in", <<1, 2>>), Op("id", "lt", <<2>>)>>}}
    \cup {Args(<<>>, <<Op("id", "in", <<>>)>>, <<>>, Null)}
    \cup {Args(<<>>, <<>>, By(column, TRUE), limit) :
              column \in {"tenant_id", "-id"}, limit \in {Null, 3, -1}}

MCInputs ==
    {[id |-> 1, region |-> 2], [id |-> 2, region |-> 1, tenant_id |-> 2],
     [region |-> 2, tenant_id |-> Null], [tenant_id |-> 2]}
=============================================================================
