-------------------------- MODULE MCSearchService --------------------------
(* SearchService on an index whose table has two subquery filters and a    *)
(* column filter; the permission tables change twice.                      *)
EXTENDS SearchService

Subquery(source, column, ttl) ==
    [kind |-> "subquery", from_header |-> "X-User-ID", columns |-> <<column>>,
     match_columns |-> <<column>>, from_source |-> source, user_column |-> "user_id",
     cache_ttl |-> ttl]

TeamColumn == [kind |-> "column", from_header |-> "X-Team", column |-> "team"]

\* A source of its own for each subquery filter.
MCFilters ==
    <<Subquery("user_regions", "region", 2), TeamColumn, Subquery("user_teams", "team", 1)>>

\* Both subquery filters read the same table by the same user column.
MCSharedFilters ==
    <<Subquery("user_permissions", "region", 2), Subquery("user_permissions", "team", 2)>>

Header(names, value) == [h \in names |-> value[h]]

MCIdentities ==
    {Header({}, <<>>),
     Header({"X-User-ID"}, [h \in {"X-User-ID"} |-> "ann"]),
     Header({"X-User-ID", "X-Team"}, [h \in {"X-User-ID", "X-Team"} |-> IF h = "X-Team" THEN "red" ELSE "bob"])}

MCDocs == [region: {"us", "us-west"}, team: {"red", "blue"}]

\* The regions are a text, of which the words are kept; the teams are keywords.
MCIndexed ==
    [region |-> [r \in {"us", "us-west"} |-> IF r = "us" THEN {"us"} ELSE {"us", "west"}],
     team |-> [t \in {"red", "blue"} |-> {t}]]

Row(user, region, team) == [user_id |-> user, region |-> region, team |-> team]

\* ann moves from one region and team to another; bob loses everything.
Contents(rows) == [source \in {"user_regions", "user_teams", "user_permissions"} |-> rows]

MCTables ==
    <<Contents({Row("ann", "us-west", "red"), Row("bob", "us", "red"), Row("bob", "us-west", "red")}),
      Contents({Row("ann", "us", "blue")})>>
=============================================================================
