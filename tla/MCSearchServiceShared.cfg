\* Two subquery filters that share a source and a user column.
SPECIFICATION Spec
CONSTANTS
    Searches = {s1, s2}
    Filters <- MCSharedFilters
    Identities <- MCIdentities
    Docs <- MCDocs
    Indexed <- MCIndexed
    Tables <- MCTables
INVARIANT EsAgreesWithSql
