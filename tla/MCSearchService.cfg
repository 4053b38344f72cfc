SPECIFICATION FairSpec
CONSTANTS
    Searches = {s1, s2}
    Filters <- MCFilters
    Identities <- MCIdentities
    Docs <- MCDocs
    Indexed <- MCIndexed
    Tables <- MCTables
INVARIANTS
    TypeOK
    EsAgreesWithSql
    AllFiltersApplied
PROPERTIES
    LiveEntryKept
    RevocationTakesEffect
