SPECIFICATION FairSpec
CONSTANTS
    LowerCase <- MCLowerCase
    Columns <- MCColumns
    Requests <- MCRequests
    Docs <- MCDocs
    Joins <- MCJoins
    Calls <- MCCalls
    Tables <- MCTables
    MaxLimit <- MCMaxLimit
INVARIANTS
    TypeOK
    StackOK
    HitsMeanTheRequest
    EnrichedFromOneStatement
PROPERTIES
    EverySearchEnds
    EnrichesAPage
