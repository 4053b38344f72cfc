\* Every table with two values a column, and every request on it.
SPECIFICATION Spec
CONSTANTS
    Null = Null
    MaxInValues = 2
    Values = {1, 2}
    Columns <- MCColumns
    Pk <- MCPk
    Filters <- MCFilters
    Tables <- MCTables
    Identities <- MCIdentities
    ListArgs <- MCListArgs
    Inputs <- MCInputs
    DefaultLimit = 2
    MaxLimit = 2
INVARIANTS
    TypeOK
    StatementsWellFormed
    AnswersMeanTheRequest
    CreatedRowsHoldHeaders
    PagesCoverTable
PROPERTY OnlyMatchingRowsModified
