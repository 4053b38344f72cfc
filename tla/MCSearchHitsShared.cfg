SPECIFICATION Spec
CONSTANTS
    LowerCase <- MCLowerCase
    Columns <- MCColumns
    Requests <- MCRequests
    Docs <- MCDocs
    Joins <- MCJoins
    Calls <- MCCalls
    Tables <- MCTables
    MaxLimit <- MCMaxLimit
INVARIANTS
    HitsCarryTheirRows
