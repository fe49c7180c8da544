SPECIFICATION Spec
CONSTANTS
    Tables <- AllTables
    Asked <- SomeAsked
    MaxResultRows = 2
    MaxCellBytes = 3
    Exact = 8
INVARIANTS RowsReturned
