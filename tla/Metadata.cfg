SPECIFICATION Spec
CONSTANTS
    NTables = 2
    Schemas <- AllSchemas
    MaxChanges = 2
INVARIANTS UnchangedIsExact IndexesKept FoundIfThere
