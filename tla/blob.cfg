SPECIFICATION Spec
CONSTANTS
    Dbs <- MCDbs
    Empty = "empty"
    NoDb = "nodb"
    SizeOf <- MCSizeOf
    MaxChunk = 2
    MaxTransfer = 6
    MaxFaults = 2
    MaxCrashes = 2
INVARIANTS
    SyncHeals
PROPERTIES
    ImplementsStorage
