SPECIFICATION Spec
CONSTANTS
    Slots = 2
    U32 = 2
    U64 = 2
    U256 = 3
    Heap = 1000
    Dbs <- MCDbs
    OldVersions = {2, 3}
    MaxFaults = 3
    NULL = NULL
    NoFile = NoFile
INVARIANTS NeverAnother ReloadRestores
