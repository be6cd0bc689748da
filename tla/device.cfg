SPECIFICATION DeviceSpec
CONSTANTS
    Errors = {1, 10, 127}
    MaxOpens = 3
    MaxFaults = 4
CHECK_DEADLOCK FALSE
INVARIANTS NothingLeft UsesLive
PROPERTY CloseEnds
