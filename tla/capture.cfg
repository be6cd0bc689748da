SPECIFICATION Spec
CONSTANTS
    Builds <- MCBuilds
    MaxFaults = 3
INVARIANTS OneImagePerTouch LeavesClean
PROPERTY CancelEnds
