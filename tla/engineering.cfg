SPECIFICATION EngineeringSpec
CONSTANTS
    Scenarios <- MCScenarios
    MaxStarts = 2
    MaxFailures = 1
CHECK_DEADLOCK FALSE
INVARIANTS OwnAnswer TestDbContained
PROPERTY CapturesEnd
