SPECIFICATION TestSpec
CONSTANTS
    Scenarios <- MCScenarios
    MaxStarts = 2
    MaxCalls = 1
    MaxFaults = 1
CHECK_DEADLOCK FALSE
INVARIANTS PassMeansGood SelfTestCleaned OwnAnswer
PROPERTY TestsEnd
