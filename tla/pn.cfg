SPECIFICATION Spec
CONSTANTS
    Scenarios <- MCScenarios
    MaxFaults = 1
INVARIANT AnsweredOnce
PROPERTIES ReleaseAuthorised DoneMeansInUse RequestsEnd
CHECK_DEADLOCK FALSE
