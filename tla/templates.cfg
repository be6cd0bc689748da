SPECIFICATION Spec
CONSTANTS
    Slots = 2
    NoKey = 101
    InvalidKey = 102
    d1 = d1
    d2 = d2
    d3 = d3
    d4 = d4
    DbIds <- MCDbIds
    NoDbId = nodbid
    MaxCrashes = 1
    MaxFailed = 2
    Scenarios <- MCScenarios
SYMMETRY MCSymmetry
INVARIANTS
    EnrolDurable
    RemovedStaysGone
    NoGhost
    AuthOnlyEnrolled
    AuthIdSettled
