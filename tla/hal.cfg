SPECIFICATION FairSpec
CONSTANTS
    a1 = a1
    a2 = a2
    n1 = n1
    Api <- MCApi
    NavApi <- MCNavApi
    HalW = halw
    NavW = navw
    Opener = a1
    NoOne = noone
    MaxToggles = 2
INVARIANTS
    OnlyChallengeOverlaps
    CancelScoped
    NavNotLeftPaused
    CanceledIsFinal
PROPERTIES
    CallsReturn
CHECK_DEADLOCK FALSE
