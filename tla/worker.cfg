SPECIFICATION FairSpec
CONSTANTS
    c1 = c1
    c2 = c2
    c3 = c3
    Callers <- MCCallers
    Worker = worker
    NoOne = noone
    MaxPosts = 3
INVARIANTS
    NoLostWakeup
    JoinMeansIdle
    EachTaskOnce
PROPERTIES
    CallsReturn
    ImplementsRunner
CHECK_DEADLOCK FALSE
