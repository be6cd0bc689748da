SPECIFICATION Spec
CONSTANTS
    Slots = 2
    NoKey = 101
    InvalidKey = 102
    Groups <- MCGroups
    u1 = u1
    u2 = u2
    Users <- MCUsers
    NoUser = nouser
    OpIds <- MCOpIds
    Lifetime = 1
    MaxRequests = 2
    MaxMints = 2
    MaxTime = 2
    MaxAdds = 2
    MaxRestarts = 1
SYMMETRY MCSymmetry
INVARIANTS
    ResultBound
PROPERTIES
    EnrolAuthorised
