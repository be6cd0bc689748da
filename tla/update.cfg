SPECIFICATION Spec
CONSTANTS
    Slots = 3
    Blocks = {b1, b2, b3, b4}
    Null = Null
    MaxFingers = 3
    MaxGen = 1
    MaxFaults = 1
SYMMETRY Symmetry
INVARIANTS BlocksOwned TemplateOfFinger
