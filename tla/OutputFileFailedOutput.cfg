SPECIFICATION Spec
CONSTANTS
    p1 = p1
    p2 = p2
    a = a
    b = b
    c = c
    Nobody = Nobody
    Paths = {a, b, c}
    Existing <- Nothing
    Scenarios <- ThreeOutputs
    SLOTS = 8
    Platforms = {"unix"}
INVARIANTS FailedLeavesNoOutput
