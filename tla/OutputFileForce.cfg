SPECIFICATION Spec
CONSTANTS
    p1 = p1
    p2 = p2
    a = a
    b = b
    c = c
    Nobody = Nobody
    Paths = {a}
    Existing <- Nothing
    Scenarios <- OneWithForce
    SLOTS = 2
    Platforms = {"unix"}
PROPERTIES FinishedFileKept
