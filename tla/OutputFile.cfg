SPECIFICATION Spec
CONSTANTS
    p1 = p1
    p2 = p2
    a = a
    b = b
    c = c
    Nobody = Nobody
    Paths = {a, b, c}
    Existing <- AnyFile
    Scenarios <- AnyCommand
    SLOTS = 8
    Platforms = {"unix", "windows"}
INVARIANTS FailedLeavesNothing InterruptLeavesNothing SuccessMeansWritten
PROPERTIES FinishedFileKept EveryCommandEnds
