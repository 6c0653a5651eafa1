SPECIFICATION Spec
CONSTANTS
    StreamTasks <- MCStreamTasks
    CallTasks <- MCPCallTasks
CHECK_DEADLOCK FALSE
PROPERTIES
    AnySplit
    Inverts
    NothingElseOpens
    FastIsPlain
    ArithmeticExact
    SignaturesExact
    BoxesExact
