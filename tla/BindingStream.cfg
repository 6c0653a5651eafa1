SPECIFICATION Spec
CONSTANTS
    CounterMax = 5
    CHUNK_BYTES = 2
    NoHeader = NoHeader
    Wiped = Wiped
    Key = Key
    Header = Header
    Forms <- MCForms
    Pairs <- MCPairs
    Sizes <- MCSizes
    Caps <- MCCaps
    MaxWrites = 3
    MaxFinals = 2
    MaxFaults = 1
INVARIANTS
    OpensOnlyWhatWasCompleted
    CompletedIsReadable
CHECK_DEADLOCK FALSE
