SPECIFICATION Spec
CONSTANTS
    CounterMax = 10
    CHUNK_BYTES = 3
    NoHeader = NoHeader  Wiped = Wiped
    k1 = k1  h1 = h1
    Key = k1
    Header = h1
    Inputs <- MCInputs
    NewByte = 9
    MaxGrow = 1
INVARIANT ShortChunkIsLast
