CONSTANTS
    CounterMax = 2
    CHUNK_BYTES = 2
    NoHeader = NoHeader
    Wiped = Wiped
    USIZE_MAX = 40
    Garbage = Garbage
    ADDR_MAX = 40
    Handles = {"calls", "chunks", "encryptor", "decryptor", "hasher"}
    Ptrs = {0, 1, 2, 20}
    OutLens = {0, 1, 3, 5, 13}
    Messages <- Bytes2
    Blobs <- MCBlobs
    Files <- MCFiles
    Headers <- MCHeaders
    ChunkTags = {"Message", "Final", "Other"}
    MaxChunk = 1
    MaxFed = 4
SPECIFICATION Spec
CHECK_DEADLOCK FALSE
INVARIANTS CallsSafe OpensOnlyItsOwn HandlesDeliver
PROPERTY RefusedCallKeepsHandle
