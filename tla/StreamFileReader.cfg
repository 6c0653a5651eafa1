SPECIFICATION Spec
CONSTANTS
    CounterMax = 4
    CHUNK_BYTES = 2
    NoHeader = NoHeader  Wiped = Wiped
    k1 = k1  k2 = k2  s1 = s1  s2 = s2
    Key = k1
    OtherKey = k2
    Streams <- MCStreams
    Reading = s1
    Plaintexts <- MCPlaintexts
    MaxDamage = 1
INVARIANTS TypeOK OpensOnlySealedFiles
PROPERTIES Delivers IntactFileOpens
