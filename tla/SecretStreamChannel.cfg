SPECIFICATION Spec
CONSTANTS
    s1 = s1  s2 = s2  h0 = h0  k1 = k1  k2 = k2  p1 = p1
    CounterMax = 2
    Streams <- MCStreams
    Headers <- MCHeaders
    Keys <- MCKeys
    Pullers <- MCPullers
    Plaintexts <- MCPlaintexts
SYMMETRY MCSymmetry
INVARIANTS TypeOK NoIvReuse AcceptedIsPrefix FinalMeansComplete Resumable
