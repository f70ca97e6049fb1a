SPECIFICATION Spec
CONSTANTS
    b1 = b1
    k1 = k1
    b2 = b2
    d1 = d1
    d2 = d2
    t1 = t1
    t2 = t2
    None = None
    Buckets <- MCBuckets
    Keys <- MCKeys
    Payloads <- MCPayloads
    SizeOf <- MCSizeOf
    Threads <- MCThreads
    WritesSurvive = FALSE
SYMMETRY Symmetry
INVARIANTS
    TypeOK
    MetaMatchesData
    OrphansOnlyFromUnguardedPut
PROPERTIES
    ImplementsBlobStore
