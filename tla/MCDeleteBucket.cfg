SPECIFICATION FairSpec
CONSTANTS
    b1 = b1
    b2 = b2
    k1 = k1
    d1 = d1
    d2 = d2
    t1 = t1
    t2 = t2
    None = None
    Buckets <- MCBuckets
    Keys <- MCKeys
    Payloads <- MCPayloads
    SizeOf <- MCSizeOf
    Threads <- MCThreads
    WritesSurvive = TRUE
PROPERTIES
    DeleteBucketOnlyIfEmpty
