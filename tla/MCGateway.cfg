SPECIFICATION GatewaySpec
CONSTANTS
    a = a
    u = u
    v = v
    sep = sep
    percent = percent
    nul = nul
    d1 = d1
    d2 = d2
    t1 = t1
    t2 = t2
    None = None
    Chars <- MCChars
    Slash = sep
    Percent = percent
    Nul = nul
    Unreserved <- MCUnreserved
    AuthMode = "sigv4"
    AccessKey = "key"
    SecretKey = "secret"
    VhostSuffix <- Suffix
    MaxObjectBytes = 3
    XmlBytes = 5
    Buckets <- MCBuckets
    Keys <- MCKeys
    Payloads <- MCPayloads
    SizeOf <- MCSizeOf
    Threads <- MCThreads
    WritesSurvive = TRUE
    Requests <- MCRequests
SYMMETRY Symmetry
INVARIANTS
    RoutedAsMeant
    
    FramedUnlessHeadFails
    RepliesWereTrue
PROPERTIES
    ServesMeantBytes
