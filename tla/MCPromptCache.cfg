SPECIFICATION Spec
CONSTANTS
    a = a
    b = b
    d1 = d1
    d2 = d2
    r1 = r1
    r2 = r2
    None = None
    Tokens <- MCTokens
    Prompts <- OnePrompt
    Payloads <- MCPayloads
    SizeOf <- MCSizeOf
    Hashes <- AllPrefixes
    TokenHash <- MCTokenHash
    ObjIds <- MCPayloads
    ContentHash <- MCContentHash
    BlockSize = 1
    BytesPerToken = 2
    IntMax = 127
    Replicas <- TwoReplicas
    WritesSurvive = FALSE
    SkipPuts = {FALSE}
    MaxStores = 1
SYMMETRY Symmetry
INVARIANTS
    TypeOK
    LoadExact
    IndexedPresentUnlessLost
PROPERTIES
    ObjectsKeepTheirContent
