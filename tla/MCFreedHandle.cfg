SPECIFICATION FairSpec
CONSTANTS
    a = a
    b = b
    d1 = d1
    d2 = d2
    r1 = r1
    r2 = r2
    None = None
    Tokens <- MCTokens
    Prompts <- TwoPrompts
    Payloads <- MCPayloads
    SizeOf <- MCSizeOf
    Hashes <- AllPrefixes
    TokenHash <- MCTokenHash
    ObjIds <- MCPayloads
    ContentHash <- MCContentHash
    BlockSize = 1
    BytesPerToken = 2
    IntMax = 127
    Replicas <- OneReplica
    WritesSurvive = FALSE
    SkipPuts = {TRUE, FALSE}
    MaxStores = 2
INVARIANTS
    RequestsUseLiveHandle
