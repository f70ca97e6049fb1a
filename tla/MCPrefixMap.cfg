SPECIFICATION Spec
CONSTANTS
    a = a
    b = b
    empty = empty
    small = small
    large = large
    Tokens <- MCTokens
    Prompts <- MCPrompts
    Payloads <- MCPayloads
    SizeOf <- MCSizeOf
    Hashes <- AllPrefixes
    TokenHash <- MCTokenHash
    ObjIds <- MCPayloads
    ContentHash <- MCContentHash
    BlockSize = 2
    BytesPerToken = 0
    IntMax = 127
    MaxStores = 3
INVARIANTS
    TypeOK
    IndexReflectsLog
    EntriesBacked
    LookupFindsLongest
    LookupFindsLatest
PROPERTY
    HitsNeverShrink
