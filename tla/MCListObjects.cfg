SPECIFICATION FairSpec
CONSTANTS
    LastKey = 6
    PageCap = 2
    Matching <- MCMatching
    Asked <- MCAsked
    Bucket <- MCBucket
    Prefix <- MCPrefix
    NameOf <- MCNameOf
    OtherBuckets <- MCOtherBuckets
    OtherObjects <- MCOtherObjects
INVARIANTS
    TypeOK
    CompleteUnlessBlind
    NoGaps
    NothingListedTwice
    IteratorsSeeTheBucket

    
