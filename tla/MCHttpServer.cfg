SPECIFICATION FairSpec
CONSTANTS
    s1 = s1
    s2 = s2
    Sessions <- MCSessions
    Threads = 2
    Slots = 2
    Bodies = {2, 3}
    max_body = 2
    max_object_bytes = 2
    MaxRequests = 2
    MaxCalls = 2
INVARIANTS
    TypeOK
    RequestsAddUp
    
    ScrapeSeesItself
    EntityTooLargeNeverSent
PROPERTIES
    CallbacksReturn
