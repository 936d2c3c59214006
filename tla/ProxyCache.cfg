SPECIFICATION FairSpec
CONSTANTS
    Workers = {w1, w2}
    Nobody = Nobody
    MaxVersion = 2
    BodyLen <- SameLen
    THROUGHPUT = 1
    MaxRequests = 2
INVARIANTS TypeOK HeaderFound CachedBodyUniform TimeFitsContent
PROPERTIES RequestsEnd NotModifiedIsOwn
CHECK_DEADLOCK FALSE
