SPECIFICATION Spec
CONSTANTS
    Workers = {w1, w2}
    Nobody = Nobody
    MaxVersion = 2
    BodyLen <- EmptyFirst
    THROUGHPUT = 1
    MaxRequests = 2
INVARIANT MutexReleased
CHECK_DEADLOCK FALSE
