SPECIFICATION Spec
CONSTANTS
    Workers = {w1}
    Nobody = Nobody
    MaxVersion = 1
    BodyLen <- ThreeBlocks
    THROUGHPUT = 1
    MaxRequests = 2
INVARIANT HeaderFitsBody
CHECK_DEADLOCK FALSE
