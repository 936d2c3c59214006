SPECIFICATION FairSpec
CONSTANTS
    Nodes = {0, 1, 2, 3}
    Source = 1
    Default = 0
    INFINITE = 2
    MaxEdges = 5
INVARIANTS TypeOK FrontierIsLevel OutputIsDistance
PROPERTY Terminates
CHECK_DEADLOCK FALSE
