SPECIFICATION FairSpec
CONSTANTS
    Routers = {1, 2, 3}
    TC <- Line
    Weights = {2, 1000}
    Disconnect = 1000
    Cap = 5
    MaxUpdates = 2
INVARIANTS TypeOK OwnRowIsMinimum RouteCostIsDistance QuietMeansExact
PROPERTY Converges
CHECK_DEADLOCK FALSE
