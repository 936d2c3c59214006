SPECIFICATION Spec
CONSTANTS
    MaxJobs = 2
    MaxPids = 0
    MaxStops = 0
    MaxFg = 0
    MaxLine = 9
    AnyLine = 4
INVARIANT PipeBehindInputOnly
CHECK_DEADLOCK FALSE
