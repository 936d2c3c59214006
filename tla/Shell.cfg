SPECIFICATION FairSpec
CONSTANTS
    MaxJobs = 2
    MaxPids = 4
    MaxStops = 3
    MaxFg = 2
    MaxLine = 9
    AnyLine = 4
INVARIANTS TypeOK GrammarIsAccepted PromptIsQuiet JobTableExact
PROPERTY LineEnds
CHECK_DEADLOCK FALSE
