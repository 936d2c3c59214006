SPECIFICATION Spec
CONSTANTS
    Clients = {c1, c2}
    NoDir = {c2}
    Names = {f}
    Slots = 2
    Block = 1
    Faults = {"accept", "fopen", "open", "fstat", "read", "write"}
    MaxConns = 2
    MaxLength = 2
    MaxCommands = 2
    None = None
INVARIANT DownloadComplete
CHECK_DEADLOCK FALSE
