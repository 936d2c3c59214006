SPECIFICATION Spec
CONSTANTS
    Paths = {p1, p2, p3}
    Checksums <- ChunkValues
    Uploads <- ChunkLists
    MaxChunks = 6
    Absent = Absent
    Files <- MCFiles
    AllFiles <- MCLongFiles
    m = 1
    d = 3
    q = 8
    AnchorMod = 4
    MaxChunkSize = 3
    BUFFER_SIZE = 12
INVARIANT ReportedIsFileSize
