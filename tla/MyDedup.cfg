SPECIFICATION Spec
CONSTANTS
    Paths = {p1, p2, p3}
    Checksums <- ChunkValues
    Uploads <- ChunkLists
    MaxChunks = 6
    Absent = Absent
    Files <- MCFiles
    AllFiles <- MCAllFiles
    m = 3
    d = 3
    q = 8
    AnchorMod = 4
    MaxChunkSize = 5
    BUFFER_SIZE = 20
SYMMETRY Symmetry
INVARIANTS TypeOK RefCountsExact ChunksAreTheFile AnchorsByContent ChunkSizes
PROPERTY KeepsFiles
