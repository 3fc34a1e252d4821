CONSTANTS
    a = a
    b = b
    c = c
    Recs <- MCRecs
    RecSize <- MCRecSize
    Hdr = 1
    MaxFileSize = 4
    CacheSize = 4
    CacheHdr = 1
    MaxChunkSize = 1
    MaxFiles = 2
    MaxWrites = 4
    MaxRestarts = 1

SPECIFICATION Spec

INVARIANTS
    TypeOK

PROPERTIES
    AppendLogRefined
    WalkStopsAtFirstBadFrame
