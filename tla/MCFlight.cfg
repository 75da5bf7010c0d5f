SPECIFICATION FairSpec
CONSTANTS
    MaxChunks = 3
    MaxRetries = 1
    Fails = TRUE
INVARIANTS TypeOK ChunksExact WaitersWake ErrorsAreReal
PROPERTIES ChunkProtocol AllRead
CHECK_DEADLOCK FALSE
