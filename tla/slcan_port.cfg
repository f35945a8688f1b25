SPECIFICATION FairSpec
CONSTANTS
    ChanCap = 1
    WireCap = 5
    ChunkCap = 4
    MaxFrames = 3
    MaxJunk = 1
    MaxRecvs = 3
INVARIANTS TypeOK NothingLost FlushDiscardsBuffered
PROPERTIES IsFifo ReaderStops HostReturns
CHECK_DEADLOCK FALSE
