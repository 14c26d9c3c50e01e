CONSTANTS
    FrameBytes = 2
    ReadChunk = 3
    ChanCap = 1
    StreamLen = 3
SPECIFICATION FairSpec
PROPERTY GracefulStop
