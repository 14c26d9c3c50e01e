CONSTANTS
    FrameBytes = 2
    ReadChunk = 4
    ChanCap = 1
    StreamLen = 13
SPECIFICATION FairSpec
INVARIANTS TypeOK Gapless BoundedHold OkMeansPlayed NoStandstill
PROPERTIES PipeSpec ContractSpec StopEnds PeerEnds DeadDeviceEnds DetachedWriterEnds
