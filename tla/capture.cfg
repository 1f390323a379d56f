SPECIFICATION FairSpec
CONSTANTS
    ChunkSize = 3
    FrameSize = 2
    RingSize = 2
    ReadSize = 2
    QueueSize = 1
    Limit = 1
    MaxSamples = 6
    MaxFaults = 1
INVARIANTS InOrderOnce NothingLostSilently ReleasedWhenIdle WholeChunksHeld
PROPERTIES StopReturns CaptureResumes StallIsNoticed HangUpEnds
CHECK_DEADLOCK FALSE
