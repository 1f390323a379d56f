SPECIFICATION Spec
CONSTANTS
    SilenceLimit = 0
    MaxChunks = 3
    PreRollSize = 1
    MinFrames = 2
    TrackerCap = 1
    BusSize = 1
    Policy = "send_all"
    QueueSize = 1
    MaxFrames = 2
    MaxFaults = 1
    MaxWait = 1
    MaxRuns = 1
INVARIANTS StopReportsFailures
CHECK_DEADLOCK FALSE
