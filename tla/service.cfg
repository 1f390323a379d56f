SPECIFICATION FairSpec
CONSTANTS
    MaxCalls = 2
    MaxLaunches = 1
    MaxFaults = 1
INVARIANTS OnePipeline NothingLeftBehind
PROPERTIES MonitorEnds CallsReturn
CHECK_DEADLOCK FALSE
