SPECIFICATION FairSpec
CONSTANTS
    Savers = {s1}
    MaxSaves = 0
    MaxLaunches = 1
    MaxFaults = 0
    CanRemove = FALSE
PROPERTIES CallsReturn
CHECK_DEADLOCK FALSE
