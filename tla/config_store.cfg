SPECIFICATION FairSpec
CONSTANTS
    Savers = {s1, s2}
    MaxSaves = 2
    MaxLaunches = 2
    MaxFaults = 1
    CanRemove = TRUE
INVARIANTS SavedLasts AgreesWithDisk
PROPERTIES CallsReturn
CHECK_DEADLOCK FALSE
