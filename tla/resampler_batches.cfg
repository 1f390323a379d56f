SPECIFICATION Spec
CONSTANTS
    InputRate = 3
    TargetRate = 1
    MaxInput = 8
INVARIANTS ContinuousAcrossBatches
CHECK_DEADLOCK FALSE
