SPECIFICATION Spec
CONSTANTS
    SilenceLimit = 1
    MaxChunks = 4
    PreRollSize = 1
    MinFrames = 3
    TrackerCap = 1
    BusSize = 1
    Policy = "send_all"
    QueueSize = 1
    MaxFrames = 6
    MaxFaults = 1
    MaxWait = 1
    MaxRuns = 2
INVARIANTS SpeechInOrderOnce DurationIsThatOfTheAudio AcousticPaired CueAtItsSpeech NumbersIncrease
CHECK_DEADLOCK FALSE
