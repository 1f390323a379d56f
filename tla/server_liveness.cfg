SPECIFICATION FairSpec
CONSTANTS
    Clients = {c1}
    ChannelSize = 1
    MaxRetry = 1
    ReplayMax = 1
    BacklogPolicy = "auto"
    Senders = 1
    MaxPayloads = 2
    MaxStarts = 1
PROPERTIES StopReturns ConnectionsEnd PacedIsTaken
CHECK_DEADLOCK FALSE
