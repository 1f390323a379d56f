SPECIFICATION Spec
CONSTANTS
    Clients = {c1}
    ChannelSize = 1
    MaxRetry = 1
    ReplayMax = 2
    BacklogPolicy = "send_all"
    Senders = 2
    MaxPayloads = 3
    MaxStarts = 1
INVARIANTS InOrderOnce EveryDropCounted NoGapAtJoin PacedOnce NothingLeft
CHECK_DEADLOCK FALSE
