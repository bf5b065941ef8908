CONSTANTS
    c1 = c1
    c2 = c2
    Calls <- MCCalls
    MaxRetries = 1
    QueueSize = 1
    MaxFrames = 2
SPECIFICATION FairSpec

PROPERTY CloseStopsIterators
CHECK_DEADLOCK FALSE
