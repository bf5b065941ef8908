CONSTANTS
    c1 = c1
    c2 = c2
    Calls <- MCCalls
    MaxRetries = 1
    QueueSize = 2
    MaxFrames = 3
SPECIFICATION FairSpec
INVARIANTS NobodyWaitsInVain OnlyCancelledLeak RoutedWhileSubscribed MissedOnlyIfOvertaken
PROPERTY EveryCallEnds
CHECK_DEADLOCK FALSE
