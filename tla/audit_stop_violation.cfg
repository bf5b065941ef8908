CONSTANTS
    m1 = m1
    m2 = m2
    r1 = r1
    r2 = r2
    Msgs <- MCMsgs
    Rows <- MCRows
    MaxConns = 2
    QueueSize = 2
    BatchSize = 2
SPECIFICATION Spec
PROPERTY NothingLostByStop
CHECK_DEADLOCK FALSE
