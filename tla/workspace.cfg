SPECIFICATION Spec
CONSTANTS
    e1 = e1
    e2 = e2
    Edits <- MCEdits
    NewFiles <- MCNewFiles
    Requests <- MCRequests
    MaxCalls = 2
    MaxRounds = 2
    MaxTools = 3
    MaxOrphans = 1
INVARIANTS ClosedMeansDelivered ParentRepoSafe
PROPERTIES PushedIsTheWork PushEnds
\* The calls of the instance run out.
CHECK_DEADLOCK FALSE
