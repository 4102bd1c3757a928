CONSTANTS
    p1 = p1
    p2 = p2
    k1 = k1
    Processes <- OneProcess
    Clients <- OneClient
    MaxTries = 1
    MaxCrashes = 1
SPECIFICATION Spec
CHECK_DEADLOCK FALSE
INVARIANT ServedDatabaseIsSeeded
