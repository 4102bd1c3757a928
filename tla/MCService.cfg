CONSTANTS
    p1 = p1
    p2 = p2
    k1 = k1
    Processes <- TwoProcesses
    Clients <- OneClient
    MaxTries = 2
    MaxCrashes = 2
SPECIFICATION FairSpec
CHECK_DEADLOCK FALSE
INVARIANTS
    ServiceTypeOK
    AnswersCanBeLookedUp
    SeededUnlessInterrupted
PROPERTY StartsComeToServe
