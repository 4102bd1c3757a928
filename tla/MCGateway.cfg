CONSTANTS
    c1 = c1
    k1 = k1
    k2 = k2
    l1 = l1
    l2 = l2
    Cases <- OneCase
    Customers <- TwoCustomers
    Loans <- TwoLoans
    Owner <- TwoOwners
    UnknownCustomer = k0
    UnknownLoan = l0
    SeededStatuses <- Seeded
    Amounts <- AskedAmounts
    CallerTools <- TOOLS
    CallerRows <- CallerEventRows
    MaxSteps = 8
    MaxRequests = 11
    MaxFaults = 1
    Messages <- OneMessagePerIntent
    ModelIds <- ReportedIds
    Proposals <- AllProposals
    MessageAmounts <- AmountsInMessages
    RogueModelId = "unapproved-shadow-snapshot"
SPECIFICATION GatewaySpec
CHECK_DEADLOCK FALSE
INVARIANTS
    PlannerStaysInBudget
    ResolvedCasesAreDone
    GatewayFailsSafe
    PublishedGoalsAreMet
PROPERTY ImplementsAgent
