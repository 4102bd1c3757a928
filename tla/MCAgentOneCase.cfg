CONSTANTS
    c1 = c1
    k1 = k1
    k2 = k2
    l1 = l1
    l2 = l2
    Cases <- OneCase
    Customers <- TwoCustomers
    Loans <- TwoLoans
    Owner <- TwoOwners
    UnknownCustomer = k0
    UnknownLoan = l0
    SeededStatuses <- Seeded
    Amounts <- LimitAndOver
    CallerTools <- TOOLS
    CallerRows <- CallerEventRows
    MaxSteps = 3
    MaxRequests = 6
    MaxFaults = 1
    Messages <- AllMessages
    ModelIds <- Models
    Proposals <- AllProposals
SPECIFICATION FairSpec
CHECK_DEADLOCK FALSE
INVARIANTS
    AgentTypeOK
    OnlyApprovedToolsRun
    FailsClosed
    AnswerMatchesRecord
    HistoryMatchesTrail
    CostIsContained
    DetectorsFindNothing
PROPERTIES
    EscalationIsFinal
    EveryCaseIsAnswered
