CONSTANTS
    c1 = c1
    k1 = k1
    k2 = k2
    l1 = l1
    l2 = l2
    Cases <- OneCase
    Customers <- OneCustomer
    Loans <- TwoLoans
    Owner <- SameOwner
    UnknownCustomer = k0
    UnknownLoan = l0
    SeededStatuses <- Seeded
    Amounts <- OnlyLimit
    CallerTools <- TOOLS
    CallerRows <- CallerEventRows
    MaxSteps = 3
    MaxRequests = 6
    MaxFaults = 1
    Messages <- RefundMessage
    ModelIds <- Models
    Proposals <- RefundProposals
SPECIFICATION FairSpec
CHECK_DEADLOCK FALSE
INVARIANT OneRefundPerCase
