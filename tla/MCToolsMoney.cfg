CONSTANTS
    c1 = c1
    c2 = c2
    k1 = k1
    k2 = k2
    l1 = l1
    l2 = l2
    Cases <- MCCases
    Customers <- MCCustomers
    Loans <- MCLoans
    Owner <- MCOwner
    UnknownCustomer = k0
    UnknownLoan = l0
    Amounts <- MCAmounts
    CallerTools <- MoneyAndOpsTools
    CallerRows <- CallerEventRows
    SeededStatuses <- Seeded
    MaxRequests = 3
    MaxFaults = 1
SPECIFICATION Spec
SYMMETRY CaseSymmetry
CHECK_DEADLOCK FALSE
INVARIANTS
    TypeOK
    MoneyAfterOwnerVerified
    TransactionsMatchAudit
    RefundsWithinPolicy
    UnloggedEffectsAreFailures
    FrozenIffOnRecord
    OverwrittenStatusIsOnRecord
PROPERTY ImplementsContract
