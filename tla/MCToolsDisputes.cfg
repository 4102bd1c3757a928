CONSTANTS
    c1 = c1
    c2 = c2
    k1 = k1
    k2 = k2
    l1 = l1
    l2 = l2
    Cases <- MCCases
    Customers <- MCOneCustomer
    Loans <- MCOneLoan
    Owner <- MCOneOwner
    UnknownCustomer = k0
    UnknownLoan = l0
    Amounts <- MCNone
    CallerTools <- DisputeTools
    CallerRows <- MCNone
    SeededStatuses <- Seeded
    MaxRequests = 5
    MaxFaults = 0
SPECIFICATION Spec
SYMMETRY CaseSymmetry
CHECK_DEADLOCK FALSE
INVARIANT DisputesOnRecord
PROPERTY ImplementsContract
