CONSTANTS
    c1 = c1
    c2 = c2
    k1 = k1
    k2 = k2
    l1 = l1
    l2 = l2
    Cases <- MCOneCase
    Customers <- MCOneCustomer
    Loans <- MCOneLoan
    Owner <- MCOneOwner
    UnknownCustomer = k0
    UnknownLoan = l0
    Amounts <- OnlyLimit
    CallerTools <- PaymentTools
    CallerRows <- MCNone
    SeededStatuses <- Seeded
    MaxRequests = 3
    MaxFaults = 1
SPECIFICATION Spec
CHECK_DEADLOCK FALSE
INVARIANT IdentityAndMoneyTogether
