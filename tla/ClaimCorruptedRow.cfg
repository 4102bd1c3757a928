CONSTANTS
    s1 = s1
    s2 = s2
    c1 = c1
    c2 = c2
    l1 = l1
    Sessions <- MCSessions
    Cases <- MCCases
    Serves <- MCServes
    Loans <- MCLoans
    Amounts <- MCAmounts
    Events <- MCEvents
    Seeded <- MCSeeded
    None = None
    Times = {1, 2}
    MaxCalls = 3
SPECIFICATION DatabaseSpec
CHECK_DEADLOCK FALSE
INVARIANT CorruptedRowIsFound
