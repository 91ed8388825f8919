\* Two requests of a vendor, two payments; every kind of call, reopenings included.
\* A request is approved and completed while another call runs.
SPECIFICATION FairSpec
CONSTANTS
    Requests = {1, 2}
    N = 2
    Share <- TwoPayments
    Minimum = 1
    MaxCalls = 1
CHECK_DEADLOCK FALSE
INVARIANTS OneActive AmountBacked
PROPERTIES ApprovedEnds CompletedWhenPayable
