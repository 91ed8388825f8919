\* Each line below is violated: uncomment one at a time.
SPECIFICATION Spec
CONSTANTS
    Requests = {1, 2}
    N = 2
    Share <- TwoPayments
    Minimum = 1
    MaxCalls = 2
CHECK_DEADLOCK FALSE
INVARIANT NeverTwoActive
\* INVARIANT LockedOnce
\* PROPERTY RejectsPending
\* INVARIANT MistakeReversible
\* PROPERTY NothingSlips
