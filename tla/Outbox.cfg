\* One good row and one malformed one, two attempts, a breaker that opens at once.
SPECIFICATION FairSpec
CONSTANTS
    p1 = p1
    Rows = {good, bad}
    Poison = {bad}
    Drains = {w1, w2}
    Others = {o1}
    Pods = {p1}
    Placements <- OnOnePod
    MaxAttempts = 2
    Batch = 1
    MaxFaults = 1
    Threshold = 1
    SlowCalls = FALSE
    Nobody = Nobody
CHECK_DEADLOCK FALSE
INVARIANTS MailAccounted SingleProbe
PROPERTIES RowsMoveForward RowsSettle
