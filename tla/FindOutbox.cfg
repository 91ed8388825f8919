\* Each line below is violated: uncomment one at a time.
SPECIFICATION Spec
CONSTANTS
    p1 = p1
    Rows = {good, bad}
    Poison = {bad}
    Drains = {w1, w2}
    Others = {o1}
    Pods = {p1}
    Placements <- OnOnePod
    MaxAttempts = 2
    Batch = 2
    MaxFaults = 1
    Threshold = 2
    SlowCalls = FALSE
    Nobody = Nobody
CHECK_DEADLOCK FALSE
PROPERTY BatchSpared
\* With SlowCalls = TRUE:
\* INVARIANT SingleProbe
