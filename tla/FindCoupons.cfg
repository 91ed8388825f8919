\* Each line below is violated: uncomment one at a time.
SPECIFICATION Spec
CONSTANTS
    ali = ali
    sara = sara
    b1 = b1
    b2 = b2
    b3 = b3
    Customers = {ali, sara}
    Bookings = {b1, b2, b3}
    Owner <- AliTwice
    MaxEnds = 2
    MaxTwists = 1
    Limits = {1, 2}
CHECK_DEADLOCK FALSE
INVARIANT NeverDead
\* INVARIANT NeverResurrected
\* INVARIANT WalletServed
\* PROPERTY CapCloses
\* PROPERTY AlarmMeansInvalid
\* INVARIANT UsageAccurate
