\* Hard deletes on rows that have changed since they were read; each line below is violated: uncomment one at a time.
SPECIFICATION Spec
CONSTANTS
    Bookings = {b1}
    Capacity = 1
    Txns = {t1}
    NoTxn = NoTxn
    Modes = {"CARD"}
    VendorMoves <- NoMoves
    AdminMoves <- NoMoves
    Crashes = FALSE
CHECK_DEADLOCK FALSE
INVARIANT BasketKept
\* With VendorMoves <- PageMoves, Modes = {"MIXED"}:
\* INVARIANT PointsBackOnce
