SPECIFICATION FairSpec
CONSTANTS
    Bookings = {b1}
    Capacity = 1
    Txns = {t1, t2}
    NoTxn = NoTxn
    Modes = {"CARD", "MIXED", "POINTS"}
    VendorMoves <- PaidPageMoves
    AdminMoves <- AdminCancelMoves
    Crashes = FALSE
CHECK_DEADLOCK FALSE
PROPERTIES PendingEnds OrphanSettled KeepsPromise
