SPECIFICATION Spec
CONSTANTS
    Bookings = {b1}
    Capacity = 1
    Txns = {t1}
    NoTxn = NoTxn
    Modes = {"CARD"}
    VendorMoves <- PaidPageMoves
    AdminMoves <- NoMoves
    Crashes = FALSE
CHECK_DEADLOCK FALSE
INVARIANT ClawbackReported
