SPECIFICATION Spec
CONSTANTS
    Bookings = {b1, b2}
    Capacity = 1
    Txns = {t1}
    NoTxn = NoTxn
    Modes = {"CARD"}
    VendorMoves <- NoMoves
    AdminMoves <- NoMoves
    Crashes = FALSE
CHECK_DEADLOCK FALSE
INVARIANT NotOversold
