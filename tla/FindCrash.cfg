SPECIFICATION Spec
CONSTANTS
    Bookings = {b1}
    Capacity = 1
    Txns = {t1}
    NoTxn = NoTxn
    Modes = {"CARD"}
    VendorMoves <- NoMoves
    AdminMoves <- NoMoves
    Crashes = TRUE
CHECK_DEADLOCK FALSE
INVARIANT NeverStranded
