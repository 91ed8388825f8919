\* Staff who confirm unpaid bookings; each line below is violated: uncomment one at a time.
SPECIFICATION Spec
CONSTANTS
    Bookings = {b1}
    Capacity = 1
    Txns = {t1}
    NoTxn = NoTxn
    Modes = {"CARD"}
    VendorMoves <- PageMoves
    AdminMoves <- NoMoves
    Crashes = FALSE
CHECK_DEADLOCK FALSE
INVARIANT NeverStranded
\* INVARIANT EarnedOnCash
