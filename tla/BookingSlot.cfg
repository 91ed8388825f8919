SPECIFICATION SlotSpec
CONSTANTS
    Bookings = {b1, b2}
    Capacity = 1
    Txns = {t1}
    NoTxn = NoTxn
    Modes = {"CARD"}
    VendorMoves <- PageMoves
    AdminMoves <- NoMoves
    Crashes = FALSE
CHECK_DEADLOCK FALSE
SYMMETRY AnyBooking
VIEW Distinguished
PROPERTY OversoldOnlyByLapsed
