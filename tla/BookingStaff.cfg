SPECIFICATION Spec
CONSTANTS
    Bookings = {b1}
    Capacity = 1
    Txns = {t1}
    NoTxn = NoTxn
    Modes = {"CARD", "MIXED", "POINTS"}
    VendorMoves <- PageMoves
    AdminMoves <- AdminApiMoves
    Crashes = TRUE
CHECK_DEADLOCK FALSE
VIEW Distinguished
INVARIANTS TypeOK AckedIsMoney PointsConserved NoStrandedCapture EarnReversed
PROPERTIES PaymentMovesForward CancelIsFinal
