\* Customers, the gateway and the cron among themselves; each line below is violated: uncomment one at a time.
SPECIFICATION Spec
CONSTANTS
    Bookings = {b1}
    Capacity = 1
    Txns = {t1, t2}
    NoTxn = NoTxn
    Modes = {"CARD"}
    VendorMoves <- NoMoves
    AdminMoves <- NoMoves
    Crashes = FALSE
CHECK_DEADLOCK FALSE
INVARIANT EveryCaptureVisible
\* With Modes = {"CARD", "MIXED"}:
\* INVARIANT OrphanRecoverable
\* PROPERTY NapsKeepsLapsed
\* PROPERTY CronSparesHeld
