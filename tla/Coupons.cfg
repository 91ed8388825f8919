\* Ali books twice and Sara claims; a coupon without a limit, for one use, for two.
SPECIFICATION Spec
CONSTANTS
    ali = ali
    sara = sara
    b1 = b1
    b2 = b2
    b3 = b3
    Customers = {ali, sara}
    Bookings = {b1, b2}
    Owner <- AliTwice
    MaxEnds = 2
    MaxTwists = 1
    Limits = {0, 1, 2}
SYMMETRY EitherOfAli
VIEW Distinguished
CHECK_DEADLOCK FALSE
INVARIANTS UsesCounted ClosedForAReason OneUseEach ClaimsCapped
