\* Four days in two months, two guests, points for less than most bookings.
SPECIFICATION Spec
CONSTANTS
    Offers <- Shops
    Dates = {1, 2, 3, 4}
    Month <- MonthOf
    Cheap = 7
    Balance = 13
CHECK_DEADLOCK FALSE
INVARIANTS ShownIsCharged OneBooking
