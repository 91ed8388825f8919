\* Each line below is violated: uncomment one at a time.
SPECIFICATION Spec
CONSTANTS
    b1 = b1
    b2 = b2
    Bookings <- Two
    Owner <- SameCustomer
    Activities <- AnyStart
    Edits <- ToUnits
    Days <- Calendar
    MaxBlocks = 1
    BlocksTried <- OneOfEach
    DayTicks = 6
    HourTicks = 2
    CheckIn <- Opening
    CheckOut <- Closing
    Duration <- Shortest
    MaxSpan = 2
    MaxGuests = 1
    BlockDays = 1
    ClockStep <- Stride
    MaxNow <- LastTick
    NoUnit = NoUnit
    NoActivity = NoActivity
CHECK_DEADLOCK FALSE
INVARIANT NeverUnplaced
\* INVARIANT RangePickerSound
