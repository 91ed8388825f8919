--------------------------- MODULE MCAvailability ---------------------------
(* Small activities, for the runs of TLC.                                  *)
EXTENDS Availability, TLC

CONSTANTS b1, b2

\* Two attempts of one customer.
Two == {b1, b2}
SameCustomer == [b \in Bookings |-> "Ann"]
AnyAttempt == Permutations({b1, b2})

\* Two seats; one unit of two seats; two units of two seats sold whole.
Seats == [perUnit |-> FALSE, hasUnits |-> FALSE, unitCount |-> 0, unitCapacity |-> 0, capacity |-> 2]
OneUnit == [perUnit |-> FALSE, hasUnits |-> TRUE, unitCount |-> 1, unitCapacity |-> 2, capacity |-> 0]
TwoUnits == [perUnit |-> TRUE, hasUnits |-> TRUE, unitCount |-> 2, unitCapacity |-> 2, capacity |-> 0]
ToUnits == {TwoUnits}

\* An hour in the middle of the day of an HOURLY activity, a day of a DAILY one.
OneOfEach == {Window(2, 4), Window(6, 12)}

\* The activities a run starts with.
AnyStart == { MakeActivity(type, Seats) : type \in Types } \cup { MakeActivity("HOURLY", OneUnit) }

\* Open during five half-hours, the first of which has begun; stays from the
\* third tick of a day to the second of a later one, while a day goes by.
Opening == [type \in Types |-> IF type = "HOURLY" THEN 0 ELSE 2]
Closing == [type \in Types |-> IF type = "HOURLY" THEN 5 ELSE 1]
Calendar == [type \in Types |-> IF type = "HOURLY" THEN 1 ELSE 3]
Shortest == [type \in Types |-> IF type = "HOURLY" THEN 2 ELSE 1]
Stride == [type \in Types |-> IF type = "HOURLY" THEN 1 ELSE 6]
LastTick == [type \in Types |-> IF type = "HOURLY" THEN 0 ELSE 6]
=============================================================================
