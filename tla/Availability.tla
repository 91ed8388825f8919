---------------------------- MODULE Availability ----------------------------
(***************************************************************************)
(* What an activity can still sell, in apps/api/src: the units and seats   *)
(* createBooking gives out, the vendor's blocks, the unit configuration a  *)
(* vendor or an admin may change while bookings exist, and the views       *)
(* (slots, stay, calendar, the web pickers) that tell customers what is    *)
(* left.  One activity; time is a line of ticks of half an hour.           *)
(*                                                                         *)
(* createBooking reads the activity, the blocks and the customer's own     *)
(* bookings first and decides in a Serializable transaction afterwards:    *)
(* Ask and Commit.  The Redis slot lock is not here: it fails open, and    *)
(* when it refuses a request that is a Refuse step.                        *)
(***************************************************************************)
EXTENDS Integers, FiniteSets, FiniteSetsExt

CONSTANTS
    Bookings,     \* booking ids; a new attempt is a new id
    Owner,        \* the customer of each booking id
    Activities,   \* rows of the activity at the start
    Edits,        \* what vendors and admins ask updateActivity for
    Days,         \* days of the model, by booking type: 0 .. Days - 1
    DayTicks,     \* ticks of a day
    HourTicks,    \* ticks of an hour
    CheckIn,      \* checkInTime, by booking type: opening of an HOURLY day
    CheckOut,     \* checkOutTime, by booking type: closing of an HOURLY day
    Duration,     \* durationValue, by booking type: ticks, or minimum nights
    MaxSpan,      \* bound: longest window asked for, in durations
    MaxGuests,    \* bound: guests of a request
    BlockDays,    \* bound: days a whole-day block covers
    BlocksTried,  \* bound: the blocks that vendors set
    MaxBlocks,    \* bound: blocks at a time
    ClockStep,    \* ticks the clock moves at a time, by booking type
    MaxNow,       \* bound: last value of the clock, by booking type
    NoUnit,       \* unitNumber IS NULL
    NoActivity    \* no row has been read

Types == {"HOURLY", "DAILY"}

\* The row after an edit: with units, capacity is what the units hold.
MakeActivity(type, e) ==
    [bookingType |-> type, perUnit |-> e.perUnit, hasUnits |-> e.hasUnits,
     unitCount |-> e.unitCount, unitCapacity |-> e.unitCapacity,
     capacity |-> IF e.hasUnits THEN e.unitCount * e.unitCapacity ELSE e.capacity]

Rows == { MakeActivity(x[1], x[2]) : x \in Types \X Edits } \cup Activities

ASSUME AvailabilityConstants ==
    /\ NoUnit \notin Int /\ NoActivity \notin Rows /\ IsFiniteSet(Bookings)
    /\ \A a \in Activities : a.bookingType \in Types
    /\ \A e \in Edits \cup Activities :
         /\ e.perUnit \in BOOLEAN /\ e.hasUnits \in BOOLEAN
         /\ e.unitCount \in Nat /\ e.unitCapacity \in Nat /\ e.capacity \in Nat
         \* assertUnitConfigConsistent
         /\ e.hasUnits => e.unitCount > 0 /\ e.unitCapacity > 0
    /\ Days \in [Types -> Nat] /\ DayTicks \in Nat \ {0} /\ HourTicks \in Nat \ {0}
    /\ MaxSpan \in Nat /\ MaxGuests \in Nat /\ BlockDays \in Nat /\ MaxBlocks \in Nat
    /\ MaxNow \in [Types -> Nat] /\ ClockStep \in [Types -> Nat \ {0}]
    /\ CheckIn \in [Types -> 0 .. DayTicks - 1]
    /\ CheckOut \in [Types -> 0 .. DayTicks - 1]
    /\ Duration \in [Types -> Nat \ {0}]
    /\ CheckOut["DAILY"] <= CheckIn["DAILY"]

VARIABLES
    activity,  \* the activity's row
    listed,    \* activity.status = ACTIVE
    blocks,    \* ActivityBlock rows that are not deleted
    counting,  \* blocks inserted whose affectedBookings are not yet counted
    state,     \* life of a booking id, see States
    win,       \* startDatetime and endDatetime
    guests,    \* Booking.guests
    unit,      \* Booking.unitNumber
    frozen,    \* the unit in payment.bookingSnapshot, while it can be of use
    seen,      \* the activity's row a running createBooking has read
    now,       \* the clock
    stale,     \* history: created from a row that had changed meanwhile
    returned,  \* history: came back after its hold had lapsed
    whole,     \* history: got a unit to itself
    twins,     \* history: pairs of one customer's requests that overlapped
    told       \* history: <<booking, block>> counted in affectedBookings, or
               \* inserted while the booking's request was running

activityVars == <<activity, listed>>
blockVars == <<blocks, counting>>
bookingVars == <<state, win, guests, unit, frozen, seen>>
history == <<stale, returned, whole, twins, told>>
vars == <<activityVars, blockVars, bookingVars, now, history>>

(* ----------------------------- Windows --------------------------------- *)

Window(from, to) == [from |-> from, to |-> to]
NoWindow == Window(0, 0)
Overlaps(v, w) == v.from < w.to /\ v.to > w.from
DayOf(tick) == tick \div DayTicks
DayStart(d) == d * DayTicks

\* The candidate starting times of an HOURLY activity.
computeSlots ==
    [d \in 0 .. Days["HOURLY"] - 1 |->
        { Window(DayStart(d) + t, DayStart(d) + t + Duration["HOURLY"]) :
            t \in { u \in 0 .. DayTicks - 1 :
                      CheckIn["HOURLY"] <= u /\ u + Duration["HOURLY"] <= CheckOut["HOURLY"] } }]

\* An HOURLY request: within opening hours, whole hours, between one and
\* MaxSpan durations long, any start on the half-hour grid.
HourlyWindows ==
    { Window(DayStart(x[1]) + x[2], DayStart(x[1]) + x[3]) :
        x \in { y \in (0 .. Days["HOURLY"] - 1) \X (0 .. DayTicks - 1) \X (0 .. DayTicks - 1) :
            /\ CheckIn["HOURLY"] <= y[2] /\ y[3] <= CheckOut["HOURLY"]
            /\ y[3] - y[2] >= Duration["HOURLY"]
            /\ (y[3] - y[2]) % HourTicks = 0
            /\ y[3] - y[2] <= Duration["HOURLY"] * MaxSpan } }

\* A DAILY stay: from the check-in time of one day to the check-out time of
\* a later one, the minimum number of nights or more.
Stay(in, out) == Window(DayStart(in) + CheckIn["DAILY"], DayStart(out) + CheckOut["DAILY"])
DailyWindows ==
    { Stay(x[1], x[2]) : x \in { y \in (0 .. Days["DAILY"] - 1) \X (0 .. Days["DAILY"] - 1) :
                                   /\ y[2] - y[1] >= Duration["DAILY"]
                                   /\ y[2] - y[1] <= Duration["DAILY"] * MaxSpan } }

Requests(type) == IF type = "HOURLY" THEN HourlyWindows ELSE DailyWindows

\* What a block is compared with: the hours of a slot, the nights of a stay.
BlockWindow(type, w) ==
    IF type = "DAILY" THEN Window(DayStart(DayOf(w.from)), DayStart(DayOf(w.to))) ELSE w

\* createBooking refuses a past date, and a slot that has started.
NotPast(type, w) == IF type = "DAILY" THEN DayOf(w.from) >= DayOf(now) ELSE w.from > now

(* ------------------------ Who holds what ------------------------------- *)

\* activeBookingFilter: neither cancelled nor PENDING past reservedUntil.
Holding == { b \in Bookings : state[b] \in {"held", "sure"} }
Overlapping(w) == { b \in Holding : Overlaps(win[b], w) }
InUnit(w, u) == { b \in Overlapping(w) : unit[b] = u }
unassignedOverlapping(w) == InUnit(w, NoUnit)

rentsWholeUnit(a) == a.hasUnits /\ (a.bookingType = "DAILY" \/ a.perUnit)

GuestsOf(S) == MapThenSumSet(LAMBDA b : guests[b], S)

\* The sweep over the clipped intervals: an interval that ends at an instant
\* is taken off before one that starts there is added.
Clip(b, w) == Window(Max({win[b].from, w.from}), Min({win[b].to, w.to}))
\* Bug: an interval is added before one that ends there is taken off.
RunningStartsFirst(S, w, t) == { b \in S : Clip(b, w).from <= t /\ t <= Clip(b, w).to }
RunningAt(S, w, t) == { b \in S : Clip(b, w).from <= t /\ t < Clip(b, w).to }
maxConcurrentInWindow(S, w) ==
    LET met == { b \in S : Overlaps(win[b], w) }
    IN  Max({0} \cup { GuestsOf(RunningAt(met, w, Clip(b, w).from)) : b \in met })

(* ------------------- The decision of createBooking --------------------- *)

\* Bug: whole units are sold like seats.
FreeUnitsBySeat(a, w, g) ==
    { u \in 1 .. a.unitCount :
        a.unitCapacity - maxConcurrentInWindow(InUnit(w, u) \cup unassignedOverlapping(w), w) >= g }

FreeUnits(a, w, g) ==
    { u \in 1 .. a.unitCount :
        IF rentsWholeUnit(a)
        THEN InUnit(w, u) = {}
        ELSE a.unitCapacity - maxConcurrentInWindow(InUnit(w, u) \cup unassignedOverlapping(w), w) >= g }

\* Whole units: every booking without a unit holds one of the free ones.
Usable(a, w, g) ==
    Cardinality(FreeUnits(a, w, g))
      - (IF rentsWholeUnit(a) THEN Cardinality(unassignedOverlapping(w)) ELSE 0)

ResolvedUnit(a, w, g) ==
    IF a.hasUnits /\ Usable(a, w, g) > 0 THEN Min(FreeUnits(a, w, g)) ELSE NoUnit

CapacityAccepts(a, w, g) ==
    LET u == ResolvedUnit(a, w, g) IN
    /\ a.hasUnits => u # NoUnit
    /\ IF u = NoUnit
       THEN g <= a.capacity - maxConcurrentInWindow(Overlapping(w), w)
       ELSE g <= a.unitCapacity - maxConcurrentInWindow(InUnit(w, u), w)

Blocked(type, w) == \E v \in blocks : Overlaps(v, BlockWindow(type, w))

\* Would a request for w that met no other one be booked.
ServerAccepts(w, g) ==
    /\ NotPast(activity.bookingType, w)
    /\ ~Blocked(activity.bookingType, w)
    /\ CapacityAccepts(activity, w, g)

(* ----------------------------- The views ------------------------------- *)

\* getHourlyAvailability: what a slot shows as left, over all units.
SlotAvailable(w) ==
    LET left == [u \in 1 .. activity.unitCount |->
                   Max({0, activity.unitCapacity
                             - maxConcurrentInWindow(InUnit(w, u) \cup unassignedOverlapping(w), w)})]
        emptied == { u \in 1 .. activity.unitCount : InUnit(w, u) = {} }
    IN  IF rentsWholeUnit(activity)
        THEN activity.unitCapacity
               * Max({0, Cardinality(emptied) - Cardinality(unassignedOverlapping(w))})
        ELSE IF activity.hasUnits
        THEN MapThenSumSet(LAMBDA u : left[u], 1 .. activity.unitCount)
        ELSE Max({0, activity.capacity - maxConcurrentInWindow(Overlapping(w), w)})

\* ... and its lock: the raw signal that the slot starts inside a block.
SlotLocked(w) == \E v \in blocks : v.from <= w.from /\ w.from < v.to

\* getDailyAvailability: guests are summed, whether or not they meet.
StayAvailable(w) ==
    LET emptied == { u \in 1 .. activity.unitCount : GuestsOf(InUnit(w, u)) = 0 }
    IN  IF Blocked("DAILY", w) THEN 0
        ELSE IF activity.hasUnits
        THEN activity.unitCapacity
               * Max({0, Cardinality(emptied) - Cardinality(unassignedOverlapping(w))})
        ELSE Max({0, activity.capacity - GuestsOf(Overlapping(w))})

\* getCalendarAvailability: the window a day of the calendar looks at.
DayWindow(d) ==
    Window(DayStart(d) + CheckIn[activity.bookingType],
           DayStart(d + 1) + CheckOut[activity.bookingType])

OccupiedUnits(w) == { unit[b] : b \in Overlapping(w) } \ {NoUnit}

\* Bug: only units with a number count as taken.
AllUnitsTakenByNumber(w) == Cardinality(OccupiedUnits(w)) >= activity.unitCount

AllUnitsTaken(w) ==
    Cardinality(OccupiedUnits(w)) + Cardinality(unassignedOverlapping(w)) >= activity.unitCount

PooledCapacity ==
    IF activity.hasUnits THEN activity.unitCount * activity.unitCapacity ELSE activity.capacity

SlotFull(w) ==
    IF rentsWholeUnit(activity)
    THEN AllUnitsTaken(w)
    ELSE maxConcurrentInWindow(Overlapping(w), w) >= PooledCapacity

DayFullyBlocked(d) == \E v \in blocks : v.from <= DayStart(d) /\ v.to >= DayStart(d + 1)
DayBlocked(d) == \E v \in blocks : Overlaps(v, Window(DayStart(d), DayStart(d + 1)))

IsFullyBooked(d) ==
    \/ DayFullyBlocked(d)
    \/ IF activity.bookingType = "HOURLY"
       THEN computeSlots[d] # {} /\ \A w \in computeSlots[d] : SlotFull(w)
       ELSE IF rentsWholeUnit(activity)
       THEN AllUnitsTaken(DayWindow(d))
       ELSE GuestsOf(Overlapping(DayWindow(d))) >= activity.capacity

(* The web pickers, on views that have just been fetched. *)

\* booking-calendar: no night of the stay is closed or full.
StayOffered(in, out) ==
    /\ DayOf(now) <= in
    /\ \A d \in in .. out - 1 : ~DayBlocked(d) /\ ~IsFullyBooked(d)

\* hour-range-picker: the slots that start inside the range are looked up.
SlotsIn(w) == { s \in computeSlots[DayOf(w.from)] : w.from <= s.from /\ s.from < w.to }

IsValidStart(w, g) ==
    LET base == Window(w.from, w.from + Duration["HOURLY"]) IN
    /\ base \in computeSlots[DayOf(w.from)]
    /\ w.from > now
    /\ \A s \in SlotsIn(base) : ~SlotLocked(s)
    /\ SlotAvailable(base) >= g

IsValidEnd(w, g) ==
    \A s \in SlotsIn(w) : s.from > now /\ ~SlotLocked(s) /\ SlotAvailable(s) >= g

RangeOffered(w, g) ==
    IsValidStart(w, g) /\ (w.to - w.from > Duration["HOURLY"] => IsValidEnd(w, g))

(* -------------------------- createBooking ------------------------------ *)

\* none: not asked yet.  asked: the request has made its first reads.  held:
\* PENDING.  lapsed: PENDING past reservedUntil.  gone: reaped by the cron,
\* its payment may still succeed.  sure: CONFIRMED.  off: over.
States == {"none", "asked", "held", "lapsed", "gone", "sure", "off"}

\* A customer may not book the same times twice.  Bug: only paid
\* bookings count.
HasTwinPaid(b, w) == \E c \in Bookings : state[c] = "sure" /\ Owner[c] = Owner[b] /\ win[c] = w
HasTwin(b, w) == \E c \in Holding : Owner[c] = Owner[b] /\ win[c] = w

\* The reads before the lock: the row, the past check, the blocks, and a
\* booking the customer already has for these times.
Ask(b, w, g) ==
    /\ state[b] = "none"
    /\ listed
    /\ w \in Requests(activity.bookingType) /\ NotPast(activity.bookingType, w)
    /\ ~Blocked(activity.bookingType, w)
    /\ ~HasTwin(b, w)
    /\ state' = [state EXCEPT ![b] = "asked"]
    /\ win' = [win EXCEPT ![b] = w]
    /\ guests' = [guests EXCEPT ![b] = g]
    /\ seen' = [seen EXCEPT ![b] = activity]
    /\ twins' = twins \cup { {b, c} : c \in { x \in Bookings : state[x] = "asked"
                                                            /\ Owner[x] = Owner[b] } }
    /\ UNCHANGED <<activityVars, blockVars, unit, frozen, now, stale, returned, whole, told>>

\* The transaction: unit and capacity from the row that was read, against
\* the bookings of this moment.
Commit(b) ==
    LET a == seen[b]
        u == ResolvedUnit(a, win[b], guests[b])
    IN  /\ state[b] = "asked"
        /\ CapacityAccepts(a, win[b], guests[b])
        /\ state' = [state EXCEPT ![b] = "held"]
        /\ unit' = [unit EXCEPT ![b] = u]
        /\ frozen' = [frozen EXCEPT ![b] = u]
        /\ seen' = [seen EXCEPT ![b] = NoActivity]
        /\ stale' = IF a = activity THEN stale ELSE stale \cup {b}
        /\ whole' = IF rentsWholeUnit(a) THEN whole \cup {b} ELSE whole
        /\ UNCHANGED <<activityVars, blockVars, win, guests, now, returned, twins, told>>

\* The row of b no longer counts and never will again.
Close(b) ==
    /\ state' = [state EXCEPT ![b] = "off"]
    /\ win' = [win EXCEPT ![b] = NoWindow]
    /\ guests' = [guests EXCEPT ![b] = 0]
    /\ unit' = [unit EXCEPT ![b] = NoUnit]
    /\ frozen' = [frozen EXCEPT ![b] = NoUnit]
    /\ seen' = [seen EXCEPT ![b] = NoActivity]
    /\ stale' = stale \ {b}
    /\ returned' = returned \ {b}
    /\ whole' = whole \ {b}
    /\ twins' = { t \in twins : b \notin t }
    /\ told' = { t \in told : t[1] # b }

\* No capacity, a slot lock held by somebody else, a serialization failure.
Refuse(b) ==
    /\ state[b] = "asked"
    /\ Close(b)
    /\ UNCHANGED <<activityVars, blockVars, now>>

(* ------------------ What happens to a booking later -------------------- *)

Lapse(b) ==
    /\ state[b] = "held"
    /\ state' = [state EXCEPT ![b] = "lapsed"]
    /\ UNCHANGED <<activityVars, blockVars, win, guests, unit, frozen, seen, now, history>>

\* A success confirms a PENDING row without looking at what is left.
Pay(b) ==
    /\ state[b] \in {"held", "lapsed"}
    /\ state' = [state EXCEPT ![b] = "sure"]
    /\ frozen' = [frozen EXCEPT ![b] = NoUnit]
    /\ returned' = IF state[b] = "lapsed" THEN returned \cup {b} ELSE returned
    /\ UNCHANGED <<activityVars, blockVars, win, guests, unit, seen, now,
                   stale, whole, twins, told>>

\* The stale-booking cron, or the customer's cancel of a booking not paid
\* yet, deletes the row; the payment keeps its snapshot.
Reap(b) ==
    /\ state[b] \in {"held", "lapsed"}
    /\ state' = [state EXCEPT ![b] = "gone"]
    /\ unit' = [unit EXCEPT ![b] = NoUnit]
    /\ stale' = stale \ {b}
    /\ whole' = whole \ {b}
    /\ UNCHANGED <<activityVars, blockVars, win, guests, frozen, seen, now,
                   returned, twins, told>>

Cancel(b) ==
    /\ state[b] = "sure"
    /\ Close(b)
    /\ UNCHANGED <<activityVars, blockVars, now>>

\* recoverySlotAvailable: does the snapshot still fit where it was taken.
recoverySlotAvailable(b) ==
    LET near == IF frozen[b] = NoUnit THEN Overlapping(win[b])
                ELSE InUnit(win[b], frozen[b]) \cup unassignedOverlapping(win[b])
        inUnit == activity.hasUnits /\ frozen[b] # NoUnit
    IN  IF inUnit /\ rentsWholeUnit(activity)
        THEN near = {}
        ELSE maxConcurrentInWindow(near, win[b]) + guests[b]
               <= (IF inUnit THEN activity.unitCapacity ELSE activity.capacity)

\* A late success for a deleted row: the booking comes back as it was
\* created, with the unit of that moment, or the money goes to the refunds.
Recover(b) ==
    /\ state[b] = "gone"
    /\ listed /\ win[b].to > now
    /\ recoverySlotAvailable(b)
    /\ state' = [state EXCEPT ![b] = "sure"]
    /\ unit' = [unit EXCEPT ![b] = frozen[b]]
    /\ frozen' = [frozen EXCEPT ![b] = NoUnit]
    /\ returned' = returned \cup {b}
    /\ UNCHANGED <<activityVars, blockVars, win, guests, seen, now,
                   stale, whole, twins, told>>

RefundInstead(b) ==
    /\ state[b] = "gone"
    /\ ~(listed /\ win[b].to > now /\ recoverySlotAvailable(b))
    /\ Close(b)
    /\ UNCHANGED <<activityVars, blockVars, now>>

(* ---------------------- Vendors and admins ----------------------------- *)

\* assignMissingUnits looks at the bookings that still lie ahead.
Live == { b \in Holding : win[b].to > now }
Placed == { b \in Live : unit[b] # NoUnit }
Unplaced == { b \in Live : unit[b] = NoUnit }

\* The bookings without a unit, each with its turn, earliest stay first; the
\* order of creation that breaks ties is left open.
PlacingOrders ==
    { turn \in [Unplaced -> 1 .. Cardinality(Unplaced)] :
        \A b, c \in Unplaced : b # c =>
            turn[b] # turn[c] /\ (turn[b] < turn[c] => win[b].from <= win[c].from) }

\* Bug: whole units are shared like seats.
UnitsForSharing(a, p, b) ==
    { u \in 1 .. a.unitCount :
        maxConcurrentInWindow({ c \in DOMAIN p : p[c] = u /\ Overlaps(win[c], win[b]) }, win[b])
          + guests[b] <= a.unitCapacity }

\* The units of row a that can take b beside the placements p.
UnitsFor(a, p, b) ==
    { u \in 1 .. a.unitCount :
        LET inUnit == { c \in DOMAIN p : p[c] = u /\ Overlaps(win[c], win[b]) } IN
        IF rentsWholeUnit(a)
        THEN inUnit = {}
        ELSE maxConcurrentInWindow(inUnit, win[b]) + guests[b] <= a.unitCapacity }

\* What has a unit when it is the turn of b: the bookings that had one, and
\* those that went before.
PlacedBefore(turn, p, b) ==
    [c \in Placed \cup { x \in Unplaced : turn[x] < turn[b] } |->
        IF c \in Placed THEN unit[c] ELSE p[c]]

\* Each in its turn gets the first unit that fits; no p fits if one finds none.
FirstFit(a, turn, p) ==
    \A b \in Unplaced :
        LET units == UnitsFor(a, PlacedBefore(turn, p, b), b)
        IN  units # {} /\ p[b] = Min(units)

\* updateActivity: the row, and with units a unit for every booking without
\* one, or nothing at all.  A vendor's edit takes the activity off the list.
UpdateActivity ==
    \E e \in Edits :
        LET a == MakeActivity(activity.bookingType, e) IN
        /\ a # activity
        /\ activity' = a
        /\ listed' \in {listed, FALSE}
        /\ IF a.hasUnits
           THEN /\ \A b \in Placed : unit[b] \in 1 .. a.unitCount
                /\ \E turn \in PlacingOrders, p \in [Unplaced -> 1 .. a.unitCount] :
                     /\ FirstFit(a, turn, p)
                     /\ unit' = [b \in Bookings |-> IF b \in Unplaced THEN p[b] ELSE unit[b]]
                /\ whole' = IF rentsWholeUnit(a) THEN whole \cup Unplaced ELSE whole
           ELSE UNCHANGED <<unit, whole>>
        /\ UNCHANGED <<blockVars, state, win, guests, frozen, seen, now,
                       stale, returned, twins, told>>

\* An admin approves the activity again.
Approve ==
    /\ ~listed
    /\ listed' = TRUE
    /\ UNCHANGED <<activity, blockVars, bookingVars, now, history>>

\* Whole days, or one hour from a slot's start.
BlockWindows ==
    { Window(DayStart(x[1]), DayStart(x[1] + x[2])) : x \in (0 .. Days[activity.bookingType] - 1) \X (1 .. BlockDays) }
      \cup IF activity.bookingType = "DAILY" THEN {}
           ELSE { Window(w.from, w.from + HourTicks) :
                    w \in UNION { computeSlots[d] : d \in 0 .. Days["HOURLY"] - 1 } }

\* The database refuses a block that overlaps another one.
AddBlock(v) ==
    /\ v.to > now /\ Cardinality(blocks) < MaxBlocks
    /\ ~\E x \in blocks : Overlaps(x, v)
    /\ blocks' = blocks \cup {v}
    /\ counting' = counting \cup {v}
    /\ told' = told \cup
         { <<b, v>> : b \in { x \in Bookings : state[x] = "asked"
                                /\ Overlaps(v, BlockWindow(activity.bookingType, win[x])) } }
    /\ UNCHANGED <<activityVars, bookingVars, now, stale, returned, whole, twins>>

\* affectedBookings, counted after the insert: of a whole-day block all that
\* overlap it, of an hour only those that start in it.
IsSlotLock(v) == v.from % DayTicks # 0 \/ v.to % DayTicks # 0
\* Bug: unpaid holds are not counted.
AffectedPaid(v) == { b \in Bookings : state[b] = "sure" /\ Overlaps(win[b], v) }
Affected(v) ==
    { b \in Holding : IF IsSlotLock(v) THEN v.from <= win[b].from /\ win[b].from < v.to
                      ELSE Overlaps(win[b], v) }

CountAffected(v) ==
    /\ counting' = counting \ {v}
    /\ told' = told \cup { <<b, v>> : b \in Affected(v) }
    /\ UNCHANGED <<activityVars, blocks, bookingVars, now, stale, returned, whole, twins>>

RemoveBlock(v) ==
    /\ blocks' = blocks \ {v}
    /\ counting' = counting \ {v}
    /\ told' = { t \in told : t[2] # v }
    /\ UNCHANGED <<activityVars, bookingVars, now, stale, returned, whole, twins>>

Tick ==
    /\ now' = now + ClockStep[activity.bookingType]
    /\ now' <= MaxNow[activity.bookingType]
    /\ UNCHANGED <<activityVars, blockVars, bookingVars, history>>

Init ==
    /\ activity \in Activities
    /\ listed = TRUE
    /\ blocks = {} /\ counting = {}
    /\ state = [b \in Bookings |-> "none"]
    /\ win = [b \in Bookings |-> NoWindow]
    /\ guests = [b \in Bookings |-> 0]
    /\ unit = [b \in Bookings |-> NoUnit]
    /\ frozen = [b \in Bookings |-> NoUnit]
    /\ seen = [b \in Bookings |-> NoActivity]
    /\ now = 0
    /\ stale = {} /\ returned = {} /\ whole = {}
    /\ twins = {} /\ told = {}

Customer(b) ==
    \/ \E w \in Requests(activity.bookingType), g \in 1 .. MaxGuests : Ask(b, w, g)
    \/ Commit(b) \/ Refuse(b) \/ Pay(b) \/ Reap(b) \/ Cancel(b) \/ Lapse(b)
    \/ Recover(b) \/ RefundInstead(b)

Next ==
    \/ \E b \in Bookings : Customer(b)
    \/ UpdateActivity \/ Approve \/ Tick
    \/ \E v \in BlockWindows \cap BlocksTried : AddBlock(v)
    \/ \E v \in blocks : RemoveBlock(v)
    \/ \E v \in counting : CountAffected(v)

Spec == Init /\ [][Next]_vars

(* ---------------------------- Properties ------------------------------- *)

TypeOK ==
    /\ activity \in Rows /\ listed \in BOOLEAN
    /\ counting \subseteq blocks
    /\ \A v \in blocks : v \in [from : Nat, to : Nat]
    /\ state \in [Bookings -> States]
    /\ win \in [Bookings -> [from : Nat, to : Nat]]
    /\ guests \in [Bookings -> 0 .. MaxGuests]
    /\ unit \in [Bookings -> Int \cup {NoUnit}]
    /\ frozen \in [Bookings -> Int \cup {NoUnit}]
    /\ seen \in [Bookings -> Rows \cup {NoActivity}]
    /\ \A b \in Bookings : state[b] = "asked" <=> seen[b] # NoActivity
    /\ now \in 0 .. MaxNow[activity.bookingType]
    /\ stale \cup returned \cup whole \subseteq Bookings
    /\ twins \subseteq SUBSET Bookings
    /\ told \subseteq Bookings \X blocks

AllWindows == Requests(activity.bookingType)

\* Beside those who are there at any instant of its stay, b, about to get
\* unit'[b], finds its seats, or a unit: each booking without one takes one.
FindsRoom(b) ==
    \A t \in win[b].from .. win[b].to - 1 :
        LET there == { c \in Holding : win[c].from <= t /\ t < win[c].to } IN
        IF rentsWholeUnit(activity)
        THEN /\ Cardinality({ c \in there : unit[c] = unit'[b] }) = 0
             /\ Cardinality({ unit[c] : c \in there } \cap 1 .. activity.unitCount)
                  + Cardinality({ c \in there : unit[c] = NoUnit }) < activity.unitCount
        ELSE IF activity.hasUnits
        THEN GuestsOf({ c \in there : unit[c] \in {unit'[b], NoUnit} }) + guests[b]
               <= activity.unitCapacity
        ELSE GuestsOf(there) + guests[b] <= activity.capacity

\* createBooking, from a row nobody changed meanwhile, never sells what is
\* not there: at no instant of the stay are there more guests than seats, or
\* more units taken than there are.
CommitFits ==
    [][\A b \in Bookings :
        state[b] = "asked" /\ state'[b] = "held" /\ seen[b] = activity => FindsRoom(b)]_vars

\* With units on, a booking ahead has one of the activity's units - unless it
\* was created from a row that had changed, or came back after its hold had
\* lapsed, when assignMissingUnits could not see it.
UnitKnown ==
    activity.hasUnits =>
        \A b \in Live \ (stale \cup returned) : unit[b] \in 1 .. activity.unitCount

\* A comment of unassignedOverlapping has it that a booking without a unit
\* is "supposed to be impossible" on an activity with units.
NeverUnplaced == activity.hasUnits => Unplaced = {}

\* Two bookings ahead that each took a whole unit are never in the same unit
\* at the same time, whatever edits came in between, unless one came back.
UnitExclusive ==
    \A b, c \in (whole \cap Live) \ returned :
        b # c /\ Overlaps(win[b], win[c]) => unit[b] # unit[c]

\* What a customer who rented a unit relies on: a unit that exists, alone.
UnitsSound == UnitKnown /\ UnitExclusive

\* A customer has two bookings for the same times only if the two requests
\* ran at the same time, or the first came back after it had lapsed.
TwinsOnlyByOverlap ==
    \A b, c \in Holding \ returned :
        b # c /\ Owner[b] = Owner[c] /\ win[b] = win[c] => {b, c} \in twins

\* A booking over a block has been counted for the vendor who set the block,
\* unless its request had passed the check before, it came back, or the
\* block is of an hour the booking did not start in.
AffectedTold ==
    \A b \in Holding \ returned, v \in blocks \ counting :
        Overlaps(v, BlockWindow(activity.bookingType, win[b])) =>
            \/ <<b, v>> \in told
            \/ IsSlotLock(v) /\ win[b].from < v.from

\* No booking in a unit the activity no longer has: the calendar counts it
\* as a unit taken, createBooking does not.
InRange == \A b \in Holding : activity.hasUnits => unit[b] \in 1 .. activity.unitCount \cup {NoUnit}
NothingOversold ==
    \A b \in Holding : \A t \in win[b].from .. win[b].to - 1 :
        LET mine(c) == activity.hasUnits => unit[c] = unit[b]
            there == { c \in Holding : mine(c) /\ win[c].from <= t /\ t < win[c].to }
        IN  IF rentsWholeUnit(activity) THEN there = {b}
            ELSE GuestsOf(there) <= (IF activity.hasUnits THEN activity.unitCapacity
                                     ELSE activity.capacity)

\* The sweep of maxConcurrentInWindow finds the largest crowd of any instant
\* of the window, and is never more than the plain sum: staggered bookings
\* do not count twice.
SweepIsPeak ==
    \A w \in AllWindows :
        maxConcurrentInWindow(Holding, w)
          = Max({0} \cup { GuestsOf({ b \in Holding : win[b].from <= t /\ t < win[b].to }) :
                             t \in w.from .. w.to - 1 })

\* A slot shows something left exactly when one guest would get it.
SlotViewAgrees ==
    activity.bookingType = "HOURLY" =>
        \A d \in 0 .. Days["HOURLY"] - 1 : \A w \in computeSlots[d] :
            SlotAvailable(w) > 0 <=> CapacityAccepts(activity, w, 1)

\* The stay view promises nothing the server refuses, and for a single night,
\* or whole units, it offers all there is.
StayViewAgrees ==
    activity.bookingType = "DAILY" =>
        \A w \in DailyWindows :
            LET accepted == ~Blocked("DAILY", w) /\ CapacityAccepts(activity, w, 1) IN
            /\ StayAvailable(w) > 0 => accepted
            /\ accepted /\ (activity.hasUnits \/ DayOf(w.to) = DayOf(w.from) + 1)
                 => StayAvailable(w) > 0

\* A day the calendar shows as full has nothing to book; a night of a DAILY
\* activity that it shows as free can be booked.
CalendarAgrees ==
    IF activity.bookingType = "HOURLY"
    THEN InRange /\ NothingOversold =>
           \A d \in 0 .. Days["HOURLY"] - 1 : IsFullyBooked(d) =>
               \A w \in computeSlots[d] : Blocked("HOURLY", w) \/ ~CapacityAccepts(activity, w, 1)
    ELSE (InRange \/ ~activity.hasUnits) =>
           \A d \in 0 .. Days["DAILY"] - 2 : IsFullyBooked(d) <=>
               Blocked("DAILY", Stay(d, d + 1)) \/ ~CapacityAccepts(activity, Stay(d, d + 1), 1)

\* On an activity without units the range picker offers nothing the server
\* would refuse, and the calendar offers exactly the stays it would take.
PickersAgree ==
    ~activity.hasUnits =>
        IF activity.bookingType = "HOURLY"
        THEN \A w \in HourlyWindows, g \in 1 .. PooledCapacity : RangeOffered(w, g) => ServerAccepts(w, g)
        ELSE \A w \in DailyWindows :
               StayOffered(DayOf(w.from), DayOf(w.to)) <=> ServerAccepts(w, 1)

\* The four places that say what is left agree with what createBooking will do,
\* each as far as it can: a slot's view in both directions; a stay's and the
\* calendar of days in both for one night or whole units, else the view never
\* promises what is refused; the calendar of hours never hides a day that has
\* room, while nothing is oversold or out of range; the pickers without units.
ViewsAgree == SlotViewAgrees /\ StayViewAgrees /\ CalendarAgrees /\ PickersAgree

\* A comment of hour-range-picker says of its walk over the slots that it
\* "never approves an impossible" range; it is given the total of all units.
RangePickerSound ==
    activity.bookingType = "HOURLY" =>
        \A w \in HourlyWindows, g \in 1 .. PooledCapacity : RangeOffered(w, g) => ServerAccepts(w, g)
=============================================================================
