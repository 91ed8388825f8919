------------------------- MODULE AvailabilityProofs -------------------------
(***************************************************************************)
(* Theorems about Availability, for any activities, edits, customers and   *)
(* windows.                                                                *)
(***************************************************************************)
EXTENDS Availability, Sums, FiniteSetTheorems, TLAPS

(* --------------------------- Arithmetic -------------------------------- *)

LEMMA LaterOfTwo ==
    ASSUME NEW x \in Nat, NEW y \in Nat
    PROVE  /\ Max({x, y}) = IF x >= y THEN x ELSE y
           /\ Min({x, y}) = IF x <= y THEN x ELSE y
BY DEF Max, Min

\* A number of whole days: the ticks of its start.
LEMMA DayStartOf ==
    ASSUME NEW n \in Nat \ {0}, NEW d \in Nat
    PROVE  d * n \in Nat /\ (d * n) % n = 0 /\ (d * n) \div n = d
<1>1. d * n \in Nat
  OBVIOUS
<1>. QED BY <1>1

\* The day of a tick starts at the tick or before it, the next one after it.
LEMMA DayHolds ==
    ASSUME NEW n \in Nat \ {0}, NEW x \in Nat
    PROVE  /\ x \div n \in Nat
           /\ (x \div n) * n <= x
           /\ x < (x \div n + 1) * n
OBVIOUS

\* A day's start that comes after the start of the day of x comes after x.
LEMMA NextDayIsLater ==
    ASSUME NEW n \in Nat \ {0}, NEW x \in Nat, NEW k \in Nat,
           k % n = 0, k > (x \div n) * n
    PROVE  k > x
OBVIOUS

(* ----------------------- The inductive invariant ----------------------- *)

\* The rows an activity can have, and what an edit makes of one.
LEMMA RowFields ==
    ASSUME NEW a \in Rows
    PROVE  /\ a.bookingType \in Types
           /\ a.perUnit \in BOOLEAN /\ a.hasUnits \in BOOLEAN
           /\ a.unitCount \in Nat /\ a.unitCapacity \in Nat /\ a.capacity \in Nat
           /\ a.hasUnits => a.unitCount > 0 /\ a.unitCapacity > 0
<1>1. CASE a \in Activities
  BY <1>1, AvailabilityConstants
<1>2. CASE \E x \in Types \X Edits : a = MakeActivity(x[1], x[2])
  <2>1. PICK x \in Types \X Edits : a = MakeActivity(x[1], x[2])
    BY <1>2
  <2>2. /\ x[1] \in Types
        /\ x[2].perUnit \in BOOLEAN /\ x[2].hasUnits \in BOOLEAN
        /\ x[2].unitCount \in Nat /\ x[2].unitCapacity \in Nat /\ x[2].capacity \in Nat
        /\ x[2].hasUnits => x[2].unitCount > 0 /\ x[2].unitCapacity > 0
    BY AvailabilityConstants
  <2>. QED BY <2>1, <2>2 DEF MakeActivity
<1>. QED BY <1>1, <1>2 DEF Rows

LEMMA EditedRow ==
    ASSUME NEW a \in Rows, NEW e \in Edits
    PROVE  /\ MakeActivity(a.bookingType, e) \in Rows
           /\ MakeActivity(a.bookingType, e).bookingType = a.bookingType
<1>1. a.bookingType \in Types
  BY RowFields
<1>2. <<a.bookingType, e>> \in Types \X Edits
  BY <1>1
<1>3. MakeActivity(a.bookingType, e) = MakeActivity(<<a.bookingType, e>>[1], <<a.bookingType, e>>[2])
  OBVIOUS
<1>. QED BY <1>2, <1>3 DEF Rows, MakeActivity

\* What a customer asks for is a window.
LEMMA RequestIsWindow ==
    ASSUME NEW type, NEW w \in Requests(type)
    PROVE  w \in [from : Nat, to : Nat]
<1>1. ASSUME NEW d \in Nat, NEW t \in Nat
      PROVE  DayStart(d) + t \in Nat
  <2>1. d * DayTicks \in Nat
    BY DayStartOf, AvailabilityConstants
  <2>. QED BY <2>1, <1>1 DEF DayStart
<1>2. CASE w \in HourlyWindows
  <2>1. PICK x \in (0 .. Days["HOURLY"] - 1) \X (0 .. DayTicks - 1) \X (0 .. DayTicks - 1) :
             w = Window(DayStart(x[1]) + x[2], DayStart(x[1]) + x[3])
    BY <1>2 DEF HourlyWindows
  <2>2. Days["HOURLY"] \in Nat /\ DayTicks \in Nat
    BY AvailabilityConstants DEF Types
  <2>3. x[1] \in Nat /\ x[2] \in Nat /\ x[3] \in Nat
    BY <2>2
  <2>. QED BY <2>1, <2>3, <1>1 DEF Window
<1>3. CASE w \in DailyWindows
  <2>1. PICK x \in (0 .. Days["DAILY"] - 1) \X (0 .. Days["DAILY"] - 1) : w = Stay(x[1], x[2])
    BY <1>3 DEF DailyWindows
  <2>2. /\ Days["DAILY"] \in Nat /\ DayTicks \in Nat
        /\ CheckIn["DAILY"] \in 0 .. DayTicks - 1 /\ CheckOut["DAILY"] \in 0 .. DayTicks - 1
    BY AvailabilityConstants DEF Types
  <2>3. x[1] \in Nat /\ x[2] \in Nat /\ CheckIn["DAILY"] \in Nat /\ CheckOut["DAILY"] \in Nat
    BY <2>2
  <2>. QED BY <2>1, <2>3, <1>1 DEF Window, Stay
<1>. QED BY <1>2, <1>3 DEF Requests

\* A block is a window; on a DAILY activity it is of whole days.
LEMMA BlockIsWindow ==
    ASSUME NEW v \in BlockWindows, activity \in Rows
    PROVE  /\ v \in [from : Nat, to : Nat]
           /\ activity.bookingType = "DAILY" => v.from % DayTicks = 0 /\ v.to % DayTicks = 0
<1>. DEFINE type == activity.bookingType
<1>1. type \in Types
  BY RowFields
<1>2. /\ Days[type] \in Nat /\ Days["HOURLY"] \in Nat /\ BlockDays \in Nat
      /\ DayTicks \in Nat \ {0} /\ HourTicks \in Nat
      /\ Duration["HOURLY"] \in Nat
  BY <1>1, AvailabilityConstants DEF Types
<1>3. CASE \E x \in (0 .. Days[type] - 1) \X (1 .. BlockDays) :
              v = Window(DayStart(x[1]), DayStart(x[1] + x[2]))
  <2>1. PICK x \in (0 .. Days[type] - 1) \X (1 .. BlockDays) :
             v = Window(DayStart(x[1]), DayStart(x[1] + x[2]))
    BY <1>3
  <2>2. x[1] \in Nat /\ x[1] + x[2] \in Nat
    BY <1>2
  <2>. QED BY <2>1, <2>2, <1>2, DayStartOf DEF Window, DayStart
<1>4. CASE /\ type # "DAILY"
           /\ \E w \in UNION { computeSlots[d] : d \in 0 .. Days["HOURLY"] - 1 } :
                v = Window(w.from, w.from + HourTicks)
  <2>1. PICK d \in 0 .. Days["HOURLY"] - 1 : \E w \in computeSlots[d] :
             v = Window(w.from, w.from + HourTicks)
    BY <1>4
  <2>2. PICK t \in 0 .. DayTicks - 1 : v = Window(DayStart(d) + t, DayStart(d) + t + HourTicks)
    BY <2>1 DEF computeSlots, Window
  <2>3. d \in Nat /\ t \in Nat
    BY <1>2
  <2>4. DayStart(d) \in Nat
    BY <1>2, <2>3, DayStartOf DEF DayStart
  <2>. QED BY <2>2, <2>3, <2>4, <1>2, <1>4 DEF Window
<1>. QED BY <1>3, <1>4 DEF BlockWindows

\* The unit createBooking finds is one of the free ones, or none.
LEMMA UnitIsFree ==
    ASSUME NEW a \in Rows, NEW w, NEW g, ResolvedUnit(a, w, g) # NoUnit
    PROVE  /\ a.hasUnits
           /\ ResolvedUnit(a, w, g) \in FreeUnits(a, w, g)
           /\ ResolvedUnit(a, w, g) \in 1 .. a.unitCount
<1>. DEFINE free == FreeUnits(a, w, g)
            out == unassignedOverlapping(w)
<1>1. a.hasUnits /\ Usable(a, w, g) > 0 /\ ResolvedUnit(a, w, g) = Min(free)
  BY DEF ResolvedUnit
<1>2. free \subseteq 1 .. a.unitCount /\ a.unitCount \in Nat
  BY RowFields DEF FreeUnits
<1>3. Cardinality(out) \in Nat
  <2>1. out \subseteq Bookings
    BY DEF unassignedOverlapping, InUnit, Overlapping, Holding
  <2>2. IsFiniteSet(Bookings)
    BY AvailabilityConstants
  <2>. QED BY <2>1, <2>2, FS_Subset, FS_CardinalityType
<1>4. free # {}
  <2>1. SUFFICES ASSUME free = {} PROVE FALSE
    OBVIOUS
  <2>2. Cardinality(free) = 0
    BY <2>1, FS_EmptySet
  <2>. HIDE DEF free, out
  <2>3. Usable(a, w, g) = Cardinality(free) - (IF rentsWholeUnit(a) THEN Cardinality(out) ELSE 0)
    BY DEF Usable, free, out
  <2>. QED BY <1>1, <1>3, <2>2, <2>3
<1>5. free \subseteq Nat
  BY <1>2
<1>. QED
  <2>. HIDE DEF free
  <2>1. Min(free) \in free
    BY <1>4, <1>5, LeastIsOne
  <2>. QED BY <1>1, <1>2, <2>1 DEF free

\* An empty unit: what free means when whole units are sold.
LEMMA FreeIsEmpty ==
    ASSUME NEW a, NEW w, NEW g, NEW u \in FreeUnits(a, w, g), rentsWholeUnit(a)
    PROVE  InUnit(w, u) = {}
BY DEF FreeUnits

\* Every step keeps each variable in its range.
LEMMA TypeKept == TypeOK /\ [Next]_vars => TypeOK'
<1>. SUFFICES ASSUME TypeOK, [Next]_vars PROVE TypeOK'
  OBVIOUS
<1>. USE DEF TypeOK
<1>. /\ NoUnit \notin Int /\ NoActivity \notin Rows
     /\ \A t \in Types : MaxNow[t] \in Nat /\ ClockStep[t] \in Nat \ {0}
  BY AvailabilityConstants
<1>1. ASSUME NEW b \in Bookings, NEW w \in Requests(activity.bookingType), NEW g \in 1 .. MaxGuests,
             Ask(b, w, g)
      PROVE  TypeOK'
  <2>1. w \in [from : Nat, to : Nat]
    BY RequestIsWindow
  <2>2. g \in 0 .. MaxGuests
    BY AvailabilityConstants
  <2>3. twins' \subseteq SUBSET Bookings
    BY <1>1 DEF Ask
  <2>. QED BY <1>1, <2>1, <2>2, <2>3 DEF Ask, States, activityVars, blockVars
<1>2. ASSUME NEW b \in Bookings, Close(b), UNCHANGED <<activityVars, blockVars, now>>
      PROVE  TypeOK'
  <2>1. 0 \in 0 .. MaxGuests /\ NoWindow \in [from : Nat, to : Nat]
    BY AvailabilityConstants DEF NoWindow, Window
  <2>. QED BY <1>2, <2>1 DEF Close, States, activityVars, blockVars
<1>3. ASSUME NEW b \in Bookings, Commit(b)
      PROVE  TypeOK'
  <2>. DEFINE u == ResolvedUnit(seen[b], win[b], guests[b])
  <2>1. seen[b] \in Rows
    BY <1>3 DEF Commit
  <2>2. u \in Int \cup {NoUnit}
    <3>1. CASE u = NoUnit
      BY <3>1
    <3>2. CASE u # NoUnit
      <4>. u \in 1 .. seen[b].unitCount
        BY <3>2, <2>1, UnitIsFree
      <4>. QED BY <2>1, RowFields
    <3>. QED BY <3>1, <3>2
  <2>. HIDE DEF u
  <2>3. /\ state' = [state EXCEPT ![b] = "held"]
        /\ unit' = [unit EXCEPT ![b] = u] /\ frozen' = [frozen EXCEPT ![b] = u]
        /\ seen' = [seen EXCEPT ![b] = NoActivity]
        /\ stale' \subseteq Bookings /\ whole' \subseteq Bookings
        /\ UNCHANGED <<activityVars, blockVars, win, guests, now, returned, twins, told>>
    BY <1>3 DEF Commit, u
  <2>. QED BY <2>2, <2>3 DEF States, activityVars, blockVars
<1>4. ASSUME NEW b \in Bookings, Lapse(b) \/ Pay(b) \/ Reap(b) \/ Recover(b)
      PROVE  TypeOK'
  <2>1. CASE Lapse(b)
    BY <2>1 DEF Lapse, States, activityVars, blockVars, history
  <2>2. CASE Pay(b)
    BY <2>2 DEF Pay, States, activityVars, blockVars, history
  <2>3. CASE Reap(b)
    BY <2>3 DEF Reap, States, activityVars, blockVars, history
  <2>4. CASE Recover(b)
    BY <2>4 DEF Recover, States, activityVars, blockVars
  <2>. QED BY <1>4, <2>1, <2>2, <2>3, <2>4
<1>5. CASE UpdateActivity
  <2>1. PICK e \in Edits :
          LET a == MakeActivity(activity.bookingType, e) IN
          /\ activity' = a
          /\ listed' \in {listed, FALSE}
          /\ IF a.hasUnits
             THEN /\ \E turn \in PlacingOrders, p \in [Unplaced -> 1 .. a.unitCount] :
                       unit' = [b \in Bookings |-> IF b \in Unplaced THEN p[b] ELSE unit[b]]
                  /\ whole' = IF rentsWholeUnit(a) THEN whole \cup Unplaced ELSE whole
             ELSE UNCHANGED <<unit, whole>>
          /\ UNCHANGED <<blockVars, state, win, guests, frozen, seen, now,
                         stale, returned, twins, told>>
    BY <1>5 DEF UpdateActivity
  <2>. DEFINE a == MakeActivity(activity.bookingType, e)
  <2>2. a \in Rows /\ a.bookingType = activity.bookingType
    BY EditedRow
  <2>3. a.unitCount \in Nat
    BY <2>2, RowFields
  <2>4. Unplaced \subseteq Bookings
    BY DEF Unplaced, Live, Holding
  <2>. HIDE DEF a
  <2>5. unit' \in [Bookings -> Int \cup {NoUnit}] /\ whole' \subseteq Bookings
    <3>1. CASE a.hasUnits
      <4>1. PICK p \in [Unplaced -> 1 .. a.unitCount] :
              unit' = [b \in Bookings |-> IF b \in Unplaced THEN p[b] ELSE unit[b]]
        BY <2>1, <3>1 DEF a
      <4>2. \A b \in Unplaced : p[b] \in Int
        BY <2>3
      <4>3. whole' \subseteq Bookings
        BY <2>1, <2>4, <3>1 DEF a
      <4>. QED BY <4>1, <4>2, <4>3
    <3>2. CASE ~a.hasUnits
      BY <2>1, <3>2 DEF a
    <3>. QED BY <3>1, <3>2
  <2>. QED BY <2>1, <2>2, <2>5 DEF a, blockVars
<1>6. CASE Approve
  BY <1>6 DEF Approve, blockVars, bookingVars, history
<1>7. CASE Tick
  <2>1. activity.bookingType \in Types
    BY RowFields
  <2>. QED BY <1>7, <2>1 DEF Tick, activityVars, blockVars, bookingVars, history
<1>8. ASSUME NEW v \in BlockWindows, AddBlock(v)
      PROVE  TypeOK'
  BY <1>8, BlockIsWindow DEF AddBlock, activityVars, bookingVars
<1>9. ASSUME NEW v \in blocks, RemoveBlock(v)
      PROVE  TypeOK'
  BY <1>9 DEF RemoveBlock, activityVars, bookingVars
<1>10. ASSUME NEW v \in counting, CountAffected(v)
       PROVE  TypeOK'
  BY <1>10 DEF CountAffected, activityVars, bookingVars, Affected, Holding
<1>11. CASE UNCHANGED vars
  BY <1>11 DEF vars, activityVars, blockVars, bookingVars, history
<1>. QED
  BY <1>1, <1>2, <1>3, <1>4, <1>5, <1>6, <1>7, <1>8, <1>9, <1>10, <1>11
     DEF Next, Customer, Refuse, Cancel, RefundInstead

(* ------------------------------- Units --------------------------------- *)

\* A booking that is to have a unit to itself has been given one, and is no
\* request any more.
WholeIsPlaced ==
    /\ \A b \in Bookings : state[b] \in {"none", "asked"} => b \notin whole
    /\ \A b \in (whole \cap Holding) \ returned : unit[b] # NoUnit

UnitsInv == TypeOK /\ WholeIsPlaced /\ UnitsSound

\* Whoever holds something else, or nothing, holds it where he did.
LEMMA UnitsStay ==
    ASSUME UnitsInv, TypeOK',
           NEW S \in SUBSET Bookings,
           UNCHANGED <<activity, win, now>>,
           \A b \in Bookings \ S :
             /\ state'[b] = state[b] /\ unit'[b] = unit[b]
             /\ b \in whole' <=> b \in whole
             /\ b \in returned' <=> b \in returned
             /\ b \in stale' <=> b \in stale,
           \A b \in S :
             /\ state'[b] \notin {"none", "asked"}
             /\ state'[b] \notin {"held", "sure"} \/ b \in returned'
    PROVE  UnitsInv'
<1>1. \A b \in Holding' \ returned' : b \notin S /\ b \in Holding \ returned
  BY DEF Holding
<1>2. \A b \in Live' \ returned' : b \notin S /\ b \in Live \ returned
  BY <1>1 DEF Live
<1>3. WholeIsPlaced'
  <2>1. ASSUME NEW b \in Bookings, state'[b] \in {"none", "asked"} PROVE b \notin whole'
    BY <2>1 DEF UnitsInv, WholeIsPlaced
  <2>2. ASSUME NEW b \in (whole' \cap Holding') \ returned' PROVE unit'[b] # NoUnit
    <3>1. b \in Bookings /\ b \notin S /\ b \in Holding \ returned
      BY <1>1 DEF Holding
    <3>. QED BY <3>1 DEF UnitsInv, WholeIsPlaced
  <2>. QED BY <2>1, <2>2 DEF WholeIsPlaced
<1>4. UnitKnown'
  <2>. SUFFICES ASSUME activity.hasUnits, NEW b \in Live' \ (stale' \cup returned')
                PROVE  unit'[b] \in 1 .. activity.unitCount
    BY DEF UnitKnown
  <2>1. b \in Bookings /\ b \notin S /\ b \in Live \ returned
    BY <1>2 DEF Live, Holding
  <2>. QED BY <2>1 DEF UnitsInv, UnitsSound, UnitKnown
<1>5. UnitExclusive'
  <2>. SUFFICES ASSUME NEW b \in (whole' \cap Live') \ returned', NEW c \in (whole' \cap Live') \ returned',
                       b # c, Overlaps(win[b], win[c])
                PROVE  unit'[b] # unit'[c]
    BY DEF UnitExclusive
  <2>1. b \in (whole \cap Live) \ returned /\ c \in (whole \cap Live) \ returned
    BY <1>2 DEF Live, Holding
  <2>2. unit[b] # unit[c]
    BY <2>1 DEF UnitsInv, UnitsSound, UnitExclusive
  <2>. QED BY <1>2, <2>2 DEF Live, Holding
<1>. QED BY <1>3, <1>4, <1>5 DEF UnitsInv, UnitsSound

\* createBooking gives out a unit that exists and, when units are sold whole,
\* that nobody else is in at the time.
LEMMA CommitUnits ==
    ASSUME UnitsInv, TypeOK', NEW b \in Bookings, Commit(b)
    PROVE  UnitsInv'
<1>. DEFINE a == seen[b]
            u == ResolvedUnit(a, win[b], guests[b])
<1>1. /\ state[b] = "asked"
      /\ a.hasUnits => u # NoUnit
      /\ state' = [state EXCEPT ![b] = "held"]
      /\ unit' = [unit EXCEPT ![b] = u]
      /\ stale' = IF a = activity THEN stale ELSE stale \cup {b}
      /\ whole' = IF rentsWholeUnit(a) THEN whole \cup {b} ELSE whole
      /\ UNCHANGED <<activity, win, now, returned>>
  BY DEF Commit, CapacityAccepts, activityVars
<1>2. a \in Rows /\ b \notin whole
  BY <1>1 DEF UnitsInv, TypeOK, WholeIsPlaced
<1>3. a.hasUnits => (u \in 1 .. a.unitCount /\ u # NoUnit)
  BY <1>1, <1>2, UnitIsFree
<1>4. rentsWholeUnit(a) => InUnit(win[b], u) = {}
  <2>. SUFFICES ASSUME rentsWholeUnit(a) PROVE InUnit(win[b], u) = {}
    OBVIOUS
  <2>1. u # NoUnit
    BY <1>1 DEF rentsWholeUnit
  <2>2. u \in FreeUnits(a, win[b], guests[b])
    BY <1>2, <2>1, UnitIsFree
  <2>. QED BY <2>2, FreeIsEmpty
<1>. HIDE DEF u
<1>5. /\ b \in Holding' /\ b \notin Holding
      /\ \A c \in Bookings \ {b} : state'[c] = state[c] /\ unit'[c] = unit[c]
      /\ unit'[b] = u
      /\ \A c \in Bookings \ {b} : c \in Live' <=> c \in Live
      /\ \A c \in Bookings \ {b} : c \in whole' <=> c \in whole
      /\ \A c \in Bookings \ {b} : c \in Holding' <=> c \in Holding
  BY <1>1 DEF UnitsInv, TypeOK, Holding, Live
<1>6. b \in whole' => rentsWholeUnit(a)
  BY <1>1, <1>2
<1>7. WholeIsPlaced'
  <2>1. \A c \in Bookings : state'[c] \in {"none", "asked"} => c # b
    BY <1>5 DEF Holding
  <2>2. \A c \in Bookings : state'[c] \in {"none", "asked"} => c \notin whole'
    BY <1>5, <2>1 DEF UnitsInv, WholeIsPlaced
  <2>3. ASSUME NEW c \in (whole' \cap Holding') \ returned' PROVE unit'[c] # NoUnit
    <3>1. CASE c = b
      BY <3>1, <1>3, <1>5, <1>6, <2>3 DEF rentsWholeUnit
    <3>2. CASE c # b
      <4>1. c \in Bookings
        BY DEF Holding
      <4>. QED BY <3>2, <4>1, <1>1, <1>5 DEF UnitsInv, WholeIsPlaced
    <3>. QED BY <3>1, <3>2
  <2>. QED BY <2>2, <2>3 DEF WholeIsPlaced
<1>8. UnitKnown'
  <2>. SUFFICES ASSUME activity.hasUnits, NEW c \in Live' \ (stale' \cup returned')
                PROVE  unit'[c] \in 1 .. activity.unitCount
    BY <1>1 DEF UnitKnown
  <2>1. CASE c = b
    BY <2>1, <1>1, <1>3, <1>5
  <2>2. CASE c # b
    <3>1. c \in Bookings /\ c \notin stale
      BY <1>1 DEF Live, Holding
    <3>. QED BY <2>2, <3>1, <1>1, <1>5 DEF UnitsInv, UnitsSound, UnitKnown
  <2>. QED BY <2>1, <2>2
<1>9. UnitExclusive'
  <2>1. ASSUME NEW c \in Live, Overlaps(win[c], win[b]) \/ Overlaps(win[b], win[c]), c # b,
               b \in whole'
        PROVE  unit'[b] # unit'[c]
    <3>1. win[b] \in [from : Nat, to : Nat] /\ win[c] \in [from : Nat, to : Nat]
      BY DEF UnitsInv, TypeOK, Live, Holding
    <3>2. Overlaps(win[c], win[b])
      BY <2>1, <3>1 DEF Overlaps
    <3>3. c \in Bookings /\ c \in Overlapping(win[b])
      BY <3>2 DEF Live, Holding, Overlapping
    <3>. QED BY <3>3, <2>1, <1>4, <1>5, <1>6 DEF InUnit
  <2>. SUFFICES ASSUME NEW c \in (whole' \cap Live') \ returned', NEW d \in (whole' \cap Live') \ returned',
                       c # d, Overlaps(win[c], win[d])
                PROVE  unit'[c] # unit'[d]
    BY <1>1 DEF UnitExclusive
  <2>2. c \in Bookings /\ d \in Bookings
    BY DEF Live, Holding
  <2>3. CASE c = b
    BY <2>1, <2>2, <2>3, <1>5
  <2>4. CASE d = b
    BY <2>1, <2>2, <2>4, <1>5
  <2>5. CASE c # b /\ d # b
    BY <2>2, <2>5, <1>1, <1>5 DEF UnitsInv, UnitsSound, UnitExclusive
  <2>. QED BY <2>3, <2>4, <2>5
<1>. QED BY <1>7, <1>8, <1>9 DEF UnitsInv, UnitsSound

\* assignMissingUnits leaves the bookings that had a unit in it, and puts no
\* other one into a whole unit that is taken.
LEMMA FirstFitIsFree ==
    ASSUME TypeOK, NEW a \in Rows, NEW turn \in PlacingOrders,
           NEW p \in [Unplaced -> 1 .. a.unitCount],
           FirstFit(a, turn, p), rentsWholeUnit(a),
           NEW b \in Unplaced, NEW c \in Live, b # c, Overlaps(win[c], win[b]),
           c \in Placed \/ turn[c] < turn[b]
    PROVE  p[b] # (IF c \in Placed THEN unit[c] ELSE p[c])
<1>. DEFINE before == PlacedBefore(turn, p, b)
            units == UnitsFor(a, before, b)
<1>1. units # {} /\ p[b] = Min(units)
  BY DEF FirstFit
<1>2. units \subseteq Nat
  BY RowFields DEF UnitsFor
<1>3. p[b] \in units
  <2>. HIDE DEF units
  <2>. QED BY <1>1, <1>2, LeastIsOne
<1>4. /\ c \in DOMAIN before
      /\ before[c] = IF c \in Placed THEN unit[c] ELSE p[c]
  BY DEF PlacedBefore, Placed, Unplaced
<1>. HIDE DEF before
<1>5. { x \in DOMAIN before : before[x] = p[b] /\ Overlaps(win[x], win[b]) } = {}
  BY <1>3 DEF UnitsFor
<1>. QED BY <1>4, <1>5

LEMMA EditUnits ==
    ASSUME UnitsInv, TypeOK', UpdateActivity
    PROVE  UnitsInv'
<1>1. PICK e \in Edits :
        LET a == MakeActivity(activity.bookingType, e) IN
        /\ activity' = a
        /\ IF a.hasUnits
           THEN /\ \A b \in Placed : unit[b] \in 1 .. a.unitCount
                /\ \E turn \in PlacingOrders, p \in [Unplaced -> 1 .. a.unitCount] :
                     /\ FirstFit(a, turn, p)
                     /\ unit' = [b \in Bookings |-> IF b \in Unplaced THEN p[b] ELSE unit[b]]
                /\ whole' = IF rentsWholeUnit(a) THEN whole \cup Unplaced ELSE whole
           ELSE UNCHANGED <<unit, whole>>
        /\ UNCHANGED <<state, win, now, stale, returned>>
  BY DEF UpdateActivity
<1>. DEFINE a == MakeActivity(activity.bookingType, e)
<1>2. a \in Rows /\ a.unitCount \in Nat
  BY EditedRow, RowFields DEF UnitsInv, TypeOK
<1>. HIDE DEF a
<1>3. /\ activity' = a /\ UNCHANGED <<state, win, now, stale, returned>>
      /\ Live' = Live /\ Holding' = Holding
  BY <1>1 DEF a, Live, Holding
<1>4. CASE ~a.hasUnits
  <2>1. UNCHANGED <<unit, whole>>
    BY <1>1, <1>4 DEF a
  <2>. QED BY <1>3, <1>4, <2>1
       DEF UnitsInv, WholeIsPlaced, UnitsSound, UnitKnown, UnitExclusive
<1>5. CASE a.hasUnits
  <2>1. PICK turn \in PlacingOrders, p \in [Unplaced -> 1 .. a.unitCount] :
          /\ FirstFit(a, turn, p)
          /\ unit' = [b \in Bookings |-> IF b \in Unplaced THEN p[b] ELSE unit[b]]
    BY <1>1, <1>5 DEF a
  <2>2. /\ \A b \in Placed : unit[b] \in 1 .. a.unitCount
        /\ whole' = IF rentsWholeUnit(a) THEN whole \cup Unplaced ELSE whole
    BY <1>1, <1>5 DEF a
  <2>3. \A b \in Live : /\ b \in Bookings
                        /\ b \in Placed \/ b \in Unplaced
                        /\ unit'[b] = IF b \in Placed THEN unit[b] ELSE p[b]
                        /\ unit'[b] \in 1 .. a.unitCount
    BY <2>1, <2>2 DEF Live, Placed, Unplaced, Holding
  <2>4. NoUnit \notin 1 .. a.unitCount
    BY <1>2, AvailabilityConstants
  <2>5. WholeIsPlaced'
    <3>1. \A b \in Unplaced : state[b] \notin {"none", "asked"}
      BY DEF Unplaced, Live, Holding
    <3>2. \A b \in Bookings : state'[b] \in {"none", "asked"} => b \notin whole'
      BY <1>3, <2>2, <3>1 DEF UnitsInv, WholeIsPlaced
    <3>3. ASSUME NEW b \in (whole' \cap Holding') \ returned' PROVE unit'[b] # NoUnit
      <4>1. CASE b \in Live
        BY <4>1, <2>3, <2>4
      <4>2. CASE b \notin Live
        <5>1. b \in Bookings /\ b \notin Unplaced /\ b \in (whole \cap Holding) \ returned
          BY <4>2, <1>3, <2>2 DEF Unplaced, Holding
        <5>. QED BY <5>1, <2>1 DEF UnitsInv, WholeIsPlaced
      <4>. QED BY <4>1, <4>2
    <3>. QED BY <3>2, <3>3 DEF WholeIsPlaced
  <2>6. UnitKnown'
    BY <1>3, <2>3 DEF UnitKnown
  <2>7. ASSUME NEW b \in Unplaced, NEW c \in Live, b # c,
               Overlaps(win[b], win[c]) \/ Overlaps(win[c], win[b]),
               rentsWholeUnit(a)
        PROVE  unit'[b] # unit'[c]
    <3>1. /\ b \in Live /\ b \notin Placed /\ c \in Bookings /\ b \in Bookings
          /\ c \in Placed \/ c \in Unplaced
      BY <2>3 DEF Unplaced, Placed
    <3>2. win[b] \in [from : Nat, to : Nat] /\ win[c] \in [from : Nat, to : Nat]
      BY <3>1 DEF UnitsInv, TypeOK
    <3>3. Overlaps(win[b], win[c]) /\ Overlaps(win[c], win[b])
      BY <2>7, <3>2 DEF Overlaps
    <3>4. TypeOK
      BY DEF UnitsInv
    <3>5. CASE c \in Placed \/ turn[c] < turn[b]
      BY <1>2, <2>1, <2>3, <2>7, <3>1, <3>3, <3>4, <3>5, FirstFitIsFree
    <3>6. CASE c \in Unplaced /\ turn[b] < turn[c]
      BY <1>2, <2>1, <2>3, <2>7, <3>1, <3>3, <3>4, <3>6, FirstFitIsFree DEF Placed, Unplaced
    <3>7. c \in Unplaced => turn[b] < turn[c] \/ turn[c] < turn[b]
      <4>1. c \in Unplaced => turn[b] \in Int /\ turn[c] \in Int /\ turn[b] # turn[c]
        BY <2>7 DEF PlacingOrders
      <4>. QED BY <4>1
    <3>. QED BY <3>1, <3>5, <3>6, <3>7
  <2>8. UnitExclusive'
    <3>. SUFFICES ASSUME NEW b \in (whole' \cap Live) \ returned, NEW c \in (whole' \cap Live) \ returned,
                         b # c, Overlaps(win[b], win[c])
                  PROVE  unit'[b] # unit'[c]
      BY <1>3 DEF UnitExclusive
    <3>1. CASE rentsWholeUnit(a) /\ b \in Unplaced
      BY <3>1, <2>7
    <3>2. CASE rentsWholeUnit(a) /\ c \in Unplaced
      <4>1. Overlaps(win[c], win[b]) \/ Overlaps(win[b], win[c])
        OBVIOUS
      <4>. QED BY <3>2, <4>1, <2>7
    <3>3. CASE b \notin Unplaced /\ c \notin Unplaced
      <4>1. b \in whole /\ c \in whole /\ unit'[b] = unit[b] /\ unit'[c] = unit[c]
        BY <3>3, <2>2, <2>3
      <4>. QED BY <4>1 DEF UnitsInv, UnitsSound, UnitExclusive
    <3>4. CASE ~rentsWholeUnit(a) /\ (b \in Unplaced \/ c \in Unplaced)
      <4>1. b \in whole /\ c \in whole
        BY <3>4, <2>2
      <4>2. unit[b] # NoUnit /\ unit[c] # NoUnit
        BY <4>1 DEF UnitsInv, WholeIsPlaced, Live
      <4>. QED BY <3>4, <4>2 DEF Unplaced
    <3>. QED BY <3>1, <3>2, <3>3, <3>4
  <2>. QED BY <2>5, <2>6, <2>8 DEF UnitsInv, UnitsSound
<1>. QED BY <1>4, <1>5

LEMMA UnitsKept == UnitsInv /\ [Next]_vars => UnitsInv'
<1>. SUFFICES ASSUME UnitsInv, [Next]_vars PROVE UnitsInv'
  OBVIOUS
<1>0. TypeOK /\ TypeOK'
  BY TypeKept DEF UnitsInv
<1>. USE <1>0
<1>1. ASSUME NEW b \in Bookings, NEW w, NEW g, Ask(b, w, g)
      PROVE  UnitsInv'
  <2>1. /\ state[b] = "none" /\ state' = [state EXCEPT ![b] = "asked"]
        /\ win' = [win EXCEPT ![b] = w]
        /\ UNCHANGED <<activity, unit, now, stale, returned, whole>>
    BY <1>1 DEF Ask, activityVars
  <2>2. b \notin whole /\ b \notin Holding' /\ \A c \in Bookings \ {b} : c \in Holding' <=> c \in Holding
    BY <2>1 DEF UnitsInv, WholeIsPlaced, TypeOK, Holding
  <2>3. \A c \in Holding' : c \in Bookings /\ c # b /\ win'[c] = win[c] /\ c \in Holding
    BY <2>1, <2>2 DEF Holding, TypeOK
  <2>4. \A c \in Live' : c \in Live /\ c # b /\ win'[c] = win[c]
    BY <2>1, <2>3 DEF Live
  <2>5. WholeIsPlaced'
    BY <2>1, <2>2, <2>3 DEF UnitsInv, WholeIsPlaced, TypeOK
  <2>6. UnitKnown'
    BY <2>1, <2>4 DEF UnitsInv, UnitsSound, UnitKnown
  <2>7. UnitExclusive'
    BY <2>1, <2>4 DEF UnitsInv, UnitsSound, UnitExclusive, Overlaps
  <2>. QED BY <2>5, <2>6, <2>7 DEF UnitsInv, UnitsSound
<1>2. ASSUME NEW b \in Bookings, Close(b), UNCHANGED <<activityVars, blockVars, now>>
      PROVE  UnitsInv'
  <2>1. /\ state' = [state EXCEPT ![b] = "off"] /\ unit' = [unit EXCEPT ![b] = NoUnit]
        /\ win' = [win EXCEPT ![b] = NoWindow]
        /\ stale' = stale \ {b} /\ returned' = returned \ {b} /\ whole' = whole \ {b}
        /\ UNCHANGED <<activity, now>>
    BY <1>2 DEF Close, activityVars
  <2>2. \A c \in Holding' : /\ c \in Bookings /\ c # b /\ c \in Holding
                            /\ win'[c] = win[c] /\ unit'[c] = unit[c]
    BY <2>1 DEF Holding, TypeOK
  <2>3. \A c \in Live' : /\ c \in Bookings /\ c # b /\ c \in Live
                         /\ win'[c] = win[c] /\ unit'[c] = unit[c]
    BY <2>1, <2>2 DEF Live
  <2>4. WholeIsPlaced'
    BY <2>1, <2>2 DEF UnitsInv, WholeIsPlaced, TypeOK
  <2>5. UnitKnown'
    BY <2>1, <2>3 DEF UnitsInv, UnitsSound, UnitKnown
  <2>6. UnitExclusive'
    BY <2>1, <2>3 DEF UnitsInv, UnitsSound, UnitExclusive, Overlaps
  <2>. QED BY <2>4, <2>5, <2>6 DEF UnitsInv, UnitsSound
<1>3. ASSUME NEW b \in Bookings, Commit(b)
      PROVE  UnitsInv'
  BY <1>3, CommitUnits
<1>4. ASSUME NEW b \in Bookings, Pay(b), state[b] = "held"
      PROVE  UnitsInv'
  <2>1. /\ state' = [state EXCEPT ![b] = "sure"]
        /\ UNCHANGED <<activity, win, unit, now, stale, returned, whole>>
    BY <1>4 DEF Pay, activityVars
  <2>2. Holding' = Holding
    BY <1>4, <2>1 DEF Holding, TypeOK
  <2>3. Live' = Live
    BY <2>1, <2>2 DEF Live
  <2>4. \A c \in Bookings : state'[c] \in {"none", "asked"} => state[c] \in {"none", "asked"}
    BY <2>1 DEF TypeOK
  <2>. QED BY <2>1, <2>2, <2>3, <2>4
       DEF UnitsInv, WholeIsPlaced, UnitsSound, UnitKnown, UnitExclusive
<1>5. ASSUME NEW b \in Bookings,
             Lapse(b) \/ Reap(b) \/ Recover(b) \/ (Pay(b) /\ state[b] # "held")
      PROVE  UnitsInv'
  <2>1. /\ UNCHANGED <<activity, win, now>>
        /\ state' \in { [state EXCEPT ![b] = "lapsed"], [state EXCEPT ![b] = "gone"],
                        [state EXCEPT ![b] = "sure"] }
        /\ state'[b] = "sure" => b \in returned'
        /\ \A c \in Bookings \ {b} : /\ unit'[c] = unit[c]
                                     /\ c \in whole' <=> c \in whole
                                     /\ c \in returned' <=> c \in returned
                                     /\ c \in stale' <=> c \in stale
    BY <1>5 DEF Lapse, Reap, Recover, Pay, TypeOK, activityVars, history
  <2>2. /\ {b} \in SUBSET Bookings
        /\ \A c \in Bookings \ {b} : state'[c] = state[c]
        /\ state'[b] \in {"lapsed", "gone", "sure"}
    BY <2>1 DEF TypeOK
  <2>. QED BY <2>1, <2>2, UnitsStay
<1>6. CASE UpdateActivity
  BY <1>6, EditUnits
<1>7. CASE Tick
  <2>1. /\ now' > now
        /\ UNCHANGED <<activity, state, win, unit, stale, returned, whole>>
    <3>1. now \in Int /\ ClockStep[activity.bookingType] \in Nat \ {0}
      BY RowFields, AvailabilityConstants DEF TypeOK
    <3>. QED BY <1>7, <3>1 DEF Tick, activityVars, bookingVars, history
  <2>2. Holding' = Holding /\ Holding \subseteq Bookings
    BY <2>1 DEF Holding
  <2>3. Live' \subseteq Live
    <3>1. now \in Int /\ now' \in Int /\ \A c \in Bookings : win[c].to \in Int
      BY DEF TypeOK
    <3>. QED BY <2>1, <2>2, <3>1 DEF Live
  <2>. QED BY <2>1, <2>2, <2>3
       DEF UnitsInv, WholeIsPlaced, UnitsSound, UnitKnown, UnitExclusive
<1>8. CASE UNCHANGED <<activity, state, win, unit, now, stale, returned, whole>>
  BY <1>8 DEF UnitsInv, WholeIsPlaced, UnitsSound, UnitKnown, UnitExclusive, Live, Holding
<1>9. ASSUME NEW v, AddBlock(v) \/ RemoveBlock(v) \/ CountAffected(v)
      PROVE  UnitsInv'
  BY <1>8, <1>9 DEF AddBlock, RemoveBlock, CountAffected, activityVars, bookingVars
<1>10. CASE Approve \/ UNCHANGED vars
  BY <1>8, <1>10 DEF Approve, vars, activityVars, bookingVars, history
<1>. QED
  BY <1>1, <1>2, <1>3, <1>4, <1>5, <1>6, <1>7, <1>9, <1>10
     DEF Next, Customer, Refuse, Cancel, RefundInstead

LEMMA UnitsAtFirst == Init => UnitsInv
<1>. SUFFICES ASSUME Init PROVE UnitsInv
  OBVIOUS
<1>1. Types # {} /\ activity.bookingType \in Types /\ activity \in Rows
  BY AvailabilityConstants DEF Init, Types, Rows
<1>2. 0 \in 0 .. MaxNow[activity.bookingType] /\ 0 \in 0 .. MaxGuests
  BY <1>1, AvailabilityConstants
<1>3. Holding = {}
  BY DEF Init, Holding
<1>. QED BY <1>1, <1>2, <1>3
     DEF Init, UnitsInv, TypeOK, WholeIsPlaced, UnitsSound, UnitKnown, UnitExclusive,
         Live, States, NoWindow, Window

\* Every variable stays in its range, in particular a block is counted, and
\* a booking told of it, only while the block is there.
THEOREM TypeInvariant == Spec => []TypeOK
<1>1. UnitsInv => TypeOK
  BY DEF UnitsInv
<1>. QED BY <1>1, UnitsAtFirst, UnitsKept, PTL DEF Spec

\* A booking ahead has one of the activity's units as soon as the activity
\* has units, and those that rented a whole unit have it to themselves, for
\* any number of units and any edits in between (ResolvedUnit, UpdateActivity).
THEOREM UnitsAreSound == Spec => []UnitsSound
<1>1. UnitsInv => UnitsSound
  BY DEF UnitsInv
<1>. QED BY <1>1, UnitsAtFirst, UnitsKept, PTL DEF Spec

(* ------------------------------- Twins --------------------------------- *)

\* Requests count from their first reads on.
Running == { b \in Bookings : state[b] \in {"asked", "held", "sure"} }

TwinsInv ==
    \A b, c \in Running \ returned :
        b # c /\ Owner[b] = Owner[c] /\ win[b] = win[c] => {b, c} \in twins

LEMMA TwinsKept == TypeOK /\ TwinsInv /\ [Next]_vars => TwinsInv'
<1>. SUFFICES ASSUME TypeOK, TwinsInv, [Next]_vars PROVE TwinsInv'
  OBVIOUS
<1>1. ASSUME NEW b \in Bookings, NEW w, NEW g, Ask(b, w, g)
      PROVE  TwinsInv'
  <2>1. /\ state' = [state EXCEPT ![b] = "asked"]
        /\ win' = [win EXCEPT ![b] = w]
        /\ ~HasTwin(b, w)
        /\ twins' = twins \cup { {b, c} : c \in { x \in Bookings : state[x] = "asked"
                                                            /\ Owner[x] = Owner[b] } }
        /\ returned' = returned
    BY <1>1 DEF Ask
  <2>2. ASSUME NEW c \in Running' \ returned', c # b, Owner[b] = Owner[c], win'[b] = win'[c]
        PROVE  {b, c} \in twins'
    <3>1. c \in Bookings /\ state[c] \in {"asked", "held", "sure"} /\ win[c] = w
      BY <2>1, <2>2 DEF Running, TypeOK
    <3>2. CASE state[c] = "asked"
      BY <2>1, <2>2, <3>1, <3>2
    <3>3. CASE state[c] \in {"held", "sure"}
      BY <2>1, <2>2, <3>1, <3>3 DEF HasTwin, Holding
    <3>. QED BY <3>1, <3>2, <3>3
  <2>3. ASSUME NEW c \in Running' \ returned', NEW d \in Running' \ returned',
               c # b, d # b, c # d, Owner[c] = Owner[d], win'[c] = win'[d]
        PROVE  {c, d} \in twins'
    <3>1. c \in Running \ returned /\ d \in Running \ returned /\ win[c] = win[d]
      BY <2>1, <2>3 DEF Running, TypeOK
    <3>. QED BY <2>1, <2>3, <3>1 DEF TwinsInv
  <2>. SUFFICES ASSUME NEW c \in Running' \ returned', NEW d \in Running' \ returned',
                       c # d, Owner[c] = Owner[d], win'[c] = win'[d]
                PROVE  {c, d} \in twins'
    BY DEF TwinsInv
  <2>4. CASE c = b
    BY <2>2, <2>4
  <2>5. CASE d = b
    <3>1. {b, c} \in twins'
      BY <2>2, <2>5
    <3>2. {b, c} = {c, b}
      OBVIOUS
    <3>. QED BY <2>5, <3>1, <3>2
  <2>. QED BY <2>3, <2>4, <2>5
<1>2. ASSUME NEW b \in Bookings, Close(b)
      PROVE  TwinsInv'
  <2>1. /\ state' = [state EXCEPT ![b] = "off"] /\ win' = [win EXCEPT ![b] = NoWindow]
        /\ returned' = returned \ {b} /\ twins' = { t \in twins : b \notin t }
    BY <1>2 DEF Close
  <2>2. \A c \in Running' \ returned' : c # b /\ c \in Running \ returned /\ win'[c] = win[c]
    BY <2>1 DEF Running, TypeOK
  <2>. QED BY <2>1, <2>2 DEF TwinsInv
<1>3. ASSUME NEW b \in Bookings,
             Commit(b) \/ Lapse(b) \/ Pay(b) \/ Reap(b) \/ Recover(b)
      PROVE  TwinsInv'
  <2>1. /\ state[b] \in {"asked", "held"} \/ state'[b] \notin {"asked", "held", "sure"}
             \/ b \in returned'
        /\ \A c \in Bookings \ {b} : state'[c] = state[c]
        /\ returned \subseteq returned'
        /\ UNCHANGED <<win, twins>>
    BY <1>3 DEF Commit, Lapse, Pay, Reap, Recover, TypeOK, history
  <2>2. \A c \in Running' \ returned' : c \in Running \ returned
    BY <2>1 DEF Running
  <2>. QED BY <2>1, <2>2 DEF TwinsInv
<1>4. CASE UNCHANGED <<state, win, returned, twins>>
  BY <1>4 DEF TwinsInv, Running
<1>5. CASE UpdateActivity \/ Approve \/ Tick \/ UNCHANGED vars
  BY <1>4, <1>5 DEF UpdateActivity, Approve, Tick, vars, activityVars, bookingVars, history
<1>6. ASSUME NEW v, AddBlock(v) \/ RemoveBlock(v) \/ CountAffected(v)
      PROVE  TwinsInv'
  BY <1>4, <1>6 DEF AddBlock, RemoveBlock, CountAffected, bookingVars
<1>. QED
  BY <1>1, <1>2, <1>3, <1>5, <1>6 DEF Next, Customer, Refuse, Cancel, RefundInstead

\* A customer books the same times twice only with two requests that ran at
\* the same time, or when the first came back after it had lapsed: the
\* duplicate check of createBooking (Ask) catches every other pair.
THEOREM TwinsOverlapped == Spec => []TwinsOnlyByOverlap
<1>1. Init => TwinsInv
  BY DEF Init, TwinsInv, Running
<1>2. TwinsInv => TwinsOnlyByOverlap
  BY DEF TwinsInv, TwinsOnlyByOverlap, Running, Holding
<1>. QED BY <1>1, <1>2, TypeInvariant, TwinsKept, PTL DEF Spec

(* ------------------------------ Blocks --------------------------------- *)

Crosses(b, v) == Overlaps(v, BlockWindow(activity.bookingType, win[b]))

\* A request is told of the blocks that come in while it runs; the blocks of
\* a DAILY activity are of whole days.
ToldInv ==
    /\ \A b \in Bookings, v \in blocks :
         state[b] = "asked" /\ Crosses(b, v) => <<b, v>> \in told
    /\ AffectedTold
    /\ activity.bookingType = "DAILY" =>
         \A v \in blocks : v.from % DayTicks = 0 /\ v.to % DayTicks = 0

\* What crosses the days of a stay crosses the stay.
LEMMA CrossingBlock ==
    ASSUME TypeOK, ToldInv, NEW b \in Bookings, NEW v \in blocks, Crosses(b, v)
    PROVE  /\ Overlaps(win[b], v)
           /\ IsSlotLock(v) => win[b].from < v.to
<1>1. /\ win[b] \in [from : Nat, to : Nat] /\ v \in [from : Nat, to : Nat]
      /\ DayTicks \in Nat \ {0}
  BY AvailabilityConstants DEF TypeOK
<1>2. CASE activity.bookingType # "DAILY"
  BY <1>1, <1>2 DEF Crosses, BlockWindow, Overlaps
<1>3. CASE activity.bookingType = "DAILY"
  <2>1. v.from % DayTicks = 0 /\ v.to % DayTicks = 0
    BY <1>3 DEF ToldInv
  <2>2. /\ v.from < (win[b].to \div DayTicks) * DayTicks
        /\ v.to > (win[b].from \div DayTicks) * DayTicks
    BY <1>3 DEF Crosses, BlockWindow, Overlaps, Window, DayStart, DayOf
  <2>3. v.to > win[b].from
    BY <1>1, <2>1, <2>2, NextDayIsLater
  <2>4. (win[b].to \div DayTicks) * DayTicks <= win[b].to /\ win[b].to \div DayTicks \in Nat
    BY <1>1, DayHolds
  <2>5. (win[b].to \div DayTicks) * DayTicks \in Nat
    BY <1>1, <2>4, DayStartOf
  <2>6. v.from < win[b].to
    BY <1>1, <2>2, <2>4, <2>5
  <2>. QED BY <2>1, <2>3, <2>6, <1>1 DEF Overlaps, IsSlotLock
<1>. QED BY <1>2, <1>3

LEMMA ToldKept == TypeOK /\ ToldInv /\ [Next]_vars => ToldInv'
<1>. SUFFICES ASSUME TypeOK, ToldInv, [Next]_vars PROVE ToldInv'
  OBVIOUS
<1>0. TypeOK'
  BY TypeKept
<1>1. ASSUME NEW b \in Bookings, NEW w, NEW g, Ask(b, w, g)
      PROVE  ToldInv'
  <2>1. /\ state' = [state EXCEPT ![b] = "asked"] /\ win' = [win EXCEPT ![b] = w]
        /\ ~Blocked(activity.bookingType, w)
        /\ UNCHANGED <<activity, blocks, counting, told, returned>>
    BY <1>1 DEF Ask, activityVars, blockVars
  <2>2. /\ \A v \in blocks : ~Crosses(b, v)'
        /\ \A c \in Bookings \ {b} : state'[c] = state[c] /\ win'[c] = win[c]
        /\ b \notin Holding'
    BY <2>1 DEF Blocked, Crosses, Holding, TypeOK
  <2>3. \A c \in Bookings \ {b}, v \in blocks : Crosses(c, v)' <=> Crosses(c, v)
    BY <2>1, <2>2 DEF Crosses
  <2>. QED BY <2>1, <2>2, <2>3 DEF ToldInv, AffectedTold, Crosses, Holding
<1>2. ASSUME NEW b \in Bookings, Close(b), UNCHANGED <<activityVars, blockVars, now>>
      PROVE  ToldInv'
  <2>1. /\ state' = [state EXCEPT ![b] = "off"] /\ win' = [win EXCEPT ![b] = NoWindow]
        /\ returned' = returned \ {b} /\ told' = { t \in told : t[1] # b }
        /\ UNCHANGED <<activity, blocks, counting>>
    BY <1>2 DEF Close, activityVars, blockVars
  <2>2. /\ \A c \in Bookings \ {b} : state'[c] = state[c] /\ win'[c] = win[c]
        /\ b \notin Holding' /\ state'[b] = "off"
        /\ \A c \in Bookings \ {b}, v \in blocks : <<c, v>> \in told => <<c, v>> \in told'
    BY <2>1 DEF Holding, TypeOK
  <2>3. \A c \in Bookings \ {b}, v \in blocks : Crosses(c, v)' <=> Crosses(c, v)
    BY <2>1, <2>2 DEF Crosses
  <2>. QED BY <2>1, <2>2, <2>3 DEF ToldInv, AffectedTold, Crosses, Holding
<1>3. ASSUME NEW b \in Bookings,
             Commit(b) \/ Lapse(b) \/ Pay(b) \/ Reap(b) \/ Recover(b)
      PROVE  ToldInv'
  <2>1. /\ state[b] \in {"asked", "held"} \/ state'[b] \notin {"held", "sure"} \/ b \in returned'
        /\ state'[b] # "asked"
        /\ \A c \in Bookings \ {b} : state'[c] = state[c]
        /\ returned \subseteq returned'
        /\ UNCHANGED <<activity, blocks, counting, win, told>>
    BY <1>3 DEF Commit, Lapse, Pay, Reap, Recover, TypeOK, activityVars, blockVars, history
  <2>2. \A c \in Holding' \ returned' :
          c \in Bookings /\ c \notin returned /\ (state[c] = "asked" \/ c \in Holding)
    BY <2>1 DEF Holding
  <2>3. \A c \in Bookings : state'[c] = "asked" => state[c] = "asked"
    BY <2>1
  <2>4. \A c \in Bookings, v \in blocks : Crosses(c, v)' <=> Crosses(c, v)
    BY <2>1 DEF Crosses
  <2>5. AffectedTold'
    BY <2>1, <2>2 DEF ToldInv, AffectedTold, Crosses
  <2>. QED BY <2>1, <2>3, <2>4, <2>5 DEF ToldInv
<1>4. CASE UpdateActivity
  <2>1. activity'.bookingType = activity.bookingType
        /\ UNCHANGED <<blocks, counting, state, win, told, returned>>
    BY <1>4, EditedRow DEF UpdateActivity, TypeOK, blockVars
  <2>. QED BY <2>1 DEF ToldInv, AffectedTold, Crosses, Holding
<1>5. ASSUME NEW v \in BlockWindows, AddBlock(v)
      PROVE  ToldInv'
  <2>1. /\ blocks' = blocks \cup {v} /\ counting' = counting \cup {v}
        /\ told' = told \cup
             { <<b, v>> : b \in { x \in Bookings : state[x] = "asked"
                                    /\ Overlaps(v, BlockWindow(activity.bookingType, win[x])) } }
        /\ UNCHANGED <<activity, state, win, returned>>
    BY <1>5 DEF AddBlock, activityVars, bookingVars
  <2>2. ASSUME NEW b \in Bookings, NEW x \in blocks', state[b] = "asked", Crosses(b, x)
        PROVE  <<b, x>> \in told'
    <3>1. CASE x = v
      BY <2>1, <2>2, <3>1 DEF Crosses
    <3>2. CASE x \in blocks
      BY <2>1, <2>2, <3>2 DEF ToldInv
    <3>. QED BY <2>1, <3>1, <3>2
  <2>3. \A b \in Bookings, x \in blocks' : Crosses(b, x)' <=> Crosses(b, x)
    BY <2>1 DEF Crosses
  <2>4. AffectedTold'
    BY <2>1 DEF ToldInv, AffectedTold, Holding
  <2>5. activity'.bookingType = "DAILY" =>
          \A x \in blocks' : x.from % DayTicks = 0 /\ x.to % DayTicks = 0
    BY <2>1, BlockIsWindow DEF ToldInv, TypeOK
  <2>. QED BY <2>1, <2>2, <2>3, <2>4, <2>5 DEF ToldInv
<1>6. ASSUME NEW v \in blocks, RemoveBlock(v)
      PROVE  ToldInv'
  <2>1. /\ blocks' = blocks \ {v} /\ counting' = counting \ {v}
        /\ told' = { t \in told : t[2] # v }
        /\ UNCHANGED <<activity, state, win, returned>>
    BY <1>6 DEF RemoveBlock, activityVars, bookingVars
  <2>2. \A b \in Bookings, x \in blocks' : /\ Crosses(b, x)' <=> Crosses(b, x)
                                           /\ <<b, x>> \in told => <<b, x>> \in told'
    BY <2>1 DEF Crosses
  <2>3. \A x \in blocks' \ counting' : x \in blocks \ counting
    BY <2>1
  <2>4. AffectedTold'
    BY <2>1, <2>2, <2>3 DEF ToldInv, AffectedTold, Holding
  <2>. QED BY <2>1, <2>2, <2>4 DEF ToldInv
<1>7. ASSUME NEW v \in counting, CountAffected(v)
      PROVE  ToldInv'
  <2>1. /\ counting' = counting \ {v}
        /\ told' = told \cup { <<b, v>> : b \in Affected(v) }
        /\ UNCHANGED <<activity, blocks, state, win, returned>>
    BY <1>7 DEF CountAffected, activityVars, bookingVars
  <2>2. v \in blocks
    BY DEF TypeOK
  <2>3. ASSUME NEW b \in Holding \ returned, Crosses(b, v)
        PROVE  <<b, v>> \in told' \/ (IsSlotLock(v) /\ win[b].from < v.from)
    <3>1. b \in Bookings
      BY DEF Holding
    <3>2. Overlaps(win[b], v) /\ (IsSlotLock(v) => win[b].from < v.to)
      BY <2>2, <2>3, <3>1, CrossingBlock
    <3>3. win[b].from \in Nat /\ v.from \in Nat
      BY <2>2, <3>1 DEF TypeOK
    <3>4. b \in Affected(v) \/ (IsSlotLock(v) /\ win[b].from < v.from)
      BY <3>2, <3>3 DEF Affected
    <3>. QED BY <2>1, <3>4
  <2>4. \A b \in Bookings, x \in blocks : Crosses(b, x)' <=> Crosses(b, x)
    BY <2>1 DEF Crosses
  <2>5. AffectedTold'
    <3>. SUFFICES ASSUME NEW b \in Holding \ returned, NEW x \in blocks \ counting', Crosses(b, x)
                  PROVE  <<b, x>> \in told' \/ (IsSlotLock(x) /\ win[b].from < x.from)
      BY <2>1 DEF AffectedTold, Holding, Crosses
    <3>1. CASE x = v
      BY <2>3, <3>1
    <3>2. CASE x # v
      BY <2>1, <3>2 DEF ToldInv, AffectedTold, Crosses
    <3>. QED BY <3>1, <3>2
  <2>. QED BY <2>1, <2>4, <2>5 DEF ToldInv
<1>8. CASE UNCHANGED <<activity, blocks, counting, state, win, told, returned>>
  BY <1>8 DEF ToldInv, AffectedTold, Crosses, Holding
<1>9. CASE Approve \/ Tick \/ UNCHANGED vars
  BY <1>8, <1>9 DEF Approve, Tick, vars, activityVars, blockVars, bookingVars, history
<1>. QED
  BY <1>1, <1>2, <1>3, <1>4, <1>5, <1>6, <1>7, <1>9
     DEF Next, Customer, Refuse, Cancel, RefundInstead

\* A vendor who blocks a time learns of every booking in it: of those that
\* were there when it was counted, and of those whose request was past the
\* check for blocks (Ask, AddBlock, CountAffected).
THEOREM EveryAffectedIsTold == Spec => []AffectedTold
<1>1. Init => ToldInv
  BY DEF Init, ToldInv, AffectedTold, Holding
<1>2. ToldInv => AffectedTold
  BY DEF ToldInv
<1>. QED BY <1>1, <1>2, TypeInvariant, ToldKept, PTL DEF Spec

(* ------------------------------ Crowds --------------------------------- *)

Meeting(S, t) == { b \in S : win[b].from <= t /\ t < win[b].to }

LEMMA GuestsAddUp ==
    ASSUME TypeOK, NEW S \in SUBSET Bookings
    PROVE  /\ IsFiniteSet(S) /\ GuestsOf(S) = SumOf(guests, S) /\ GuestsOf(S) \in Nat
           /\ \A A \in SUBSET S : GuestsOf(A) <= GuestsOf(S)
<1>1. guests \in [Bookings -> Nat]
  BY AvailabilityConstants DEF TypeOK
<1>2. IsFiniteSet(S)
  BY FS_Subset, AvailabilityConstants
<1>3. \A A : GuestsOf(A) = SumOf(guests, A)
  BY DEF GuestsOf, SumOf
<1>. QED BY <1>1, <1>2, <1>3, SumIsNat, SumGrows

LEMMA NobodyThere == GuestsOf({}) = 0
<1>1. SumOf(guests, {}) = 0
  BY SumUnfolds, FS_EmptySet
<1>. QED BY <1>1 DEF GuestsOf, SumOf

\* Inside the window, the clipped intervals meet where the bookings do.
LEMMA ClippedMeet ==
    ASSUME TypeOK, NEW S \in SUBSET Bookings, NEW w \in [from : Nat, to : Nat],
           NEW t \in w.from .. w.to - 1
    PROVE  RunningAt({ b \in S : Overlaps(win[b], w) }, w, t) = Meeting(S, t)
<1>. SUFFICES ASSUME NEW b \in S
              PROVE  Overlaps(win[b], w) /\ Clip(b, w).from <= t /\ t < Clip(b, w).to
                       <=> win[b].from <= t /\ t < win[b].to
  BY DEF RunningAt, Meeting
<1>1. /\ win[b].from \in Nat /\ win[b].to \in Nat /\ w.from \in Nat /\ w.to \in Nat
      /\ t \in Int /\ w.from <= t /\ t < w.to
  BY DEF TypeOK
<1>2. /\ Clip(b, w).from = IF win[b].from >= w.from THEN win[b].from ELSE w.from
      /\ Clip(b, w).to = IF win[b].to <= w.to THEN win[b].to ELSE w.to
  BY <1>1, LaterOfTwo DEF Clip, Window
<1>. QED BY <1>1, <1>2 DEF Overlaps

\* What the sweep looks at: the crowds where a clipped interval starts.
Crowds(S, w) ==
    { GuestsOf(RunningAt({ b \in S : Overlaps(win[b], w) }, w, Clip(c, w).from)) :
        c \in { b \in S : Overlaps(win[b], w) } }

LEMMA SweepLooksAt ==
    ASSUME TypeOK, NEW S \in SUBSET Bookings, NEW w \in [from : Nat, to : Nat], w.from < w.to
    PROVE  /\ \A n \in Crowds(S, w) : \E t \in w.from .. w.to - 1 : n = GuestsOf(Meeting(S, t))
           /\ \A c \in S : Overlaps(win[c], w) =>
                GuestsOf(Meeting(S, Clip(c, w).from)) \in Crowds(S, w)
           /\ maxConcurrentInWindow(S, w) \in {0} \cup Crowds(S, w)
           /\ \A n \in {0} \cup Crowds(S, w) : n <= maxConcurrentInWindow(S, w)
           /\ {0} \cup Crowds(S, w) \subseteq Nat
<1>. DEFINE met == { b \in S : Overlaps(win[b], w) }
<1>1. ASSUME NEW c \in met
      PROVE  Clip(c, w).from \in w.from .. w.to - 1
  <2>1. win[c].from \in Nat /\ w.from \in Nat /\ w.to \in Nat
    BY DEF TypeOK
  <2>2. Clip(c, w).from = IF win[c].from >= w.from THEN win[c].from ELSE w.from
    BY <2>1, LaterOfTwo DEF Clip, Window
  <2>3. win[c].from < w.to
    BY DEF Overlaps
  <2>. QED BY <2>1, <2>2, <2>3
<1>2. \A c \in met : RunningAt(met, w, Clip(c, w).from) = Meeting(S, Clip(c, w).from)
  BY <1>1, ClippedMeet
<1>3. \A n \in Crowds(S, w) : \E t \in w.from .. w.to - 1 : n = GuestsOf(Meeting(S, t))
  <2>. TAKE n \in Crowds(S, w)
  <2>1. PICK c \in met : n = GuestsOf(RunningAt(met, w, Clip(c, w).from))
    BY DEF Crowds
  <2>2. n = GuestsOf(Meeting(S, Clip(c, w).from))
    BY <1>2, <2>1
  <2>. QED BY <1>1, <2>2
<1>4. \A c \in S : Overlaps(win[c], w) => GuestsOf(Meeting(S, Clip(c, w).from)) \in Crowds(S, w)
  <2>. SUFFICES ASSUME NEW c \in met PROVE GuestsOf(Meeting(S, Clip(c, w).from)) \in Crowds(S, w)
    OBVIOUS
  <2>1. GuestsOf(RunningAt(met, w, Clip(c, w).from)) \in Crowds(S, w)
    BY DEF Crowds
  <2>2. RunningAt(met, w, Clip(c, w).from) = Meeting(S, Clip(c, w).from)
    BY <1>2
  <2>. QED BY <2>1, <2>2
<1>5. \A t : GuestsOf(Meeting(S, t)) \in Nat /\ GuestsOf(Meeting(S, t)) <= GuestsOf(S)
  <2>. TAKE t
  <2>1. Meeting(S, t) \in SUBSET S
    BY DEF Meeting
  <2>. HIDE DEF met
  <2>. QED BY <2>1, GuestsAddUp
<1>. DEFINE all == {0} \cup Crowds(S, w)
<1>6. all \subseteq Nat /\ all # {} /\ \A n \in all : n <= GuestsOf(S)
  <2>1. GuestsOf(S) \in Nat
    BY GuestsAddUp
  <2>. QED BY <1>3, <1>5, <2>1
<1>7. maxConcurrentInWindow(S, w) = Max(all)
  BY DEF maxConcurrentInWindow, Crowds
<1>8. Max(all) \in all /\ \A n \in all : n <= Max(all)
  <2>1. GuestsOf(S) \in Nat
    BY GuestsAddUp
  <2>. HIDE DEF all
  <2>. QED BY <1>6, <2>1, GreatestIsOne
<1>. QED BY <1>3, <1>4, <1>6, <1>7, <1>8

\* No instant of the window sees more guests than the sweep has found.
LEMMA PeakBounds ==
    ASSUME TypeOK, NEW S \in SUBSET Bookings, NEW w \in [from : Nat, to : Nat],
           NEW t \in w.from .. w.to - 1
    PROVE  GuestsOf(Meeting(S, t)) <= maxConcurrentInWindow(S, w)
<1>. DEFINE there == Meeting(S, t)
            starts == { Clip(b, w).from : b \in there }
<1>1. /\ w.from \in Nat /\ w.to \in Nat /\ t \in Nat /\ w.from <= t /\ t < w.to /\ w.from < w.to
      /\ \A b \in S : win[b].from \in Nat /\ win[b].to \in Nat
  BY DEF TypeOK
<1>2. \A b \in S : Clip(b, w).from = IF win[b].from >= w.from THEN win[b].from ELSE w.from
  BY <1>1, LaterOfTwo DEF Clip, Window
<1>3. \A b \in there : b \in S /\ win[b].from <= t /\ t < win[b].to
  BY DEF Meeting
<1>4. CASE there = {}
  <2>. QED BY <1>1, <1>4, NobodyThere, SweepLooksAt
<1>5. CASE there # {}
  <2>1. starts \subseteq Nat /\ starts # {} /\ \A x \in starts : x <= t
    BY <1>1, <1>2, <1>3, <1>5
  <2>2. Max(starts) \in starts /\ \A x \in starts : x <= Max(starts)
    <3>. HIDE DEF starts
    <3>. QED BY <1>1, <2>1, GreatestIsOne
  <2>3. PICK c \in there : \A b \in there : Clip(b, w).from <= Clip(c, w).from
    BY <2>2
  <2>. DEFINE t0 == Clip(c, w).from
  <2>4. c \in S /\ Overlaps(win[c], w)
    BY <1>1, <1>3 DEF Overlaps
  <2>5. t0 \in Nat /\ t0 <= t
    BY <1>1, <1>2, <1>3
  <2>6. there \in SUBSET Meeting(S, t0)
    <3>. SUFFICES ASSUME NEW b \in there PROVE b \in S /\ win[b].from <= t0 /\ t0 < win[b].to
      BY DEF Meeting
    <3>1. b \in S /\ win[b].from <= Clip(b, w).from /\ Clip(b, w).from \in Nat
      BY <1>1, <1>2, <1>3
    <3>2. Clip(b, w).from <= t0
      BY <2>3
    <3>3. t < win[b].to /\ win[b].from \in Nat /\ win[b].to \in Nat
      BY <1>1, <1>3
    <3>. HIDE DEF t0, there
    <3>. QED BY <1>1, <2>5, <3>1, <3>2, <3>3
  <2>. HIDE DEF t0, there
  <2>7. Meeting(S, t0) \in SUBSET Bookings
    BY DEF Meeting
  <2>8. /\ GuestsOf(there) <= GuestsOf(Meeting(S, t0))
        /\ GuestsOf(Meeting(S, t0)) \in Nat /\ GuestsOf(there) \in Nat
    BY <2>6, <2>7, GuestsAddUp
  <2>9. GuestsOf(Meeting(S, t0)) \in Crowds(S, w)
    BY <1>1, <2>4, SweepLooksAt DEF t0
  <2>10. GuestsOf(Meeting(S, t0)) <= maxConcurrentInWindow(S, w)
         /\ maxConcurrentInWindow(S, w) \in Nat
    BY <1>1, <2>9, SweepLooksAt
  <2>11. GuestsOf(there) <= maxConcurrentInWindow(S, w)
    BY <2>8, <2>10
  <2>. QED BY <2>11 DEF there
<1>. QED BY <1>4, <1>5

LEMMA LaterDay ==
    ASSUME NEW n \in Nat \ {0}, NEW i \in Nat, NEW j \in Nat, i < j
    PROVE  i * n + n <= j * n
OBVIOUS

\* A customer asks for some time, at least.
LEMMA RequestLasts ==
    ASSUME NEW type, NEW w \in Requests(type)
    PROVE  w.from < w.to
<1>1. CASE w \in HourlyWindows
  <2>1. PICK x \in (0 .. Days["HOURLY"] - 1) \X (0 .. DayTicks - 1) \X (0 .. DayTicks - 1) :
             /\ w = Window(DayStart(x[1]) + x[2], DayStart(x[1]) + x[3])
             /\ x[3] - x[2] >= Duration["HOURLY"]
    BY <1>1 DEF HourlyWindows
  <2>2. Days["HOURLY"] \in Nat /\ DayTicks \in Nat /\ Duration["HOURLY"] \in Nat \ {0}
    BY AvailabilityConstants DEF Types
  <2>3. x[1] \in Nat /\ x[2] \in Nat /\ x[3] \in Nat
    BY <2>2
  <2>4. DayStart(x[1]) \in Nat
    BY <2>3, DayStartOf, AvailabilityConstants DEF DayStart
  <2>. QED BY <2>1, <2>2, <2>3, <2>4 DEF Window
<1>2. CASE w \in DailyWindows
  <2>1. PICK x \in (0 .. Days["DAILY"] - 1) \X (0 .. Days["DAILY"] - 1) :
             w = Stay(x[1], x[2]) /\ x[2] - x[1] >= Duration["DAILY"]
    BY <1>2 DEF DailyWindows
  <2>2. /\ Days["DAILY"] \in Nat /\ DayTicks \in Nat \ {0} /\ Duration["DAILY"] \in Nat \ {0}
        /\ CheckIn["DAILY"] \in 0 .. DayTicks - 1 /\ CheckOut["DAILY"] \in 0 .. DayTicks - 1
    BY AvailabilityConstants DEF Types
  <2>3. x[1] \in Nat /\ x[2] \in Nat /\ x[1] < x[2]
    BY <2>1, <2>2
  <2>4. x[1] * DayTicks + DayTicks <= x[2] * DayTicks
    BY <2>2, <2>3, LaterDay
  <2>5. x[1] * DayTicks \in Nat /\ x[2] * DayTicks \in Nat
    BY <2>2, <2>3, DayStartOf
  <2>. QED BY <2>1, <2>2, <2>4, <2>5 DEF Stay, Window, DayStart
<1>. QED BY <1>1, <1>2 DEF Requests

\* The sweep of maxConcurrentInWindow finds the largest crowd of any instant
\* of any window a customer may ask for.
THEOREM SweepFindsPeak == Spec => []SweepIsPeak
<1>1. ASSUME TypeOK PROVE SweepIsPeak
  <2>. SUFFICES ASSUME NEW w \in AllWindows
                PROVE  maxConcurrentInWindow(Holding, w)
                         = Max({0} \cup { GuestsOf(Meeting(Holding, t)) : t \in w.from .. w.to - 1 })
    BY DEF SweepIsPeak, Meeting
  <2>. DEFINE peak == maxConcurrentInWindow(Holding, w)
              all == {0} \cup { GuestsOf(Meeting(Holding, t)) : t \in w.from .. w.to - 1 }
  <2>1. w \in [from : Nat, to : Nat] /\ w.from < w.to
    BY RequestIsWindow, RequestLasts DEF AllWindows
  <2>2. Holding \in SUBSET Bookings
    BY DEF Holding
  <2>3. peak \in all /\ peak \in Nat
    BY <1>1, <2>1, <2>2, SweepLooksAt
  <2>4. \A n \in all : n \in Nat /\ n <= peak
    <3>1. 0 <= peak
      BY <2>3
    <3>2. ASSUME NEW t \in w.from .. w.to - 1
          PROVE  GuestsOf(Meeting(Holding, t)) \in Nat /\ GuestsOf(Meeting(Holding, t)) <= peak
      <4>1. Meeting(Holding, t) \in SUBSET Bookings
        BY <2>2 DEF Meeting
      <4>2. GuestsOf(Meeting(Holding, t)) \in Nat
        BY <1>1, <4>1, GuestsAddUp
      <4>. QED BY <1>1, <2>1, <2>2, <4>2, PeakBounds
    <3>. HIDE DEF peak
    <3>. QED BY <3>1, <3>2
  <2>. HIDE DEF peak, all
  <2>5. Max(all) \in all /\ \A n \in all : n <= Max(all)
    BY <2>3, <2>4, GreatestIsOne
  <2>6. Max(all) = peak
    <3>1. Max(all) \in Nat /\ Max(all) <= peak
      BY <2>4, <2>5
    <3>2. peak <= Max(all)
      BY <2>3, <2>5
    <3>. QED BY <2>3, <3>1, <3>2
  <2>. QED BY <2>6 DEF peak, all
<1>. QED BY <1>1, TypeInvariant, PTL

(* ------------------------- What createBooking sells --------------------- *)

\* Only the transaction of createBooking makes a request a booking.
LEMMA OnlyCommitHolds ==
    ASSUME TypeOK, [Next]_vars, NEW b \in Bookings, state[b] = "asked", state'[b] = "held"
    PROVE  Commit(b)
<1>1. ASSUME NEW c \in Bookings, NEW w, NEW g, Ask(c, w, g) PROVE FALSE
  BY <1>1 DEF Ask, TypeOK
<1>2. ASSUME NEW c \in Bookings, Close(c) PROVE FALSE
  BY <1>2 DEF Close, TypeOK
<1>3. ASSUME NEW c \in Bookings, Lapse(c) \/ Pay(c) \/ Reap(c) \/ Recover(c) PROVE FALSE
  BY <1>3 DEF Lapse, Pay, Reap, Recover, TypeOK
<1>4. ASSUME NEW c \in Bookings, Commit(c) PROVE c = b
  BY <1>4 DEF Commit, TypeOK
<1>5. state' # state
  OBVIOUS
<1>6. ~(UpdateActivity \/ Approve \/ Tick \/ UNCHANGED vars)
  BY <1>5 DEF UpdateActivity, Approve, Tick, vars, bookingVars
<1>7. ASSUME NEW v, AddBlock(v) \/ RemoveBlock(v) \/ CountAffected(v) PROVE FALSE
  BY <1>5, <1>7 DEF AddBlock, RemoveBlock, CountAffected, bookingVars
<1>. QED
  BY <1>1, <1>2, <1>3, <1>4, <1>6, <1>7 DEF Next, Customer, Refuse, Cancel, RefundInstead

\* Whole units: as many are free as are not taken, and more than there are
\* bookings without one.
LEMMA WholeUnitsLeft ==
    ASSUME TypeOK, NEW a \in Rows, NEW w \in [from : Nat, to : Nat], NEW g,
           rentsWholeUnit(a), ResolvedUnit(a, w, g) # NoUnit,
           NEW there \in SUBSET Overlapping(w)
    PROVE  Cardinality({ unit[c] : c \in there } \cap 1 .. a.unitCount)
             + Cardinality({ c \in there : unit[c] = NoUnit }) < a.unitCount
<1>. DEFINE free == FreeUnits(a, w, g)
            taken == { unit[c] : c \in there } \cap 1 .. a.unitCount
            out == { c \in there : unit[c] = NoUnit }
            outside == unassignedOverlapping(w)
<1>1. a.unitCount \in Nat
  BY RowFields
<1>2. taken \in SUBSET (1 .. a.unitCount) /\ free \in SUBSET (1 .. a.unitCount)
  BY DEF FreeUnits
<1>3. taken \cap free = {}
  <2>. SUFFICES ASSUME NEW c \in there, unit[c] \in free PROVE FALSE
    OBVIOUS
  <2>1. InUnit(w, unit[c]) = {}
    BY FreeIsEmpty
  <2>. QED BY <2>1 DEF InUnit
<1>4. out \in SUBSET outside /\ outside \in SUBSET Bookings
  BY DEF unassignedOverlapping, InUnit, Overlapping, Holding
<1>5. Cardinality(free) - Cardinality(outside) > 0
  <2>1. Usable(a, w, g) > 0
    BY DEF ResolvedUnit
  <2>. QED BY <2>1 DEF Usable
<1>. HIDE DEF free, taken, out, outside
<1>6. IsFiniteSet(1 .. a.unitCount) /\ Cardinality(1 .. a.unitCount) = a.unitCount
  <2>1. 1 \in Int /\ a.unitCount \in Int
    BY <1>1
  <2>2. /\ IsFiniteSet(1 .. a.unitCount)
        /\ Cardinality(1 .. a.unitCount) = IF 1 > a.unitCount THEN 0 ELSE a.unitCount - 1 + 1
    BY <2>1, FS_Interval
  <2>. QED BY <1>1, <2>2
<1>7. IsFiniteSet(taken) /\ IsFiniteSet(free) /\ IsFiniteSet(outside) /\ IsFiniteSet(out)
  BY <1>2, <1>4, <1>6, FS_Subset, AvailabilityConstants
<1>8. /\ Cardinality(taken) \in Nat /\ Cardinality(free) \in Nat
      /\ Cardinality(outside) \in Nat /\ Cardinality(out) \in Nat
  BY <1>7, FS_CardinalityType
<1>9. Cardinality(out) <= Cardinality(outside)
  BY <1>4, <1>7, FS_Subset
<1>10. Cardinality(taken \cup free) = Cardinality(taken) + Cardinality(free)
  <2>1. Cardinality(taken \cup free)
          = Cardinality(taken) + Cardinality(free) - Cardinality(taken \cap free)
    BY <1>7, FS_Union
  <2>2. Cardinality(taken \cap free) = 0
    BY <1>3, FS_EmptySet
  <2>. QED BY <1>8, <2>1, <2>2
<1>11. Cardinality(taken \cup free) <= a.unitCount
  <2>1. taken \cup free \in SUBSET (1 .. a.unitCount)
    BY <1>2
  <2>. QED BY <1>6, <2>1, FS_Subset
<1>12. Cardinality(taken) + Cardinality(out) < a.unitCount
  BY <1>1, <1>5, <1>8, <1>9, <1>10, <1>11
<1>. QED BY <1>12 DEF taken, out

\* Units of several seats, and seats alone: beside the crowd of any instant
\* there is room for the guests that are let in.
LEMMA SeatsLeft ==
    ASSUME TypeOK, NEW S \in SUBSET Bookings, NEW w \in [from : Nat, to : Nat],
           NEW seats \in Nat, NEW g \in Nat, seats - maxConcurrentInWindow(S, w) >= g,
           NEW t \in w.from .. w.to - 1
    PROVE  GuestsOf(Meeting(S, t)) + g <= seats
<1>1. w.from < w.to
  OBVIOUS
<1>2. maxConcurrentInWindow(S, w) \in Nat
  BY <1>1, SweepLooksAt
<1>3. Meeting(S, t) \in SUBSET Bookings
  BY DEF Meeting
<1>4. GuestsOf(Meeting(S, t)) \in Nat
  BY <1>3, GuestsAddUp
<1>. QED BY <1>2, <1>4, PeakBounds

LEMMA CommitFindsRoom ==
    ASSUME TypeOK, NEW b \in Bookings, Commit(b), seen[b] = activity,
           NEW t \in win[b].from .. win[b].to - 1
    PROVE  LET there == { c \in Holding : win[c].from <= t /\ t < win[c].to } IN
           IF rentsWholeUnit(activity)
           THEN /\ Cardinality({ c \in there : unit[c] = unit'[b] }) = 0
                /\ Cardinality({ unit[c] : c \in there } \cap 1 .. activity.unitCount)
                     + Cardinality({ c \in there : unit[c] = NoUnit }) < activity.unitCount
           ELSE IF activity.hasUnits
           THEN GuestsOf({ c \in there : unit[c] \in {unit'[b], NoUnit} }) + guests[b]
                  <= activity.unitCapacity
           ELSE GuestsOf(there) + guests[b] <= activity.capacity
<1>. DEFINE w == win[b]
            g == guests[b]
            u == ResolvedUnit(activity, w, g)
            there == { c \in Holding : win[c].from <= t /\ t < win[c].to }
<1>1. /\ w \in [from : Nat, to : Nat] /\ g \in Nat
      /\ activity \in Rows /\ activity.unitCapacity \in Nat /\ activity.capacity \in Nat
  BY RowFields, AvailabilityConstants DEF TypeOK
<1>2. unit'[b] = u
  BY DEF Commit, TypeOK
<1>3. activity.hasUnits => u # NoUnit
  BY DEF Commit, CapacityAccepts
<1>4. activity.hasUnits => u \in FreeUnits(activity, w, g)
  BY <1>1, <1>3, UnitIsFree
<1>5. there \in SUBSET Overlapping(w) /\ Overlapping(w) \in SUBSET Bookings
  <2>1. ASSUME NEW c \in there PROVE Overlaps(win[c], w)
    <3>1. win[c].from \in Nat /\ win[c].to \in Nat /\ win[c].from <= t /\ t < win[c].to
      BY DEF TypeOK, Holding
    <3>2. w.from \in Nat /\ w.to \in Nat /\ w.from <= t /\ t < w.to /\ t \in Int
      BY <1>1
    <3>. HIDE DEF w
    <3>. QED BY <3>1, <3>2 DEF Overlaps
  <2>. QED BY <2>1 DEF Overlapping, Holding
<1>6. CASE rentsWholeUnit(activity)
  <2>1. u # NoUnit /\ InUnit(w, u) = {}
    BY <1>3, <1>4, <1>6, FreeIsEmpty DEF rentsWholeUnit
  <2>2. { c \in there : unit[c] = u } = {}
    BY <1>5, <2>1 DEF InUnit
  <2>3. Cardinality({ c \in there : unit[c] = u }) = 0
    BY <2>2, FS_EmptySet
  <2>. HIDE DEF there, w, g
  <2>4. Cardinality({ unit[c] : c \in there } \cap 1 .. activity.unitCount)
          + Cardinality({ c \in there : unit[c] = NoUnit }) < activity.unitCount
    BY <1>1, <1>5, <1>6, <2>1, WholeUnitsLeft
  <2>. HIDE DEF u
  <2>. QED BY <1>2, <1>6, <2>3, <2>4 DEF there
<1>7. CASE activity.hasUnits /\ ~rentsWholeUnit(activity)
  <2>. DEFINE S == InUnit(w, u) \cup unassignedOverlapping(w)
  <2>1. activity.unitCapacity - maxConcurrentInWindow(S, w) >= g
    BY <1>4, <1>7 DEF FreeUnits
  <2>2. S \in SUBSET Bookings
    BY <1>5 DEF InUnit, unassignedOverlapping
  <2>3. GuestsOf(Meeting(S, t)) + g <= activity.unitCapacity
    <3>1. t \in w.from .. w.to - 1
      OBVIOUS
    <3>. HIDE DEF S, w, g
    <3>. QED BY <1>1, <2>1, <2>2, <3>1, SeatsLeft
  <2>4. { c \in there : unit[c] \in {u, NoUnit} } = Meeting(S, t)
    <3>1. { c \in there : unit[c] \in {u, NoUnit} } \subseteq Meeting(S, t)
      BY <1>5 DEF Meeting, InUnit, unassignedOverlapping
    <3>2. Meeting(S, t) \subseteq { c \in there : unit[c] \in {u, NoUnit} }
      BY DEF Meeting, InUnit, unassignedOverlapping, Overlapping
    <3>. QED BY <3>1, <3>2
  <2>. QED BY <1>2, <1>7, <2>3, <2>4
<1>8. CASE ~activity.hasUnits
  <2>1. u = NoUnit
    BY <1>8 DEF ResolvedUnit
  <2>2. g <= activity.capacity - maxConcurrentInWindow(Overlapping(w), w)
    BY <2>1 DEF Commit, CapacityAccepts
  <2>3. maxConcurrentInWindow(Overlapping(w), w) \in Nat
    <3>1. w.from < w.to
      BY <1>1
    <3>. HIDE DEF w
    <3>. QED BY <1>1, <1>5, <3>1, SweepLooksAt
  <2>4. GuestsOf(Meeting(Overlapping(w), t)) + g <= activity.capacity
    <3>1. t \in w.from .. w.to - 1
      OBVIOUS
    <3>2. activity.capacity - maxConcurrentInWindow(Overlapping(w), w) >= g
      BY <1>1, <2>2, <2>3
    <3>. HIDE DEF w, g
    <3>. QED BY <1>1, <1>5, <3>1, <3>2, SeatsLeft
  <2>5. there = Meeting(Overlapping(w), t)
    <3>1. there \subseteq Meeting(Overlapping(w), t)
      BY <1>5 DEF Meeting
    <3>2. Meeting(Overlapping(w), t) \subseteq there
      BY DEF Meeting, Overlapping
    <3>. QED BY <3>1, <3>2
  <2>. QED BY <1>8, <2>4, <2>5 DEF rentsWholeUnit
<1>. QED BY <1>6, <1>7, <1>8

\* createBooking never sells what is not there: from a row that nobody
\* changed meanwhile, a new booking leaves at no instant of its stay more
\* guests than seats, nor more units taken than there are.
THEOREM CommitsFit == Spec => CommitFits
<1>1. ASSUME TypeOK, [Next]_vars
      PROVE  [\A b \in Bookings :
                state[b] = "asked" /\ state'[b] = "held" /\ seen[b] = activity => FindsRoom(b)]_vars
  <2>. SUFFICES ASSUME NEW b \in Bookings, state[b] = "asked", state'[b] = "held", seen[b] = activity
                PROVE  FindsRoom(b)
    OBVIOUS
  <2>1. Commit(b)
    BY <1>1, OnlyCommitHolds
  <2>. QED BY <1>1, <2>1, CommitFindsRoom DEF FindsRoom
<1>. QED BY <1>1, TypeInvariant, PTL DEF Spec, CommitFits

(* ----------------------------- The views ------------------------------- *)

\* Blocks are the vendors', bookings are what customers asked for: the type
\* of an activity does not change under them.
ViewsInv ==
    /\ blocks \subseteq BlockWindows
    /\ \A b \in Bookings : state[b] \notin {"none", "off"} =>
         win[b] \in Requests(activity.bookingType) /\ guests[b] \in Nat \ {0}

LEMMA ViewsInvKept == TypeOK /\ ViewsInv /\ [Next]_vars => ViewsInv'
<1>. SUFFICES ASSUME TypeOK, ViewsInv, [Next]_vars PROVE ViewsInv'
  OBVIOUS
<1>1. ASSUME NEW b \in Bookings, NEW w \in Requests(activity.bookingType), NEW g \in 1 .. MaxGuests,
             Ask(b, w, g)
      PROVE  ViewsInv'
  <2>1. /\ win' = [win EXCEPT ![b] = w] /\ guests' = [guests EXCEPT ![b] = g]
        /\ state' = [state EXCEPT ![b] = "asked"]
        /\ UNCHANGED <<activity, blocks>>
    BY <1>1 DEF Ask, activityVars, blockVars
  <2>2. g \in Nat \ {0}
    BY AvailabilityConstants
  <2>. QED BY <2>1, <2>2 DEF ViewsInv, TypeOK, BlockWindows
<1>2. ASSUME NEW b \in Bookings, Close(b), UNCHANGED <<activityVars, blockVars, now>>
      PROVE  ViewsInv'
  BY <1>2 DEF Close, ViewsInv, TypeOK, BlockWindows, activityVars, blockVars
<1>3. ASSUME NEW b \in Bookings,
             Commit(b) \/ Lapse(b) \/ Pay(b) \/ Reap(b) \/ Recover(b)
      PROVE  ViewsInv'
  <2>1. /\ UNCHANGED <<activity, blocks, win, guests>>
        /\ state[b] \notin {"none", "off"}
        /\ \A c \in Bookings \ {b} : state'[c] = state[c]
    BY <1>3 DEF Commit, Lapse, Pay, Reap, Recover, TypeOK, activityVars, blockVars, history
  <2>. QED BY <2>1 DEF ViewsInv, BlockWindows
<1>4. CASE UpdateActivity
  <2>1. activity'.bookingType = activity.bookingType /\ UNCHANGED <<blocks, state, win, guests>>
    BY <1>4, EditedRow DEF UpdateActivity, TypeOK, blockVars
  <2>. QED BY <2>1 DEF ViewsInv, BlockWindows
<1>5. ASSUME NEW v \in BlockWindows, AddBlock(v)
      PROVE  ViewsInv'
  BY <1>5 DEF AddBlock, ViewsInv, BlockWindows, activityVars, bookingVars
<1>6. ASSUME NEW v \in blocks, RemoveBlock(v)
      PROVE  ViewsInv'
  BY <1>6 DEF RemoveBlock, ViewsInv, BlockWindows, activityVars, bookingVars
<1>7. CASE UNCHANGED <<activity, blocks, state, win, guests>>
  BY <1>7 DEF ViewsInv, BlockWindows
<1>8. ASSUME NEW v, CountAffected(v)
      PROVE  ViewsInv'
  BY <1>7, <1>8 DEF CountAffected, activityVars, bookingVars
<1>9. CASE Approve \/ Tick \/ UNCHANGED vars
  BY <1>7, <1>9 DEF Approve, Tick, vars, activityVars, blockVars, bookingVars, history
<1>. QED
  BY <1>1, <1>2, <1>3, <1>4, <1>5, <1>6, <1>8, <1>9
     DEF Next, Customer, Refuse, Cancel, RefundInstead

\* Somebody is there: at least one guest.
LEMMA SomeGuests ==
    ASSUME TypeOK, ViewsInv, NEW S \in SUBSET Holding
    PROVE  GuestsOf(S) = 0 <=> S = {}
<1>1. S \in SUBSET Bookings
  BY DEF Holding
<1>2. GuestsOf({}) = 0
  BY NobodyThere
<1>3. ASSUME NEW b \in S PROVE GuestsOf(S) # 0
  <2>1. guests[b] \in Nat \ {0}
    BY DEF ViewsInv, Holding
  <2>2. guests \in [Bookings -> Nat]
    BY AvailabilityConstants DEF TypeOK
  <2>3. IsFiniteSet(S) /\ GuestsOf(S) = SumOf(guests, S)
    BY <1>1, GuestsAddUp
  <2>4. SumOf(guests, S) = guests[b] + SumOf(guests, S \ {b})
    BY <1>1, <2>2, <2>3, SumSplits
  <2>5. GuestsOf(S \ {b}) = SumOf(guests, S \ {b}) /\ GuestsOf(S \ {b}) \in Nat
    <3>1. S \ {b} \in SUBSET Bookings
      BY <1>1
    <3>. QED BY <3>1, GuestsAddUp
  <2>. QED BY <2>1, <2>3, <2>4, <2>5
<1>. QED BY <1>2, <1>3

\* A larger crowd has a larger peak, and no peak is above the whole crowd.
LEMMA PeakGrows ==
    ASSUME TypeOK, NEW S \in SUBSET Bookings, NEW A \in SUBSET S,
           NEW w \in [from : Nat, to : Nat], w.from < w.to
    PROVE  /\ maxConcurrentInWindow(A, w) <= maxConcurrentInWindow(S, w)
           /\ maxConcurrentInWindow(S, w) <= GuestsOf(S)
           /\ maxConcurrentInWindow(S, w) \in Nat
           /\ A = {} => maxConcurrentInWindow(A, w) = 0
<1>1. A \in SUBSET Bookings
  OBVIOUS
<1>2. /\ maxConcurrentInWindow(A, w) \in {0} \cup Crowds(A, w)
      /\ maxConcurrentInWindow(S, w) \in {0} \cup Crowds(S, w)
      /\ maxConcurrentInWindow(S, w) \in Nat /\ maxConcurrentInWindow(A, w) \in Nat
      /\ \A n \in Crowds(A, w) : \E t \in w.from .. w.to - 1 : n = GuestsOf(Meeting(A, t))
      /\ \A n \in Crowds(S, w) : \E t \in w.from .. w.to - 1 : n = GuestsOf(Meeting(S, t))
  BY <1>1, SweepLooksAt
<1>3. ASSUME NEW t \in w.from .. w.to - 1
      PROVE  GuestsOf(Meeting(A, t)) <= maxConcurrentInWindow(S, w)
  <2>1. Meeting(A, t) \in SUBSET Meeting(S, t) /\ Meeting(S, t) \in SUBSET Bookings
    BY DEF Meeting
  <2>2. /\ GuestsOf(Meeting(A, t)) <= GuestsOf(Meeting(S, t))
        /\ GuestsOf(Meeting(A, t)) \in Nat /\ GuestsOf(Meeting(S, t)) \in Nat
    BY <2>1, GuestsAddUp
  <2>. QED BY <1>2, <2>2, PeakBounds
<1>4. \A t : GuestsOf(Meeting(S, t)) <= GuestsOf(S) /\ GuestsOf(S) \in Nat
  <2>. TAKE t
  <2>1. Meeting(S, t) \in SUBSET S
    BY DEF Meeting
  <2>. QED BY <2>1, GuestsAddUp
<1>5. A = {} => Crowds(A, w) = {}
  BY DEF Crowds
<1>. QED BY <1>2, <1>3, <1>4, <1>5

\* A unit is found exactly when one can be used.
LEMMA UnitIsFound ==
    ASSUME NEW a \in Rows, NEW w, NEW g, a.hasUnits
    PROVE  /\ ResolvedUnit(a, w, g) # NoUnit <=> Usable(a, w, g) > 0
           /\ IsFiniteSet(FreeUnits(a, w, g)) /\ Cardinality(FreeUnits(a, w, g)) \in Nat
           /\ IsFiniteSet(unassignedOverlapping(w)) /\ Cardinality(unassignedOverlapping(w)) \in Nat
<1>. DEFINE free == FreeUnits(a, w, g)
            out == unassignedOverlapping(w)
<1>1. free \in SUBSET (1 .. a.unitCount) /\ a.unitCount \in Nat /\ NoUnit \notin Int
  BY RowFields, AvailabilityConstants DEF FreeUnits
<1>2. out \in SUBSET Bookings
  BY DEF unassignedOverlapping, InUnit, Overlapping, Holding
<1>. HIDE DEF free, out
<1>3. IsFiniteSet(free) /\ IsFiniteSet(out)
  <2>1. IsFiniteSet(1 .. a.unitCount)
    BY <1>1, FS_Interval
  <2>. QED BY <1>1, <1>2, <2>1, FS_Subset, AvailabilityConstants
<1>4. Cardinality(free) \in Nat /\ Cardinality(out) \in Nat
  BY <1>3, FS_CardinalityType
<1>5. Usable(a, w, g) > 0 => free # {}
  <2>1. free = {} => Cardinality(free) = 0
    BY FS_EmptySet
  <2>2. Usable(a, w, g) = Cardinality(free) - (IF rentsWholeUnit(a) THEN Cardinality(out) ELSE 0)
    BY DEF Usable, free, out
  <2>. QED BY <1>4, <2>1, <2>2
<1>6. free # {} => Min(free) # NoUnit
  <2>. SUFFICES ASSUME free # {} PROVE Min(free) # NoUnit
    OBVIOUS
  <2>1. free \subseteq Nat
    BY <1>1
  <2>3. NoUnit \notin 1 .. a.unitCount
    BY <1>1
  <2>2. Min(free) \in free
    BY <2>1, LeastIsOne
  <2>. QED BY <1>1, <2>2, <2>3
<1>7. ResolvedUnit(a, w, g) = IF Usable(a, w, g) > 0 THEN Min(free) ELSE NoUnit
  BY DEF ResolvedUnit, free
<1>8. ResolvedUnit(a, w, g) # NoUnit <=> Usable(a, w, g) > 0
  BY <1>1, <1>5, <1>6, <1>7
<1>. QED BY <1>3, <1>4, <1>8 DEF free, out

\* What createBooking accepts, for each of the three kinds of activity.
LEMMA AcceptsWhole ==
    ASSUME TypeOK, NEW a \in Rows, NEW w \in [from : Nat, to : Nat], w.from < w.to, NEW g \in Nat,
           rentsWholeUnit(a)
    PROVE  /\ CapacityAccepts(a, w, g) <=>
                Cardinality(FreeUnits(a, w, g)) > Cardinality(unassignedOverlapping(w))
                  /\ g <= a.unitCapacity
           /\ FreeUnits(a, w, g) = { u \in 1 .. a.unitCount : InUnit(w, u) = {} }
<1>. DEFINE u == ResolvedUnit(a, w, g)
<1>1. a.hasUnits /\ a.unitCapacity \in Nat
  BY RowFields DEF rentsWholeUnit
<1>2. u # NoUnit <=> Cardinality(FreeUnits(a, w, g)) > Cardinality(unassignedOverlapping(w))
  BY <1>1, UnitIsFound DEF Usable
<1>3. u # NoUnit => maxConcurrentInWindow(InUnit(w, u), w) = 0
  <2>. SUFFICES ASSUME u # NoUnit PROVE maxConcurrentInWindow(InUnit(w, u), w) = 0
    OBVIOUS
  <2>1. InUnit(w, u) = {}
    BY UnitIsFree, FreeIsEmpty
  <2>. HIDE DEF u
  <2>. QED BY <2>1, PeakGrows
<1>. HIDE DEF u
<1>4. CapacityAccepts(a, w, g) <=>
        /\ u # NoUnit
        /\ g <= a.unitCapacity - maxConcurrentInWindow(InUnit(w, u), w)
  BY <1>1 DEF CapacityAccepts, u
<1>. QED BY <1>1, <1>2, <1>3, <1>4 DEF FreeUnits

LEMMA AcceptsShared ==
    ASSUME TypeOK, NEW a \in Rows, NEW w \in [from : Nat, to : Nat], w.from < w.to, NEW g \in Nat,
           a.hasUnits, ~rentsWholeUnit(a)
    PROVE  CapacityAccepts(a, w, g) <=> FreeUnits(a, w, g) # {}
<1>. DEFINE u == ResolvedUnit(a, w, g)
            S == InUnit(w, u) \cup unassignedOverlapping(w)
<1>1. a.unitCapacity \in Nat
  BY RowFields
<1>2. u # NoUnit <=> FreeUnits(a, w, g) # {}
  <2>1. /\ IsFiniteSet(FreeUnits(a, w, g)) /\ Cardinality(FreeUnits(a, w, g)) \in Nat
        /\ u # NoUnit <=> Cardinality(FreeUnits(a, w, g)) - 0 > 0
    BY UnitIsFound DEF Usable
  <2>2. Cardinality(FreeUnits(a, w, g)) = 0 <=> FreeUnits(a, w, g) = {}
    BY <2>1, FS_EmptySet
  <2>. QED BY <2>1, <2>2
<1>3. u # NoUnit => g <= a.unitCapacity - maxConcurrentInWindow(InUnit(w, u), w)
  <2>. SUFFICES ASSUME u # NoUnit
                PROVE  g <= a.unitCapacity - maxConcurrentInWindow(InUnit(w, u), w)
    OBVIOUS
  <2>1. u \in FreeUnits(a, w, g)
    BY UnitIsFree
  <2>2. a.unitCapacity - maxConcurrentInWindow(S, w) >= g
    BY <2>1 DEF FreeUnits
  <2>3. S \in SUBSET Bookings /\ InUnit(w, u) \in SUBSET S
    BY DEF InUnit, unassignedOverlapping, Overlapping, Holding
  <2>4. InUnit(w, u) \in SUBSET Bookings
    BY <2>3
  <2>. HIDE DEF S, u
  <2>5. /\ maxConcurrentInWindow(InUnit(w, u), w) <= maxConcurrentInWindow(S, w)
        /\ maxConcurrentInWindow(S, w) \in Nat
    BY <2>3, PeakGrows
  <2>6. maxConcurrentInWindow(InUnit(w, u), w) \in Nat
    BY <2>4, PeakGrows
  <2>. QED BY <1>1, <2>2, <2>5, <2>6
<1>. HIDE DEF u
<1>4. CapacityAccepts(a, w, g) <=>
        /\ u # NoUnit
        /\ u # NoUnit => g <= a.unitCapacity - maxConcurrentInWindow(InUnit(w, u), w)
  BY DEF CapacityAccepts, u
<1>. QED BY <1>2, <1>3, <1>4

LEMMA AcceptsSeats ==
    ASSUME NEW a \in Rows, NEW w, NEW g, ~a.hasUnits
    PROVE  CapacityAccepts(a, w, g) <=>
             g <= a.capacity - maxConcurrentInWindow(Overlapping(w), w)
BY DEF CapacityAccepts, ResolvedUnit

\* A candidate starting time: inside the opening hours of its day.
LEMMA SlotOfDay ==
    ASSUME NEW d \in 0 .. Days["HOURLY"] - 1, NEW w \in computeSlots[d]
    PROVE  /\ d \in Nat /\ w \in [from : Nat, to : Nat]
           /\ DayStart(d) \in Nat
           /\ w.to = w.from + Duration["HOURLY"]
           /\ DayStart(d) + CheckIn["HOURLY"] <= w.from
           /\ w.to <= DayStart(d) + CheckOut["HOURLY"]
           /\ DayStart(d) <= w.from /\ w.to <= DayStart(d) + DayTicks
           /\ w.from < w.to
<1>1. /\ Days["HOURLY"] \in Nat /\ DayTicks \in Nat \ {0} /\ Duration["HOURLY"] \in Nat \ {0}
      /\ CheckIn["HOURLY"] \in 0 .. DayTicks - 1 /\ CheckOut["HOURLY"] \in 0 .. DayTicks - 1
  BY AvailabilityConstants DEF Types
<1>2. d \in Nat
  BY <1>1
<1>3. DayStart(d) \in Nat
  BY <1>1, <1>2, DayStartOf DEF DayStart
<1>4. PICK t \in 0 .. DayTicks - 1 :
        /\ CheckIn["HOURLY"] <= t /\ t + Duration["HOURLY"] <= CheckOut["HOURLY"]
        /\ w = Window(DayStart(d) + t, DayStart(d) + t + Duration["HOURLY"])
  BY DEF computeSlots
<1>5. w.from = DayStart(d) + t /\ w.to = DayStart(d) + t + Duration["HOURLY"]
      /\ w \in [from : Nat, to : Nat]
  BY <1>1, <1>3, <1>4 DEF Window
<1>. QED BY <1>1, <1>2, <1>3, <1>4, <1>5

LEMMA MoreThanNone ==
    ASSUME NEW x \in Int
    PROVE  Max({0, x}) = IF x > 0 THEN x ELSE 0
BY DEF Max

\* A slot shows something left exactly when one guest would get it.
LEMMA SlotsAgree == TypeOK => SlotViewAgrees
<1>. SUFFICES ASSUME TypeOK, activity.bookingType = "HOURLY",
                     NEW d \in 0 .. Days["HOURLY"] - 1, NEW w \in computeSlots[d]
              PROVE  SlotAvailable(w) > 0 <=> CapacityAccepts(activity, w, 1)
  BY DEF SlotViewAgrees
<1>. DEFINE a == activity
<1>1. a \in Rows /\ w \in [from : Nat, to : Nat] /\ w.from < w.to
  BY SlotOfDay DEF TypeOK
<1>2. /\ a.unitCount \in Nat /\ a.unitCapacity \in Nat /\ a.capacity \in Nat
      /\ a.hasUnits => a.unitCapacity > 0
  BY <1>1, RowFields
<1>3. \A S \in SUBSET Bookings : maxConcurrentInWindow(S, w) \in Nat
  BY <1>1, PeakGrows
<1>4. \A u : InUnit(w, u) \cup unassignedOverlapping(w) \in SUBSET Bookings
             /\ Overlapping(w) \in SUBSET Bookings
  BY DEF InUnit, unassignedOverlapping, Overlapping, Holding
<1>5. CASE rentsWholeUnit(a)
  <2>. DEFINE emptied == { u \in 1 .. a.unitCount : InUnit(w, u) = {} }
              n == Cardinality(emptied)
              m == Cardinality(unassignedOverlapping(w))
  <2>1. a.hasUnits
    BY <1>5 DEF rentsWholeUnit
  <2>2. CapacityAccepts(a, w, 1) <=> n > m /\ 1 <= a.unitCapacity
    BY <1>1, <1>5, AcceptsWhole
  <2>3. n \in Nat /\ m \in Nat
    <3>1. /\ Cardinality(FreeUnits(a, w, 1)) \in Nat
          /\ Cardinality(unassignedOverlapping(w)) \in Nat
      BY <1>1, <2>1, UnitIsFound
    <3>2. FreeUnits(a, w, 1) = emptied
      BY <1>1, <1>5, AcceptsWhole
    <3>. QED BY <3>1, <3>2
  <2>4. SlotAvailable(w) = a.unitCapacity * Max({0, n - m})
    BY <1>5 DEF SlotAvailable
  <2>. HIDE DEF emptied, n, m, a
  <2>5. Max({0, n - m}) = IF n - m > 0 THEN n - m ELSE 0
    BY <2>3, MoreThanNone
  <2>6. CASE n > m
    <3>1. Max({0, n - m}) \in Nat \ {0}
      BY <2>3, <2>5, <2>6
    <3>2. a.unitCapacity * Max({0, n - m}) > 0
      BY <1>2, <2>1, <3>1
    <3>. QED BY <1>2, <2>1, <2>2, <2>4, <2>6, <3>2 DEF a
  <2>7. CASE ~(n > m)
    <3>1. Max({0, n - m}) = 0
      BY <2>3, <2>5, <2>7
    <3>2. SlotAvailable(w) = 0
      BY <1>2, <2>4, <3>1
    <3>. QED BY <2>2, <2>7, <3>2 DEF a
  <2>. QED BY <2>6, <2>7
<1>6. CASE a.hasUnits /\ ~rentsWholeUnit(a)
  <2>. DEFINE room(u) == a.unitCapacity
                           - maxConcurrentInWindow(InUnit(w, u) \cup unassignedOverlapping(w), w)
              left == [u \in 1 .. a.unitCount |-> Max({0, room(u)})]
  <2>1. SlotAvailable(w) = SumOf(left, 1 .. a.unitCount)
    BY <1>6 DEF SlotAvailable, SumOf
  <2>2. ASSUME NEW u \in 1 .. a.unitCount
        PROVE  left[u] \in Nat /\ (left[u] > 0 <=> room(u) >= 1)
    <3>1. room(u) \in Int
      BY <1>2, <1>3, <1>4
    <3>. HIDE DEF room
    <3>2. left[u] = IF room(u) > 0 THEN room(u) ELSE 0
      BY <3>1, MoreThanNone
    <3>. QED BY <3>1, <3>2
  <2>3. left \in [1 .. a.unitCount -> Nat]
    <3>. HIDE DEF room
    <3>. QED BY <2>2
  <2>4. FreeUnits(a, w, 1) # {} <=> \E u \in 1 .. a.unitCount : room(u) >= 1
    BY <1>6 DEF FreeUnits
  <2>5. CapacityAccepts(a, w, 1) <=> FreeUnits(a, w, 1) # {}
    BY <1>1, <1>6, AcceptsShared
  <2>. HIDE DEF left, room, a
  <2>6. IsFiniteSet(1 .. a.unitCount)
    <3>1. 1 \in Int /\ a.unitCount \in Int
      BY <1>2
    <3>. QED BY <3>1, FS_Interval
  <2>7. SumOf(left, 1 .. a.unitCount) > 0 <=> \E u \in 1 .. a.unitCount : left[u] > 0
    BY <2>3, <2>6, SumPositive
  <2>. QED BY <2>1, <2>2, <2>4, <2>5, <2>7 DEF a
<1>7. CASE ~a.hasUnits
  <2>. DEFINE x == a.capacity - maxConcurrentInWindow(Overlapping(w), w)
  <2>1. SlotAvailable(w) = Max({0, x})
    BY <1>7 DEF SlotAvailable, rentsWholeUnit
  <2>2. CapacityAccepts(a, w, 1) <=> 1 <= x
    BY <1>1, <1>7, AcceptsSeats
  <2>3. x \in Int
    BY <1>2, <1>3, <1>4
  <2>. HIDE DEF x
  <2>4. Max({0, x}) = IF x > 0 THEN x ELSE 0
    BY <2>3, MoreThanNone
  <2>. QED BY <2>1, <2>2, <2>3, <2>4
<1>. QED BY <1>5, <1>6, <1>7

LEMMA DayOfTick ==
    ASSUME NEW n \in Nat \ {0}, NEW d \in Nat, NEW r \in 0 .. n - 1
    PROVE  (d * n + r) \div n = d /\ d * n + r \in Nat
OBVIOUS

\* A stay lasts a night at least, from check-in to check-out.
LEMMA StayOfDays ==
    ASSUME NEW i \in Nat, NEW j \in Nat
    PROVE  /\ Stay(i, j).from = i * DayTicks + CheckIn["DAILY"]
           /\ Stay(i, j).to = j * DayTicks + CheckOut["DAILY"]
           /\ DayOf(Stay(i, j).from) = i /\ DayOf(Stay(i, j).to) = j
           /\ Stay(i, j) \in [from : Nat, to : Nat]
           /\ i * DayTicks \in Nat /\ j * DayTicks \in Nat
<1>1. /\ DayTicks \in Nat \ {0}
      /\ CheckIn["DAILY"] \in 0 .. DayTicks - 1 /\ CheckOut["DAILY"] \in 0 .. DayTicks - 1
  BY AvailabilityConstants DEF Types
<1>2. /\ Stay(i, j).from = i * DayTicks + CheckIn["DAILY"]
      /\ Stay(i, j).to = j * DayTicks + CheckOut["DAILY"]
      /\ Stay(i, j) = [from |-> i * DayTicks + CheckIn["DAILY"], to |-> j * DayTicks + CheckOut["DAILY"]]
  BY DEF Stay, Window, DayStart
<1>3. i * DayTicks \in Nat /\ j * DayTicks \in Nat
  BY <1>1, DayStartOf
<1>4. /\ (i * DayTicks + CheckIn["DAILY"]) \div DayTicks = i
      /\ (j * DayTicks + CheckOut["DAILY"]) \div DayTicks = j
      /\ i * DayTicks + CheckIn["DAILY"] \in Nat /\ j * DayTicks + CheckOut["DAILY"] \in Nat
  BY <1>1, DayOfTick
<1>. QED BY <1>2, <1>3, <1>4 DEF DayOf

LEMMA DailyIsStay ==
    ASSUME NEW w \in DailyWindows
    PROVE  \E i, j \in Nat : i < j /\ w = Stay(i, j)
<1>1. PICK x \in (0 .. Days["DAILY"] - 1) \X (0 .. Days["DAILY"] - 1) :
           w = Stay(x[1], x[2]) /\ x[2] - x[1] >= Duration["DAILY"]
  BY DEF DailyWindows
<1>2. Days["DAILY"] \in Nat /\ Duration["DAILY"] \in Nat \ {0}
  BY AvailabilityConstants DEF Types
<1>3. x[1] \in Nat /\ x[2] \in Nat /\ x[1] < x[2]
  BY <1>1, <1>2
<1>. QED BY <1>1, <1>3

\* Two stays overlap when they share a night: nobody arrives before the hour
\* at which the others leave.
LEMMA StaysOverlap ==
    ASSUME NEW i \in Nat, NEW j \in Nat, NEW k \in Nat, NEW l \in Nat
    PROVE  Overlaps(Stay(i, j), Stay(k, l)) <=> i < l /\ k < j
<1>1. /\ DayTicks \in Nat \ {0} /\ CheckOut["DAILY"] <= CheckIn["DAILY"]
      /\ CheckIn["DAILY"] \in 0 .. DayTicks - 1 /\ CheckOut["DAILY"] \in 0 .. DayTicks - 1
  BY AvailabilityConstants DEF Types
<1>2. ASSUME NEW x \in Nat, NEW y \in Nat
      PROVE  x * DayTicks + CheckIn["DAILY"] < y * DayTicks + CheckOut["DAILY"] <=> x < y
  <2>1. x * DayTicks \in Nat /\ y * DayTicks \in Nat
    BY <1>1, DayStartOf
  <2>2. CASE x < y
    <3>1. x * DayTicks + DayTicks <= y * DayTicks
      BY <1>1, <2>2, LaterDay
    <3>. QED BY <1>1, <2>1, <2>2, <3>1
  <2>3. CASE x = y
    BY <1>1, <2>1, <2>3
  <2>4. CASE y < x
    <3>1. y * DayTicks + DayTicks <= x * DayTicks
      BY <1>1, <2>4, LaterDay
    <3>. QED BY <1>1, <2>1, <2>4, <3>1
  <2>. QED BY <2>2, <2>3, <2>4
<1>3. Overlaps(Stay(i, j), Stay(k, l)) <=>
        /\ i * DayTicks + CheckIn["DAILY"] < l * DayTicks + CheckOut["DAILY"]
        /\ k * DayTicks + CheckIn["DAILY"] < j * DayTicks + CheckOut["DAILY"]
  <2>1. /\ i * DayTicks \in Nat /\ j * DayTicks \in Nat
        /\ k * DayTicks \in Nat /\ l * DayTicks \in Nat
    BY <1>1, DayStartOf
  <2>. QED BY <1>1, <2>1, StayOfDays DEF Overlaps
<1>. QED BY <1>2, <1>3

\* All who share a night are there when it begins.
LEMMA NightBegins ==
    ASSUME NEW i \in Nat, NEW j \in Nat, NEW d \in Nat
    PROVE  Stay(i, j).from <= Stay(d, d + 1).from /\ Stay(d, d + 1).from < Stay(i, j).to
             <=> i <= d /\ d < j
<1>1. /\ DayTicks \in Nat \ {0} /\ CheckOut["DAILY"] <= CheckIn["DAILY"]
      /\ CheckIn["DAILY"] \in 0 .. DayTicks - 1 /\ CheckOut["DAILY"] \in 0 .. DayTicks - 1
  BY AvailabilityConstants DEF Types
<1>2. /\ i * DayTicks \in Nat /\ j * DayTicks \in Nat /\ d * DayTicks \in Nat /\ d + 1 \in Nat
      /\ Stay(i, j).from = i * DayTicks + CheckIn["DAILY"]
      /\ Stay(i, j).to = j * DayTicks + CheckOut["DAILY"]
      /\ Stay(d, d + 1).from = d * DayTicks + CheckIn["DAILY"]
  <2>1. i * DayTicks \in Nat /\ j * DayTicks \in Nat /\ d * DayTicks \in Nat
    BY <1>1, DayStartOf
  <2>2. /\ Stay(i, j).from = i * DayTicks + CheckIn["DAILY"]
        /\ Stay(i, j).to = j * DayTicks + CheckOut["DAILY"]
    BY StayOfDays
  <2>3. d + 1 \in Nat
    OBVIOUS
  <2>4. Stay(d, d + 1).from = d * DayTicks + CheckIn["DAILY"]
    BY <2>3, StayOfDays
  <2>. QED BY <2>1, <2>2, <2>3, <2>4
<1>3. i * DayTicks <= d * DayTicks <=> i <= d
  <2>1. CASE i < d
    <3>1. i * DayTicks + DayTicks <= d * DayTicks
      BY <1>1, <2>1, LaterDay
    <3>. QED BY <1>1, <1>2, <2>1, <3>1
  <2>2. CASE i = d
    BY <1>2, <2>2
  <2>3. CASE d < i
    <3>1. d * DayTicks + DayTicks <= i * DayTicks
      BY <1>1, <2>3, LaterDay
    <3>. QED BY <1>1, <1>2, <2>3, <3>1
  <2>. QED BY <2>1, <2>2, <2>3
<1>4. d * DayTicks + CheckIn["DAILY"] < j * DayTicks + CheckOut["DAILY"] <=> d < j
  <2>1. CASE d < j
    <3>1. d * DayTicks + DayTicks <= j * DayTicks
      BY <1>1, <2>1, LaterDay
    <3>. QED BY <1>1, <1>2, <2>1, <3>1
  <2>2. CASE d = j
    BY <1>1, <1>2, <2>2
  <2>3. CASE j < d
    <3>1. j * DayTicks + DayTicks <= d * DayTicks
      BY <1>1, <2>3, LaterDay
    <3>. QED BY <1>1, <1>2, <2>3, <3>1
  <2>. QED BY <2>1, <2>2, <2>3
<1>5. i * DayTicks + CheckIn["DAILY"] <= d * DayTicks + CheckIn["DAILY"] <=> i * DayTicks <= d * DayTicks
  BY <1>1, <1>2
<1>. QED BY <1>2, <1>3, <1>4, <1>5

\* On a DAILY activity everybody who holds something holds a stay.
LEMMA HoldsStay ==
    ASSUME ViewsInv, activity.bookingType = "DAILY", NEW b \in Holding
    PROVE  b \in Bookings /\ \E i, j \in Nat : i < j /\ win[b] = Stay(i, j)
<1>1. b \in Bookings /\ win[b] \in DailyWindows
  BY DEF ViewsInv, Holding, Requests
<1>. QED BY <1>1, DailyIsStay

\* Of one night the crowd is the sum: all of them meet.
LEMMA NightCrowd ==
    ASSUME TypeOK, ViewsInv, activity.bookingType = "DAILY", NEW d \in Nat
    PROVE  LET w == Stay(d, d + 1) IN
           /\ w \in [from : Nat, to : Nat] /\ w.from < w.to
           /\ Overlapping(w) = Meeting(Holding, w.from)
           /\ Overlapping(w) \in SUBSET Bookings
           /\ maxConcurrentInWindow(Overlapping(w), w) = GuestsOf(Overlapping(w))
<1>. DEFINE w == Stay(d, d + 1)
            S == Overlapping(w)
<1>0. d + 1 \in Nat
  OBVIOUS
<1>1. w \in [from : Nat, to : Nat]
  BY <1>0, StayOfDays
<1>2. \A b \in Holding : b \in S <=> b \in Meeting(Holding, w.from)
  <2>. TAKE b \in Holding
  <2>1. PICK i \in Nat, j \in Nat : i < j /\ win[b] = Stay(i, j)
    BY HoldsStay
  <2>2. b \in S <=> i < d + 1 /\ d < j
    BY <2>1, <1>0, StaysOverlap DEF Overlapping
  <2>3. b \in Meeting(Holding, w.from) <=> i <= d /\ d < j
    BY <2>1, NightBegins DEF Meeting
  <2>. QED BY <2>2, <2>3
<1>3. S = Meeting(Holding, w.from) /\ S \in SUBSET Bookings
  <2>1. S \subseteq Holding /\ Meeting(Holding, w.from) \subseteq Holding
    BY DEF Overlapping, Meeting
  <2>2. Holding \subseteq Bookings
    BY DEF Holding
  <2>. HIDE DEF S, w
  <2>. QED BY <1>2, <2>1, <2>2
<1>4. w.from < w.to
  <2>1. Overlaps(w, w)
    BY <1>0, StaysOverlap
  <2>. QED BY <2>1 DEF Overlaps
<1>5. w.from \in w.from .. w.to - 1
  <2>1. w.from \in Nat /\ w.to \in Nat
    BY <1>1
  <2>. HIDE DEF w
  <2>. QED BY <1>4, <2>1
<1>6. Meeting(S, w.from) = S
  <2>1. \A b \in S : b \in Meeting(Holding, w.from)
    BY <1>3
  <2>. HIDE DEF S, w
  <2>. QED BY <2>1 DEF Meeting
<1>. HIDE DEF S, w
<1>7. GuestsOf(S) <= maxConcurrentInWindow(S, w)
  BY <1>1, <1>3, <1>5, <1>6, PeakBounds
<1>8. maxConcurrentInWindow(S, w) <= GuestsOf(S) /\ maxConcurrentInWindow(S, w) \in Nat
      /\ GuestsOf(S) \in Nat
  BY <1>1, <1>3, <1>4, PeakGrows, GuestsAddUp
<1>9. maxConcurrentInWindow(S, w) = GuestsOf(S)
  BY <1>7, <1>8
<1>. QED BY <1>1, <1>3, <1>4, <1>9 DEF S, w

\* The stay view promises nothing createBooking refuses, and for a single
\* night, or whole units, it offers all there is.
LEMMA StaysAgree == TypeOK /\ ViewsInv => StayViewAgrees
<1>. SUFFICES ASSUME TypeOK, ViewsInv, activity.bookingType = "DAILY", NEW w \in DailyWindows
              PROVE  LET accepted == ~Blocked("DAILY", w) /\ CapacityAccepts(activity, w, 1) IN
                     /\ StayAvailable(w) > 0 => accepted
                     /\ accepted /\ (activity.hasUnits \/ DayOf(w.to) = DayOf(w.from) + 1)
                          => StayAvailable(w) > 0
  BY DEF StayViewAgrees
<1>. DEFINE a == activity
<1>0. w \in Requests("DAILY")
  BY DEF Requests
<1>1. a \in Rows /\ w \in [from : Nat, to : Nat] /\ w.from < w.to
  BY <1>0, RequestIsWindow, RequestLasts DEF TypeOK
<1>2. /\ a.unitCount \in Nat /\ a.unitCapacity \in Nat /\ a.capacity \in Nat
      /\ a.hasUnits => a.unitCapacity > 0
  BY <1>1, RowFields
<1>3. Overlapping(w) \in SUBSET Bookings /\ Overlapping(w) \in SUBSET Holding
  BY DEF Overlapping, Holding
<1>4. CASE Blocked("DAILY", w)
  <2>1. StayAvailable(w) = 0
    BY <1>4 DEF StayAvailable
  <2>. QED BY <1>4, <2>1
<1>5. CASE ~Blocked("DAILY", w) /\ a.hasUnits
  <2>. DEFINE emptied == { u \in 1 .. a.unitCount : GuestsOf(InUnit(w, u)) = 0 }
              n == Cardinality(emptied)
              m == Cardinality(unassignedOverlapping(w))
  <2>1. rentsWholeUnit(a)
    BY <1>5 DEF rentsWholeUnit
  <2>2. FreeUnits(a, w, 1) = emptied
    <3>1. \A u : GuestsOf(InUnit(w, u)) = 0 <=> InUnit(w, u) = {}
      <4>. TAKE u
      <4>1. InUnit(w, u) \in SUBSET Holding
        BY <1>3 DEF InUnit
      <4>. QED BY <4>1, SomeGuests
    <3>2. FreeUnits(a, w, 1) = { u \in 1 .. a.unitCount : InUnit(w, u) = {} }
      BY <1>1, <2>1, AcceptsWhole
    <3>. QED BY <3>1, <3>2
  <2>3. CapacityAccepts(a, w, 1) <=> n > m /\ 1 <= a.unitCapacity
    <3>1. CapacityAccepts(a, w, 1) <=>
            Cardinality(FreeUnits(a, w, 1)) > Cardinality(unassignedOverlapping(w))
              /\ 1 <= a.unitCapacity
      BY <1>1, <2>1, AcceptsWhole
    <3>. QED BY <2>2, <3>1
  <2>4. n \in Nat /\ m \in Nat
    <3>1. /\ Cardinality(FreeUnits(a, w, 1)) \in Nat
          /\ Cardinality(unassignedOverlapping(w)) \in Nat
      BY <1>1, <1>5, UnitIsFound
    <3>. QED BY <2>2, <3>1
  <2>5. StayAvailable(w) = a.unitCapacity * Max({0, n - m})
    BY <1>5 DEF StayAvailable
  <2>. HIDE DEF emptied, n, m, a
  <2>6. Max({0, n - m}) = IF n - m > 0 THEN n - m ELSE 0
    BY <2>4, MoreThanNone
  <2>7. StayAvailable(w) > 0 <=> n > m
    <3>1. CASE n > m
      <4>1. Max({0, n - m}) \in Nat \ {0}
        BY <2>4, <2>6, <3>1
      <4>2. a.unitCapacity * Max({0, n - m}) > 0
        BY <1>2, <1>5, <4>1
      <4>. QED BY <2>5, <3>1, <4>2
    <3>2. CASE ~(n > m)
      <4>1. Max({0, n - m}) = 0
        BY <2>4, <2>6, <3>2
      <4>2. StayAvailable(w) = 0
        BY <1>2, <2>5, <4>1
      <4>. QED BY <3>2, <4>2
    <3>. QED BY <3>1, <3>2
  <2>8. 1 <= a.unitCapacity
    BY <1>2, <1>5
  <2>. QED BY <1>5, <2>3, <2>7, <2>8 DEF a
<1>6. CASE ~Blocked("DAILY", w) /\ ~a.hasUnits
  <2>. DEFINE all == GuestsOf(Overlapping(w))
              peak == maxConcurrentInWindow(Overlapping(w), w)
  <2>1. StayAvailable(w) = Max({0, a.capacity - all})
    BY <1>6 DEF StayAvailable
  <2>2. CapacityAccepts(a, w, 1) <=> 1 <= a.capacity - peak
    BY <1>1, <1>6, AcceptsSeats
  <2>3. all \in Nat /\ peak \in Nat /\ peak <= all
    BY <1>1, <1>3, GuestsAddUp, PeakGrows
  <2>4. DayOf(w.to) = DayOf(w.from) + 1 => peak = all
    <3>. SUFFICES ASSUME DayOf(w.to) = DayOf(w.from) + 1 PROVE peak = all
      OBVIOUS
    <3>1. PICK i \in Nat, j \in Nat : i < j /\ w = Stay(i, j)
      BY DailyIsStay
    <3>2. j = i + 1
      BY <3>1, StayOfDays
    <3>. QED BY <3>1, <3>2, NightCrowd
  <2>. HIDE DEF all, peak, a
  <2>5. Max({0, a.capacity - all}) = IF a.capacity - all > 0 THEN a.capacity - all ELSE 0
    BY <1>2, <2>3, MoreThanNone
  <2>6. StayAvailable(w) > 0 <=> a.capacity - all > 0
    BY <1>2, <2>1, <2>3, <2>5
  <2>7. StayAvailable(w) > 0 => CapacityAccepts(a, w, 1)
    BY <1>2, <2>2, <2>3, <2>6
  <2>8. CapacityAccepts(a, w, 1) /\ DayOf(w.to) = DayOf(w.from) + 1 => StayAvailable(w) > 0
    BY <1>2, <2>2, <2>3, <2>4, <2>6
  <2>. QED BY <1>6, <2>7, <2>8 DEF a
<1>. QED BY <1>4, <1>5, <1>6

\* What a set of units holds at most, each holding at most cap.
LEMMA UnitsAddUp ==
    ASSUME TypeOK, NEW T \in SUBSET Bookings, NEW U, IsFiniteSet(U), NEW cap \in Nat,
           \A u \in U : GuestsOf({ b \in T : unit[b] = u }) <= cap
    PROVE  /\ GuestsOf({ b \in T : unit[b] \in U }) <= Cardinality(U) * cap
           /\ Cardinality(U) * cap \in Nat
<1>. DEFINE in(V) == { b \in T : unit[b] \in V }
            Bad == { V \in SUBSET U : ~(GuestsOf(in(V)) <= Cardinality(V) * cap) }
<1>0. Cardinality(U) * cap \in Nat
  <2>1. Cardinality(U) \in Nat
    BY FS_CardinalityType
  <2>. QED BY <2>1
<1>1. SUFFICES ASSUME Bad # {} PROVE FALSE
  BY <1>0
<1>2. \A V \in Bad : IsFiniteSet(V)
  BY FS_Subset
<1>3. PICK V \in Bad : \A x \in V : V \ {x} \notin Bad
  <2>. HIDE DEF Bad
  <2>. QED BY <1>1, <1>2, SmallestOfSets
<1>4. V # {}
  <2>1. SUFFICES ASSUME V = {} PROVE FALSE
    OBVIOUS
  <2>2. in(V) = {} /\ Cardinality(V) = 0
    BY <2>1, FS_EmptySet
  <2>3. GuestsOf(in(V)) = 0
    BY <2>2, NobodyThere
  <2>4. ~(0 <= 0 * cap)
    BY <2>2, <2>3
  <2>. QED BY <2>4
<1>5. PICK x \in V : TRUE
  BY <1>4
<1>. DEFINE one == { b \in T : unit[b] = x }
            rest == in(V \ {x})
<1>6. in(V) = rest \cup one /\ rest \cap one = {}
  BY <1>5
<1>7. rest \in SUBSET Bookings /\ one \in SUBSET Bookings /\ in(V) \in SUBSET Bookings
  OBVIOUS
<1>8. GuestsOf(in(V)) = GuestsOf(rest) + GuestsOf(one)
  <2>1. guests \in [Bookings -> Nat]
    BY AvailabilityConstants DEF TypeOK
  <2>2. /\ GuestsOf(in(V)) = SumOf(guests, in(V))
        /\ GuestsOf(rest) = SumOf(guests, rest) /\ IsFiniteSet(rest)
        /\ GuestsOf(one) = SumOf(guests, one) /\ IsFiniteSet(one)
    <3>. HIDE DEF rest, one, in
    <3>. QED BY <1>7, GuestsAddUp
  <2>. HIDE DEF rest, one, in
  <2>3. SumOf(guests, rest \cup one) = SumOf(guests, rest) + SumOf(guests, one)
    BY <1>6, <1>7, <2>1, <2>2, SumOfTwo
  <2>. QED BY <1>6, <2>2, <2>3
<1>9. GuestsOf(one) <= cap
  BY <1>5
<1>10. GuestsOf(rest) <= Cardinality(V \ {x}) * cap
  BY <1>3, <1>5
<1>11. GuestsOf(rest) \in Nat /\ GuestsOf(one) \in Nat
  <2>. HIDE DEF rest, one
  <2>. QED BY <1>7, GuestsAddUp
<1>12. Cardinality(V \ {x}) = Cardinality(V) - 1 /\ Cardinality(V) \in Nat /\ Cardinality(V \ {x}) \in Nat
  <2>1. IsFiniteSet(V)
    BY <1>2
  <2>2. /\ Cardinality(V \ {x}) = Cardinality(V) - 1 /\ Cardinality(V) \in Nat
        /\ IsFiniteSet(V \ {x})
    BY <1>5, <2>1, FS_RemoveElement, FS_CardinalityType
  <2>. QED BY <2>2, FS_CardinalityType
<1>13. ~(GuestsOf(in(V)) <= Cardinality(V) * cap)
  OBVIOUS
<1>. HIDE DEF in, rest, one, Bad
<1>14. Cardinality(V) * cap = Cardinality(V \ {x}) * cap + cap
  BY <1>12
<1>15. Cardinality(V \ {x}) * cap \in Nat
  BY <1>12
<1>. QED BY <1>8, <1>9, <1>10, <1>11, <1>13, <1>14, <1>15

LEMMA GuestsOfTwo ==
    ASSUME TypeOK, NEW S \in SUBSET Bookings, NEW T \in SUBSET Bookings, S \cap T = {}
    PROVE  /\ GuestsOf(S \cup T) = GuestsOf(S) + GuestsOf(T)
           /\ GuestsOf(S) \in Nat /\ GuestsOf(T) \in Nat
<1>1. guests \in [Bookings -> Nat]
  BY AvailabilityConstants DEF TypeOK
<1>2. GuestsOf(S \cup T) = SumOf(guests, S \cup T)
  <2>1. S \cup T \in SUBSET Bookings
    OBVIOUS
  <2>. QED BY <2>1, GuestsAddUp
<1>3. /\ GuestsOf(S) = SumOf(guests, S) /\ IsFiniteSet(S) /\ GuestsOf(S) \in Nat
      /\ GuestsOf(T) = SumOf(guests, T) /\ IsFiniteSet(T) /\ GuestsOf(T) \in Nat
  BY GuestsAddUp
<1>4. S \cap T = {} /\ S \in SUBSET Bookings /\ T \in SUBSET Bookings
  OBVIOUS
<1>5. SumOf(guests, S \cup T) = SumOf(guests, S) + SumOf(guests, T)
  BY <1>1, <1>3, <1>4, SumOfTwo
<1>. QED BY <1>2, <1>3, <1>5

\* A window the calendar counts as full has no place for a guest.
LEMMA FullIsRefused ==
    ASSUME TypeOK, NEW w \in [from : Nat, to : Nat], w.from < w.to,
           InRange, NothingOversold, SlotFull(w)
    PROVE  ~CapacityAccepts(activity, w, 1)
<1>. DEFINE a == activity
            n == a.unitCount
            cap == a.unitCapacity
            S == Overlapping(w)
<1>1. SUFFICES ASSUME CapacityAccepts(a, w, 1) PROVE FALSE
  OBVIOUS
<1>2. /\ a \in Rows /\ n \in Nat /\ cap \in Nat /\ a.capacity \in Nat
      /\ a.hasUnits \in BOOLEAN /\ (a.hasUnits => n > 0 /\ cap > 0)
  BY RowFields DEF TypeOK
<1>3. S \in SUBSET Bookings /\ S \in SUBSET Holding
  BY DEF Overlapping, Holding
<1>4. maxConcurrentInWindow(S, w) \in Nat
  <2>. HIDE DEF S
  <2>. QED BY <1>3, PeakGrows
<1>5. CASE rentsWholeUnit(a)
  <2>1. a.hasUnits
    BY <1>5 DEF rentsWholeUnit
  <2>2. ResolvedUnit(a, w, 1) # NoUnit
    BY <1>1, <2>1 DEF CapacityAccepts
  <2>3. Cardinality({ unit[c] : c \in S } \cap 1 .. n)
          + Cardinality({ c \in S : unit[c] = NoUnit }) < n
    BY <1>2, <1>5, <2>2, WholeUnitsLeft
  <2>4. { unit[c] : c \in S } \cap 1 .. n = OccupiedUnits(w)
    <3>1. \A c \in S : unit[c] \in 1 .. n \cup {NoUnit}
      BY <1>3, <2>1 DEF InRange
    <3>2. NoUnit \notin 1 .. n
      BY <1>2, AvailabilityConstants
    <3>. QED BY <3>1, <3>2 DEF OccupiedUnits
  <2>5. { c \in S : unit[c] = NoUnit } = unassignedOverlapping(w)
    BY DEF unassignedOverlapping, InUnit
  <2>6. Cardinality(OccupiedUnits(w)) + Cardinality(unassignedOverlapping(w)) >= n
    BY <1>5 DEF SlotFull, AllUnitsTaken
  <2>7. /\ Cardinality({ unit[c] : c \in S } \cap 1 .. n) \in Nat
        /\ Cardinality({ c \in S : unit[c] = NoUnit }) \in Nat
    <3>1. IsFiniteSet(S)
      <4>. HIDE DEF S
      <4>. QED BY <1>3, GuestsAddUp
    <3>2. 1 \in Int /\ n \in Int
      BY <1>2
    <3>3. IsFiniteSet(1 .. n)
      BY <3>2, FS_Interval
    <3>4. IsFiniteSet({ c \in S : unit[c] = NoUnit })
      BY <3>1, FS_Subset
    <3>5. IsFiniteSet({ unit[c] : c \in S } \cap 1 .. n)
      BY <3>3, FS_Intersection
    <3>. QED BY <3>4, <3>5, FS_CardinalityType
  <2>8. Cardinality(OccupiedUnits(w)) + Cardinality(unassignedOverlapping(w)) < n
    BY <2>3, <2>4, <2>5
  <2>9. Cardinality(OccupiedUnits(w)) \in Nat /\ Cardinality(unassignedOverlapping(w)) \in Nat
    BY <2>4, <2>5, <2>7
  <2>. HIDE DEF n
  <2>. QED BY <1>2, <2>6, <2>8, <2>9
<1>6. CASE ~a.hasUnits
  <2>1. 1 <= a.capacity - maxConcurrentInWindow(S, w)
    BY <1>1, <1>2, <1>6, AcceptsSeats
  <2>2. maxConcurrentInWindow(S, w) >= a.capacity
    BY <1>6 DEF SlotFull, PooledCapacity, rentsWholeUnit
  <2>. HIDE DEF S, a
  <2>. QED BY <1>2, <1>4, <2>1, <2>2
<1>7. CASE a.hasUnits /\ ~rentsWholeUnit(a)
  <2>1. maxConcurrentInWindow(S, w) >= n * cap
    BY <1>7 DEF SlotFull, PooledCapacity
  <2>2. n * cap \in Nat /\ n * cap > 0
    <3>. HIDE DEF n, cap
    <3>. QED BY <1>2, <1>7
  <2>3. PICK t \in w.from .. w.to - 1 : maxConcurrentInWindow(S, w) = GuestsOf(Meeting(S, t))
    <3>. HIDE DEF S
    <3>1. maxConcurrentInWindow(S, w) \in Crowds(S, w)
      <4>1. maxConcurrentInWindow(S, w) # 0
        <5>. HIDE DEF n, cap
        <5>. QED BY <1>4, <2>1, <2>2
      <4>. QED BY <1>3, <4>1, SweepLooksAt
    <3>. QED BY <1>3, <3>1, SweepLooksAt
  <2>4. t \in Nat /\ w.from <= t /\ t < w.to
    OBVIOUS
  <2>. DEFINE T == Meeting(S, t)
  <2>5. T = { c \in Holding : win[c].from <= t /\ t < win[c].to }
    <3>1. \A c \in Holding : win[c].from <= t /\ t < win[c].to => c \in S
      <4>1. \A c \in Holding : win[c] \in [from : Nat, to : Nat]
        BY DEF Holding, TypeOK
      <4>. QED BY <2>4, <4>1 DEF Overlapping, Overlaps
    <3>. QED BY <1>3, <3>1 DEF Meeting
  <2>6. PICK u \in 1 .. n : cap - maxConcurrentInWindow(InUnit(w, u) \cup unassignedOverlapping(w), w) >= 1
    <3>1. FreeUnits(a, w, 1) # {}
      BY <1>1, <1>2, <1>7, AcceptsShared
    <3>. QED BY <1>7, <3>1 DEF FreeUnits
  <2>. DEFINE near == { c \in T : unit[c] \in {u, NoUnit} }
              others == { c \in T : unit[c] \in (1 .. n) \ {u} }
  <2>7. GuestsOf(near) + 1 <= cap
    <3>1. Meeting(InUnit(w, u) \cup unassignedOverlapping(w), t) = near
      BY DEF Meeting, InUnit, unassignedOverlapping
    <3>2. InUnit(w, u) \cup unassignedOverlapping(w) \in SUBSET Bookings
      BY <1>3 DEF InUnit, unassignedOverlapping
    <3>3. GuestsOf(Meeting(InUnit(w, u) \cup unassignedOverlapping(w), t)) + 1 <= cap
      <4>. HIDE DEF cap, near
      <4>. QED BY <1>2, <2>6, <3>2, SeatsLeft
    <3>. QED BY <3>1, <3>3
  <2>8. \A x \in (1 .. n) \ {u} : GuestsOf({ c \in T : unit[c] = x }) <= cap
    <3>. SUFFICES ASSUME NEW x \in (1 .. n) \ {u} PROVE GuestsOf({ c \in T : unit[c] = x }) <= cap
      OBVIOUS
    <3>. DEFINE one == { c \in T : unit[c] = x }
    <3>1. CASE one = {}
      <4>1. GuestsOf(one) = 0
        BY <3>1, NobodyThere
      <4>. QED BY <1>2, <4>1
    <3>2. CASE one # {}
      <4>1. PICK b \in one : TRUE
        BY <3>2
      <4>2. b \in Holding /\ unit[b] = x /\ win[b].from <= t /\ t < win[b].to
        BY <2>5, <4>1
      <4>3. t \in win[b].from .. win[b].to - 1
        <5>1. win[b] \in [from : Nat, to : Nat]
          BY <4>2 DEF Holding, TypeOK
        <5>. QED BY <2>4, <4>2, <5>1
      <4>4. GuestsOf({ c \in Holding : (a.hasUnits => unit[c] = unit[b])
                                         /\ win[c].from <= t /\ t < win[c].to }) <= cap
        BY <1>7, <4>2, <4>3 DEF NothingOversold
      <4>5. { c \in Holding : (a.hasUnits => unit[c] = unit[b])
                                /\ win[c].from <= t /\ t < win[c].to } = one
        BY <1>7, <2>5, <4>2
      <4>. QED BY <4>4, <4>5
    <3>. QED BY <3>1, <3>2
  <2>9. T \in SUBSET Bookings
    BY <1>3 DEF Meeting
  <2>10. IsFiniteSet((1 .. n) \ {u}) /\ Cardinality((1 .. n) \ {u}) = n - 1
    <3>1. 1 \in Int /\ n \in Int
      BY <1>2
    <3>2. IsFiniteSet(1 .. n) /\ Cardinality(1 .. n) = IF 1 > n THEN 0 ELSE n - 1 + 1
      BY <3>1, FS_Interval
    <3>3. n > 0 /\ (IF 1 > n THEN 0 ELSE n - 1 + 1) = n
      BY <1>2, <1>7
    <3>. DEFINE all == 1 .. n
    <3>4. u \in all /\ IsFiniteSet(all) /\ Cardinality(all) = n
      BY <3>2, <3>3
    <3>. HIDE DEF all
    <3>5. IsFiniteSet(all \ {u}) /\ Cardinality(all \ {u}) = n - 1
      BY <3>4, FS_RemoveElement
    <3>. QED BY <3>5 DEF all
  <2>11. GuestsOf(others) <= (n - 1) * cap
    <3>. HIDE DEF T, cap
    <3>. QED BY <1>2, <2>8, <2>9, <2>10, UnitsAddUp
  <2>12. /\ GuestsOf(T) = GuestsOf(near) + GuestsOf(others)
         /\ GuestsOf(near) \in Nat /\ GuestsOf(others) \in Nat
    <3>1. near \cup others = T /\ near \cap others = {}
      <4>1. \A c \in T : unit[c] \in 1 .. n \cup {NoUnit}
        BY <1>7, <2>5 DEF InRange
      <4>2. NoUnit \notin 1 .. n
        BY <1>2, AvailabilityConstants
      <4>. HIDE DEF T
      <4>. QED BY <4>1, <4>2
    <3>2. near \in SUBSET Bookings /\ others \in SUBSET Bookings
      BY <2>9
    <3>. HIDE DEF near, others, T
    <3>. QED BY <3>1, <3>2, GuestsOfTwo
  <2>13. GuestsOf(T) >= n * cap
    BY <2>1, <2>3
  <2>. HIDE DEF near, others, T, n, cap
  <2>14. (n - 1) * cap + cap = n * cap
    BY <1>2
  <2>15. (n - 1) * cap \in Nat
    BY <1>2, <1>7 DEF n
  <2>. QED BY <1>2, <2>2, <2>7, <2>11, <2>12, <2>13, <2>14, <2>15
<1>. QED BY <1>2, <1>5, <1>6, <1>7

\* A block over the whole day of a slot is over the slot.
LEMMA HourlyDaysAgree ==
    ASSUME TypeOK, activity.bookingType = "HOURLY", InRange, NothingOversold,
           NEW d \in 0 .. Days["HOURLY"] - 1, IsFullyBooked(d), NEW w \in computeSlots[d]
    PROVE  Blocked("HOURLY", w) \/ ~CapacityAccepts(activity, w, 1)
<1>1. w \in [from : Nat, to : Nat] /\ w.from < w.to
  BY SlotOfDay
<1>2. CASE DayFullyBlocked(d)
  <2>1. PICK v \in blocks : v.from <= DayStart(d) /\ v.to >= DayStart(d + 1)
    BY <1>2 DEF DayFullyBlocked
  <2>2. v \in [from : Nat, to : Nat]
    BY DEF TypeOK
  <2>3. DayStart(d) <= w.from /\ w.to <= DayStart(d) + DayTicks /\ d \in Nat /\ DayStart(d) \in Nat
    BY SlotOfDay
  <2>4. DayStart(d + 1) = DayStart(d) + DayTicks /\ DayStart(d + 1) \in Nat
    BY <2>3, AvailabilityConstants DEF DayStart
  <2>5. Overlaps(v, w)
    BY <1>1, <2>1, <2>2, <2>3, <2>4 DEF Overlaps
  <2>. QED BY <2>5 DEF Blocked, BlockWindow
<1>3. CASE ~DayFullyBlocked(d)
  <2>1. SlotFull(w)
    BY <1>3 DEF IsFullyBooked
  <2>. QED BY <1>1, <2>1, FullIsRefused
<1>. QED BY <1>2, <1>3

\* For blocks of whole days, a day touched is a day covered.
LEMMA WholeDays ==
    ASSUME NEW n \in Nat \ {0}, NEW d \in Nat, NEW x \in Nat, NEW y \in Nat,
           x % n = 0, y % n = 0
    PROVE  /\ x < (d + 1) * n <=> x <= d * n
           /\ y > d * n <=> y >= (d + 1) * n
<1>1. ASSUME NEW z \in Nat, z % n = 0
      PROVE  z <= d * n \/ d * n + n <= z
  <2>. DEFINE q == z \div n
  <2>1. q \in Nat /\ q * n = z
    BY <1>1
  <2>. HIDE DEF q
  <2>2. CASE q = d
    BY <2>1, <2>2
  <2>3. CASE q < d
    <3>1. q * n + n <= d * n
      BY <2>1, <2>3, LaterDay
    <3>. QED BY <2>1, <3>1
  <2>4. CASE d < q
    <3>1. d * n + n <= q * n
      BY <2>1, <2>4, LaterDay
    <3>. QED BY <2>1, <3>1
  <2>. QED BY <2>1, <2>2, <2>3, <2>4
<1>2. (d + 1) * n = d * n + n /\ d * n \in Nat
  OBVIOUS
<1>3. x <= d * n \/ d * n + n <= x
  BY <1>1
<1>4. y <= d * n \/ d * n + n <= y
  BY <1>1
<1>. QED BY <1>2, <1>3, <1>4

LEMMA NightBlocked ==
    ASSUME TypeOK, ViewsInv, activity.bookingType = "DAILY", NEW d \in Nat
    PROVE  /\ DayFullyBlocked(d) <=> DayBlocked(d)
           /\ Blocked("DAILY", Stay(d, d + 1)) <=> DayBlocked(d)
<1>1. \A v \in blocks : /\ v \in [from : Nat, to : Nat]
                        /\ v.from % DayTicks = 0 /\ v.to % DayTicks = 0
  BY BlockIsWindow DEF TypeOK, ViewsInv
<1>2. DayTicks \in Nat \ {0}
  BY AvailabilityConstants
<1>3. \A v \in blocks : Overlaps(v, Window(DayStart(d), DayStart(d + 1)))
                          <=> v.from <= DayStart(d) /\ v.to >= DayStart(d + 1)
  BY <1>1, <1>2, WholeDays DEF Overlaps, Window, DayStart
<1>4. BlockWindow("DAILY", Stay(d, d + 1)) = Window(DayStart(d), DayStart(d + 1))
  BY StayOfDays DEF BlockWindow
<1>. QED BY <1>3, <1>4 DEF DayFullyBlocked, DayBlocked, Blocked

\* With whole units, the units left are those that are neither taken nor owed.
LEMMA UnitsTaken ==
    ASSUME TypeOK, InRange, activity.hasUnits, rentsWholeUnit(activity),
           NEW w \in [from : Nat, to : Nat], w.from < w.to
    PROVE  AllUnitsTaken(w) <=> ~CapacityAccepts(activity, w, 1)
<1>. DEFINE a == activity
            n == a.unitCount
            all == 1 .. n
            free == FreeUnits(a, w, 1)
            m == Cardinality(unassignedOverlapping(w))
            o == Cardinality(OccupiedUnits(w))
<1>1. a \in Rows /\ n \in Nat /\ a.unitCapacity \in Nat /\ n > 0 /\ a.unitCapacity > 0
  BY RowFields DEF TypeOK
<1>2. CapacityAccepts(a, w, 1) <=> Cardinality(free) > m
  BY <1>1, AcceptsWhole
<1>3. free = all \ OccupiedUnits(w) /\ OccupiedUnits(w) \in SUBSET all
  <2>1. free = { u \in all : InUnit(w, u) = {} }
    BY <1>1, AcceptsWhole
  <2>2. \A b \in Overlapping(w) : unit[b] \in all \cup {NoUnit}
    BY DEF InRange, Overlapping
  <2>3. NoUnit \notin all
    BY <1>1, AvailabilityConstants
  <2>. QED BY <2>1, <2>2, <2>3 DEF OccupiedUnits, InUnit
<1>4. IsFiniteSet(all) /\ Cardinality(all) = n
  <2>1. 1 \in Int /\ n \in Int
    BY <1>1
  <2>2. IsFiniteSet(all) /\ Cardinality(all) = IF 1 > n THEN 0 ELSE n - 1 + 1
    BY <2>1, FS_Interval
  <2>. QED BY <1>1, <2>2
<1>. HIDE DEF all
<1>5. Cardinality(all \ OccupiedUnits(w)) = Cardinality(all) - Cardinality(all \cap OccupiedUnits(w))
  BY <1>4, FS_Difference
<1>6. all \cap OccupiedUnits(w) = OccupiedUnits(w)
  BY <1>3
<1>7. Cardinality(free) = n - o
  BY <1>3, <1>4, <1>5, <1>6
<1>8. o \in Nat /\ m \in Nat
  <2>1. IsFiniteSet(OccupiedUnits(w))
    BY <1>3, <1>4, FS_Subset
  <2>. QED BY <1>1, <2>1, UnitIsFound, FS_CardinalityType
<1>9. AllUnitsTaken(w) <=> o + m >= n
  BY DEF AllUnitsTaken
<1>. HIDE DEF o, m, n, free, a
<1>10. n \in Nat
  BY <1>1
<1>11. AllUnitsTaken(w) <=> ~CapacityAccepts(a, w, 1)
  BY <1>2, <1>7, <1>8, <1>9, <1>10
<1>. QED BY <1>11 DEF a

LEMMA NightsAgree ==
    ASSUME TypeOK, ViewsInv, activity.bookingType = "DAILY", InRange \/ ~activity.hasUnits,
           NEW d \in Nat
    PROVE  IsFullyBooked(d) <=>
             Blocked("DAILY", Stay(d, d + 1)) \/ ~CapacityAccepts(activity, Stay(d, d + 1), 1)
<1>. DEFINE a == activity
            w == Stay(d, d + 1)
<1>1. w = DayWindow(d)
  BY DEF Stay, DayWindow
<1>2. w \in [from : Nat, to : Nat] /\ w.from < w.to
  BY NightCrowd
<1>3. a \in Rows /\ a.capacity \in Nat /\ a.hasUnits \in BOOLEAN
  BY RowFields DEF TypeOK
<1>4. IsFullyBooked(d) <=> \/ Blocked("DAILY", w)
                           \/ IF rentsWholeUnit(a) THEN AllUnitsTaken(w)
                              ELSE GuestsOf(Overlapping(w)) >= a.capacity
  BY <1>1, NightBlocked DEF IsFullyBooked
<1>5. CASE a.hasUnits
  <2>1. rentsWholeUnit(a)
    BY <1>5 DEF rentsWholeUnit
  <2>2. AllUnitsTaken(w) <=> ~CapacityAccepts(a, w, 1)
    <3>. HIDE DEF w
    <3>. QED BY <1>2, <1>5, <2>1, UnitsTaken
  <2>. QED BY <1>4, <2>1, <2>2
<1>6. CASE ~a.hasUnits
  <2>1. ~rentsWholeUnit(a)
    BY <1>6 DEF rentsWholeUnit
  <2>2. CapacityAccepts(a, w, 1) <=> 1 <= a.capacity - maxConcurrentInWindow(Overlapping(w), w)
    BY <1>3, <1>6, AcceptsSeats
  <2>3. maxConcurrentInWindow(Overlapping(w), w) = GuestsOf(Overlapping(w))
    BY NightCrowd
  <2>4. GuestsOf(Overlapping(w)) \in Nat
    <3>1. Overlapping(w) \in SUBSET Bookings
      BY NightCrowd
    <3>. QED BY <3>1, GuestsAddUp
  <2>5. GuestsOf(Overlapping(w)) >= a.capacity <=> ~(1 <= a.capacity - GuestsOf(Overlapping(w)))
    BY <1>3, <2>4
  <2>. QED BY <1>4, <2>1, <2>2, <2>3, <2>5
<1>. QED BY <1>3, <1>5, <1>6

LEMMA DaysAgree == TypeOK /\ ViewsInv => CalendarAgrees
<1>. SUFFICES ASSUME TypeOK, ViewsInv PROVE CalendarAgrees
  OBVIOUS
<1>1. CASE activity.bookingType = "HOURLY"
  BY <1>1, HourlyDaysAgree DEF CalendarAgrees
<1>2. CASE activity.bookingType # "HOURLY"
  <2>1. activity.bookingType = "DAILY"
    BY <1>2, RowFields DEF TypeOK, Types
  <2>2. \A d \in 0 .. Days["DAILY"] - 2 : d \in Nat
    BY AvailabilityConstants DEF Types
  <2>. QED BY <1>2, <2>1, <2>2, NightsAgree DEF CalendarAgrees
<1>. QED BY <1>1, <1>2

\* A block is of whole days, or of an hour from the start of a slot.
LEMMA BlockShape ==
    ASSUME NEW v \in BlockWindows, activity \in Rows
    PROVE  \/ \E i, j \in Nat : i < j /\ v = Window(DayStart(i), DayStart(j))
           \/ /\ activity.bookingType # "DAILY"
              /\ \E d \in 0 .. Days["HOURLY"] - 1 : \E s \in computeSlots[d] :
                   v = Window(s.from, s.from + HourTicks)
<1>. DEFINE type == activity.bookingType
<1>1. type \in Types
  BY RowFields
<1>2. Days[type] \in Nat /\ Days["HOURLY"] \in Nat /\ BlockDays \in Nat
  BY <1>1, AvailabilityConstants DEF Types
<1>3. CASE \E x \in (0 .. Days[type] - 1) \X (1 .. BlockDays) :
              v = Window(DayStart(x[1]), DayStart(x[1] + x[2]))
  <2>1. PICK x \in (0 .. Days[type] - 1) \X (1 .. BlockDays) :
             v = Window(DayStart(x[1]), DayStart(x[1] + x[2]))
    BY <1>3
  <2>2. x[1] \in Nat /\ x[1] + x[2] \in Nat /\ x[1] < x[1] + x[2]
    BY <1>2
  <2>. QED BY <2>1, <2>2
<1>4. CASE /\ type # "DAILY"
           /\ \E w \in UNION { computeSlots[d] : d \in 0 .. Days["HOURLY"] - 1 } :
                v = Window(w.from, w.from + HourTicks)
  BY <1>4
<1>. QED BY <1>3, <1>4 DEF BlockWindows

\* A stay touches a block exactly when one of its nights does.
LEMMA StayBlocked ==
    ASSUME TypeOK, ViewsInv, activity.bookingType = "DAILY",
           NEW i \in Nat, NEW j \in Nat, i < j
    PROVE  Blocked("DAILY", Stay(i, j)) <=> \E d \in i .. j - 1 : DayBlocked(d)
<1>. DEFINE n == DayTicks
            W == Window(DayStart(i), DayStart(j))
<1>1. n \in Nat \ {0}
  BY AvailabilityConstants
<1>2. BlockWindow("DAILY", Stay(i, j)) = W
  BY StayOfDays DEF BlockWindow
<1>3. \A d, e \in Nat : d < e => d * n \in Nat /\ e * n \in Nat /\ d * n + n <= e * n
  BY <1>1, LaterDay, DayStartOf
<1>4. ASSUME NEW d \in i .. j - 1
      PROVE  /\ d \in Nat /\ i <= d /\ d + 1 <= j
             /\ i * n <= d * n /\ (d + 1) * n <= j * n /\ (d + 1) * n = d * n + n
             /\ i * n \in Nat /\ d * n \in Nat /\ j * n \in Nat
  <2>1. d \in Nat /\ i <= d /\ d < j
    OBVIOUS
  <2>2. i = d \/ i * n + n <= d * n
    BY <1>3, <2>1
  <2>3. (d + 1) * n = d * n + n /\ d * n \in Nat /\ i * n \in Nat /\ j * n \in Nat
    BY <1>1, <2>1
  <2>4. d * n + n <= j * n
    BY <1>3, <2>1
  <2>. QED BY <1>1, <2>1, <2>2, <2>3, <2>4
<1>5. ASSUME NEW d \in i .. j - 1, DayBlocked(d)
      PROVE  Blocked("DAILY", Stay(i, j))
  <2>1. PICK v \in blocks : Overlaps(v, Window(DayStart(d), DayStart(d + 1)))
    BY <1>5 DEF DayBlocked
  <2>2. v \in [from : Nat, to : Nat]
    BY DEF TypeOK
  <2>3. Overlaps(v, W)
    BY <1>4, <2>1, <2>2 DEF Overlaps, Window, DayStart
  <2>. QED BY <1>2, <2>3 DEF Blocked
<1>6. ASSUME Blocked("DAILY", Stay(i, j))
      PROVE  \E d \in i .. j - 1 : DayBlocked(d)
  <2>1. PICK v \in blocks : Overlaps(v, W)
    BY <1>2, <1>6 DEF Blocked
  <2>2. PICK k \in Nat, l \in Nat : k < l /\ v = Window(DayStart(k), DayStart(l))
    <3>1. v \in BlockWindows /\ activity \in Rows
      BY DEF ViewsInv, TypeOK
    <3>. QED BY <3>1, BlockShape
  <2>3. k * n < j * n /\ l * n > i * n
    BY <2>1, <2>2 DEF Overlaps, Window, DayStart
  <2>4. k < j /\ i < l
    <3>1. k < j \/ k = j \/ j < k
      OBVIOUS
    <3>2. i < l \/ i = l \/ l < i
      OBVIOUS
    <3>3. k * n \in Nat /\ j * n \in Nat /\ l * n \in Nat /\ i * n \in Nat
      BY <1>1
    <3>. QED BY <1>1, <1>3, <2>3, <3>1, <3>2, <3>3
  <2>. DEFINE d == IF k <= i THEN i ELSE k
  <2>5. d \in i .. j - 1 /\ d \in Nat /\ k <= d /\ d < l /\ d + 1 \in Nat
    BY <2>2, <2>4
  <2>. HIDE DEF d
  <2>6. k * n < (d + 1) * n /\ l * n > d * n
    <3>1. k < d + 1
      BY <2>5
    <3>2. k * n + n <= (d + 1) * n /\ d * n + n <= l * n
      BY <1>3, <2>5, <3>1
    <3>3. k * n \in Nat /\ d * n \in Nat /\ (d + 1) * n \in Nat /\ l * n \in Nat
      BY <1>1, <2>5
    <3>4. n \in Nat /\ n > 0
      BY <1>1
    <3>. HIDE DEF n
    <3>. QED BY <3>2, <3>3, <3>4
  <2>7. Overlaps(v, Window(DayStart(d), DayStart(d + 1)))
    BY <2>2, <2>6 DEF Overlaps, Window, DayStart
  <2>. QED BY <2>5, <2>7 DEF DayBlocked
<1>. QED BY <1>5, <1>6

\* The nights of a stay, and those who are there.
LEMMA NightOfStay ==
    ASSUME TypeOK, ViewsInv, activity.bookingType = "DAILY",
           NEW i \in Nat, NEW j \in Nat, i < j, NEW d \in i .. j - 1
    PROVE  LET t == Stay(d, d + 1).from
               w == Stay(i, j)
           IN  /\ d \in Nat /\ t \in w.from .. w.to - 1
               /\ Meeting(Overlapping(w), t) = Overlapping(Stay(d, d + 1))
<1>. DEFINE t == Stay(d, d + 1).from
            w == Stay(i, j)
<1>1. d \in Nat /\ i <= d /\ d < j /\ d + 1 \in Nat
  OBVIOUS
<1>2. w \in [from : Nat, to : Nat] /\ t \in Nat
  BY <1>1, StayOfDays
<1>3. w.from <= t /\ t < w.to
  BY <1>1, NightBegins
<1>4. t \in w.from .. w.to - 1
  <2>. HIDE DEF t, w
  <2>. QED BY <1>2, <1>3
<1>5. Overlapping(Stay(d, d + 1)) = Meeting(Holding, t)
  BY <1>1, NightCrowd
<1>6. \A b \in Meeting(Holding, t) : b \in Overlapping(w)
  <2>. SUFFICES ASSUME NEW b \in Meeting(Holding, t) PROVE b \in Overlapping(w)
    OBVIOUS
  <2>1. b \in Holding /\ win[b].from <= t /\ t < win[b].to
    BY DEF Meeting
  <2>2. win[b] \in [from : Nat, to : Nat]
    BY <2>1 DEF Holding, TypeOK
  <2>. HIDE DEF t, w
  <2>. QED BY <1>2, <1>3, <2>1, <2>2 DEF Overlapping, Overlaps
<1>7. Meeting(Overlapping(w), t) = Meeting(Holding, t)
  <2>. HIDE DEF t, w
  <2>. QED BY <1>6 DEF Meeting, Overlapping
<1>. QED BY <1>1, <1>4, <1>5, <1>7

\* The peak of a stay is the crowd of one of its nights.
LEMMA PeakIsNight ==
    ASSUME TypeOK, ViewsInv, activity.bookingType = "DAILY",
           NEW i \in Nat, NEW j \in Nat, i < j
    PROVE  LET w == Stay(i, j)
               peak == maxConcurrentInWindow(Overlapping(w), w)
           IN  /\ w \in [from : Nat, to : Nat] /\ w.from < w.to
               /\ \A d \in i .. j - 1 : GuestsOf(Overlapping(Stay(d, d + 1))) <= peak
               /\ peak # 0 => \E d \in i .. j - 1 : peak = GuestsOf(Overlapping(Stay(d, d + 1)))
<1>. DEFINE w == Stay(i, j)
            S == Overlapping(w)
            peak == maxConcurrentInWindow(S, w)
<1>1. w \in [from : Nat, to : Nat]
  BY StayOfDays
<1>2. w.from < w.to
  <2>1. Overlaps(w, w)
    BY StaysOverlap
  <2>. QED BY <2>1 DEF Overlaps
<1>3. S \in SUBSET Bookings
  BY DEF Overlapping, Holding
<1>4. ASSUME NEW d \in i .. j - 1
      PROVE  GuestsOf(Overlapping(Stay(d, d + 1))) <= peak
  <2>1. /\ Stay(d, d + 1).from \in w.from .. w.to - 1
        /\ Meeting(S, Stay(d, d + 1).from) = Overlapping(Stay(d, d + 1))
    BY NightOfStay
  <2>2. GuestsOf(Meeting(S, Stay(d, d + 1).from)) <= peak
    <3>. HIDE DEF S, w
    <3>. QED BY <1>1, <1>3, <2>1, PeakBounds
  <2>. QED BY <2>1, <2>2
<1>5. ASSUME peak # 0
      PROVE  \E d \in i .. j - 1 : peak = GuestsOf(Overlapping(Stay(d, d + 1)))
  <2>1. peak \in Crowds(S, w)
    <3>. HIDE DEF S, w
    <3>1. peak \in {0} \cup Crowds(S, w)
      BY <1>1, <1>2, <1>3, SweepLooksAt
    <3>. QED BY <1>5, <3>1
  <2>2. PICK c \in { b \in S : Overlaps(win[b], w) } :
             peak = GuestsOf(RunningAt({ b \in S : Overlaps(win[b], w) }, w, Clip(c, w).from))
    BY <2>1 DEF Crowds
  <2>3. c \in Holding /\ Overlaps(win[c], w)
    BY <2>2 DEF Overlapping
  <2>4. PICK k \in Nat, l \in Nat : k < l /\ win[c] = Stay(k, l)
    BY <2>3, HoldsStay
  <2>5. k < j /\ i < l
    BY <2>3, <2>4, StaysOverlap
  <2>. DEFINE d == IF k <= i THEN i ELSE k
  <2>6. d \in i .. j - 1 /\ d \in Nat
    BY <2>4, <2>5
  <2>7. Clip(c, w).from = Stay(d, d + 1).from
    <3>1. Clip(c, w).from = Max({Stay(k, l).from, w.from})
      BY <2>4 DEF Clip, Window
    <3>2. Stay(k, l).from \in Nat /\ w.from \in Nat
      BY StayOfDays
    <3>3. Max({Stay(k, l).from, w.from}) = IF Stay(k, l).from >= w.from THEN Stay(k, l).from ELSE w.from
      <4>. DEFINE x == Stay(k, l).from
                  y == w.from
      <4>1. x \in Nat /\ y \in Nat
        BY <3>2
      <4>. HIDE DEF x, y
      <4>2. Max({x, y}) = IF x >= y THEN x ELSE y
        BY <4>1, LaterOfTwo
      <4>. QED BY <4>2 DEF x, y
    <3>4. \A e \in Nat : Stay(e, e + 1).from = DayStart(e) + CheckIn["DAILY"]
      BY DEF Stay, Window
    <3>5. Stay(k, l).from = DayStart(k) + CheckIn["DAILY"] /\ w.from = DayStart(i) + CheckIn["DAILY"]
      BY DEF Stay, Window
    <3>6. CASE k <= i
      <4>1. Stay(k, l).from <= w.from
        <5>1. k = i \/ k * DayTicks + DayTicks <= i * DayTicks
          BY <3>6, LaterDay, AvailabilityConstants
        <5>2. k * DayTicks \in Nat /\ i * DayTicks \in Nat /\ DayTicks \in Nat /\ CheckIn["DAILY"] \in Nat
          BY AvailabilityConstants, StayOfDays DEF Types
        <5>3. DayStart(k) <= DayStart(i) /\ DayStart(k) \in Nat /\ DayStart(i) \in Nat
          BY <5>1, <5>2 DEF DayStart
        <5>. QED BY <3>5, <5>2, <5>3
      <4>2. d = i
        BY <3>6
      <4>. HIDE DEF w, d
      <4>3. Stay(k, l).from >= w.from => Stay(k, l).from = w.from
        BY <3>2, <4>1
      <4>. QED BY <3>1, <3>3, <3>4, <3>5, <4>2, <4>3
    <3>7. CASE ~(k <= i)
      <4>1. w.from <= Stay(k, l).from
        <5>1. i * DayTicks + DayTicks <= k * DayTicks
          BY <3>7, LaterDay, AvailabilityConstants
        <5>2. k * DayTicks \in Nat /\ i * DayTicks \in Nat /\ DayTicks \in Nat /\ CheckIn["DAILY"] \in Nat
          BY AvailabilityConstants, StayOfDays DEF Types
        <5>3. DayStart(i) <= DayStart(k) /\ DayStart(k) \in Nat /\ DayStart(i) \in Nat
          BY <5>1, <5>2 DEF DayStart
        <5>. QED BY <3>5, <5>2, <5>3
      <4>2. d = k
        BY <3>7
      <4>. HIDE DEF w, d
      <4>3. Stay(k, l).from >= w.from
        BY <3>2, <4>1
      <4>. QED BY <3>1, <3>3, <3>4, <3>5, <4>2, <4>3
    <3>. QED BY <3>6, <3>7
  <2>. HIDE DEF d
  <2>8. /\ Stay(d, d + 1).from \in w.from .. w.to - 1
        /\ Meeting(S, Stay(d, d + 1).from) = Overlapping(Stay(d, d + 1))
    BY <2>6, NightOfStay
  <2>9. RunningAt({ b \in S : Overlaps(win[b], w) }, w, Stay(d, d + 1).from) = Meeting(S, Stay(d, d + 1).from)
    <3>. HIDE DEF S, w
    <3>. QED BY <1>1, <1>3, <2>8, ClippedMeet
  <2>10. peak = GuestsOf(Overlapping(Stay(d, d + 1)))
    BY <2>2, <2>7, <2>8, <2>9
  <2>. QED BY <2>6, <2>10
<1>. QED BY <1>1, <1>2, <1>4, <1>5

\* The calendar offers exactly the stays createBooking would take.
LEMMA StaysOffered ==
    ASSUME TypeOK, ViewsInv, activity.bookingType = "DAILY", ~activity.hasUnits,
           NEW w \in DailyWindows
    PROVE  StayOffered(DayOf(w.from), DayOf(w.to)) <=> ServerAccepts(w, 1)
<1>. DEFINE a == activity
            crowd(d) == GuestsOf(Overlapping(Stay(d, d + 1)))
            peak == maxConcurrentInWindow(Overlapping(w), w)
<1>1. PICK i \in Nat, j \in Nat : i < j /\ w = Stay(i, j)
  BY DailyIsStay
<1>2. DayOf(w.from) = i /\ DayOf(w.to) = j
  BY <1>1, StayOfDays
<1>3. a \in Rows /\ a.capacity \in Nat
  BY RowFields DEF TypeOK
<1>4. ASSUME NEW d \in i .. j - 1
      PROVE  /\ ~DayBlocked(d) /\ ~IsFullyBooked(d) <=> ~DayBlocked(d) /\ 1 <= a.capacity - crowd(d)
             /\ crowd(d) \in Nat
  <2>. DEFINE v == Stay(d, d + 1)
  <2>1. d \in Nat
    OBVIOUS
  <2>2. IsFullyBooked(d) <=> Blocked("DAILY", v) \/ ~CapacityAccepts(a, v, 1)
    BY <2>1, NightsAgree
  <2>3. Blocked("DAILY", v) <=> DayBlocked(d)
    BY <2>1, NightBlocked
  <2>4. CapacityAccepts(a, v, 1) <=> 1 <= a.capacity - maxConcurrentInWindow(Overlapping(v), v)
    <3>. HIDE DEF v
    <3>. QED BY <1>3, AcceptsSeats
  <2>5. Overlapping(v) \in SUBSET Bookings /\ maxConcurrentInWindow(Overlapping(v), v) = GuestsOf(Overlapping(v))
    BY <2>1, NightCrowd
  <2>6. GuestsOf(Overlapping(v)) \in Nat
    <3>. HIDE DEF v
    <3>. QED BY <2>5, GuestsAddUp
  <2>. QED BY <2>2, <2>3, <2>4, <2>5, <2>6
<1>5. /\ w \in [from : Nat, to : Nat] /\ w.from < w.to
      /\ \A d \in i .. j - 1 : crowd(d) <= peak
      /\ peak # 0 => \E d \in i .. j - 1 : peak = crowd(d)
  BY <1>1, PeakIsNight
<1>6. peak \in Nat
  <2>1. Overlapping(w) \in SUBSET Bookings
    BY DEF Overlapping, Holding
  <2>. QED BY <1>5, <2>1, PeakGrows
<1>7. CapacityAccepts(a, w, 1) <=> 1 <= a.capacity - peak
  BY <1>3, AcceptsSeats
<1>8. CapacityAccepts(a, w, 1) <=> \A d \in i .. j - 1 : 1 <= a.capacity - crowd(d)
  <2>1. i \in i .. j - 1
    BY <1>1
  <2>2. crowd(i) \in Nat
    BY <1>4, <2>1
  <2>. HIDE DEF crowd, peak, a
  <2>3. ASSUME CapacityAccepts(a, w, 1), NEW d \in i .. j - 1
        PROVE  1 <= a.capacity - crowd(d)
    <3>1. crowd(d) \in Nat /\ crowd(d) <= peak /\ 1 <= a.capacity - peak
      BY <1>4, <1>5, <1>7, <2>3
    <3>. QED BY <1>3, <1>6, <3>1
  <2>4. ASSUME \A d \in i .. j - 1 : 1 <= a.capacity - crowd(d)
        PROVE  CapacityAccepts(a, w, 1)
    <3>1. CASE peak # 0
      BY <1>5, <1>7, <2>4, <3>1
    <3>2. CASE peak = 0
      <4>1. 1 <= a.capacity - crowd(i)
        BY <2>1, <2>4
      <4>2. 1 <= a.capacity - peak
        BY <1>3, <2>2, <3>2, <4>1
      <4>. QED BY <1>7, <4>2
    <3>. QED BY <3>1, <3>2
  <2>. QED BY <2>3, <2>4
<1>9. Blocked("DAILY", w) <=> \E d \in i .. j - 1 : DayBlocked(d)
  BY <1>1, StayBlocked
<1>10. NotPast("DAILY", w) <=> DayOf(now) <= i
  <2>1. now \in Nat
    <3>1. activity.bookingType \in Types
      BY RowFields DEF TypeOK
    <3>. QED BY <3>1, AvailabilityConstants DEF TypeOK
  <2>2. DayOf(now) \in Nat
    BY <2>1, DayHolds, AvailabilityConstants DEF DayOf
  <2>. QED BY <1>1, <1>2, <2>2 DEF NotPast
<1>11. ServerAccepts(w, 1) <=> NotPast("DAILY", w) /\ ~Blocked("DAILY", w) /\ CapacityAccepts(a, w, 1)
  BY DEF ServerAccepts
<1>12. StayOffered(i, j) <=>
         DayOf(now) <= i /\ \A d \in i .. j - 1 : ~DayBlocked(d) /\ ~IsFullyBooked(d)
  BY DEF StayOffered
<1>. HIDE DEF crowd, a
<1>. QED BY <1>2, <1>4, <1>8, <1>9, <1>10, <1>11, <1>12

\* A request for hours lies inside the opening hours of a day.
LEMMA HoursOfDay ==
    ASSUME NEW w \in HourlyWindows
    PROVE  \E e \in 0 .. Days["HOURLY"] - 1 :
             /\ e \in Nat /\ DayStart(e) \in Nat /\ w \in [from : Nat, to : Nat]
             /\ DayStart(e) + CheckIn["HOURLY"] <= w.from
             /\ w.to <= DayStart(e) + CheckOut["HOURLY"]
             /\ w.from + Duration["HOURLY"] <= w.to
             /\ DayStart(e) <= w.from /\ w.to <= DayStart(e) + DayTicks
             /\ DayOf(w.from) = e
<1>1. /\ Days["HOURLY"] \in Nat /\ DayTicks \in Nat \ {0} /\ Duration["HOURLY"] \in Nat \ {0}
      /\ CheckIn["HOURLY"] \in 0 .. DayTicks - 1 /\ CheckOut["HOURLY"] \in 0 .. DayTicks - 1
  BY AvailabilityConstants DEF Types
<1>2. PICK x \in (0 .. Days["HOURLY"] - 1) \X (0 .. DayTicks - 1) \X (0 .. DayTicks - 1) :
        /\ CheckIn["HOURLY"] <= x[2] /\ x[3] <= CheckOut["HOURLY"]
        /\ x[3] - x[2] >= Duration["HOURLY"]
        /\ w = Window(DayStart(x[1]) + x[2], DayStart(x[1]) + x[3])
  BY DEF HourlyWindows
<1>. DEFINE e == x[1]
            r == x[2]
            q == x[3]
<1>3. e \in 0 .. Days["HOURLY"] - 1 /\ e \in Nat /\ r \in 0 .. DayTicks - 1 /\ q \in 0 .. DayTicks - 1
  BY <1>1
<1>4. /\ CheckIn["HOURLY"] <= r /\ q <= CheckOut["HOURLY"] /\ q - r >= Duration["HOURLY"]
      /\ w.from = DayStart(e) + r /\ w.to = DayStart(e) + q
      /\ w = Window(DayStart(e) + r, DayStart(e) + q)
  BY <1>2 DEF Window
<1>. HIDE DEF e, r, q
<1>5. DayStart(e) \in Nat
  BY <1>1, <1>3, DayStartOf DEF DayStart
<1>6. w \in [from : Nat, to : Nat]
  BY <1>1, <1>3, <1>4, <1>5 DEF Window
<1>7. DayOf(w.from) = e
  <2>1. (e * DayTicks + r) \div DayTicks = e
    BY <1>1, <1>3, DayOfTick
  <2>2. w.from = e * DayTicks + r
    BY <1>4 DEF DayStart
  <2>. QED BY <2>1, <2>2 DEF DayOf
<1>8. /\ DayStart(e) + CheckIn["HOURLY"] <= w.from
      /\ w.to <= DayStart(e) + CheckOut["HOURLY"]
      /\ w.from + Duration["HOURLY"] <= w.to
      /\ DayStart(e) <= w.from /\ w.to <= DayStart(e) + DayTicks
  BY <1>1, <1>3, <1>4, <1>5
<1>. QED BY <1>3, <1>5, <1>6, <1>7, <1>8

\* Any instant of a request lies in a slot that starts inside the request.
LEMMA SlotAt ==
    ASSUME NEW w \in HourlyWindows, NEW t \in w.from .. w.to - 1
    PROVE  \E s \in SlotsIn(w) : s.from <= t /\ t < s.to
<1>1. PICK e \in 0 .. Days["HOURLY"] - 1 :
             /\ e \in Nat /\ DayStart(e) \in Nat /\ w \in [from : Nat, to : Nat]
             /\ DayStart(e) + CheckIn["HOURLY"] <= w.from
             /\ w.to <= DayStart(e) + CheckOut["HOURLY"]
             /\ w.from + Duration["HOURLY"] <= w.to
             /\ DayOf(w.from) = e
  BY HoursOfDay
<1>2. /\ DayTicks \in Nat \ {0} /\ Duration["HOURLY"] \in Nat \ {0}
      /\ CheckIn["HOURLY"] \in 0 .. DayTicks - 1 /\ CheckOut["HOURLY"] \in 0 .. DayTicks - 1
  BY AvailabilityConstants DEF Types
<1>. DEFINE open == CheckIn["HOURLY"]
            close == CheckOut["HOURLY"]
            long == Duration["HOURLY"]
            base == DayStart(e)
            last == close - long
            u == IF t - base <= last THEN t - base ELSE last
            s == Window(base + u, base + u + long)
<1>. HIDE DEF base
<1>3. t \in Nat /\ w.from <= t /\ t < w.to /\ w.from \in Nat /\ w.to \in Nat /\ base \in Nat
  BY <1>1 DEF base
<1>4. base + open <= w.from /\ w.to <= base + close /\ w.from + long <= w.to
  BY <1>1 DEF base
<1>. HIDE DEF open, close, long
<1>5. /\ open \in 0 .. DayTicks - 1 /\ close \in 0 .. DayTicks - 1 /\ long \in Nat \ {0}
      /\ DayTicks \in Nat
  BY <1>2 DEF open, close, long
<1>6. u \in 0 .. DayTicks - 1 /\ open <= u /\ u + long <= close
  BY <1>3, <1>4, <1>5
<1>7. w.from <= base + u /\ base + u < w.to /\ base + u <= t /\ t < base + u + long
  BY <1>3, <1>4, <1>5
<1>. HIDE DEF u
<1>8. s \in computeSlots[e]
  BY <1>1, <1>6 DEF computeSlots, base, open, close, long
<1>9. s.from = base + u /\ s.to = base + u + long
  BY DEF Window
<1>10. s \in SlotsIn(w)
  BY <1>1, <1>7, <1>8, <1>9 DEF SlotsIn
<1>. QED BY <1>7, <1>9, <1>10

\* Unlocked slots leave no room for a block inside a range on offer.
LEMMA RangeIsFree ==
    ASSUME TypeOK, ViewsInv, activity.bookingType = "HOURLY",
           NEW w \in HourlyWindows, NEW g, RangeOffered(w, g)
    PROVE  ~Blocked("HOURLY", w)
<1>. DEFINE base == Window(w.from, w.from + Duration["HOURLY"])
<1>1. PICK e \in 0 .. Days["HOURLY"] - 1 :
             /\ e \in Nat /\ DayStart(e) \in Nat /\ w \in [from : Nat, to : Nat]
             /\ w.from + Duration["HOURLY"] <= w.to
             /\ DayStart(e) <= w.from /\ w.to <= DayStart(e) + DayTicks
             /\ DayOf(w.from) = e
  BY HoursOfDay
<1>2. DayTicks \in Nat \ {0} /\ Duration["HOURLY"] \in Nat \ {0}
  BY AvailabilityConstants DEF Types
<1>3. base \in computeSlots[e] /\ \A s \in SlotsIn(base) : ~SlotLocked(s)
  BY <1>1 DEF RangeOffered, IsValidStart
<1>4. base.from = w.from /\ base.to = w.from + Duration["HOURLY"] /\ w.from < base.to
  BY <1>1, <1>2 DEF Window
<1>5. ~SlotLocked(base)
  <2>1. base \in SlotsIn(base)
    <3>. HIDE DEF base
    <3>. QED BY <1>1, <1>3, <1>4 DEF SlotsIn
  <2>. QED BY <1>3, <2>1
<1>6. \A s \in SlotsIn(w) : ~SlotLocked(s)
  <2>1. CASE w.to - w.from > Duration["HOURLY"]
    BY <2>1 DEF RangeOffered, IsValidEnd
  <2>2. CASE ~(w.to - w.from > Duration["HOURLY"])
    <3>1. w.to = w.from + Duration["HOURLY"]
      BY <1>1, <1>2, <2>2
    <3>2. \A s \in SlotsIn(w) : s \in SlotsIn(base)
      <4>. HIDE DEF base
      <4>. QED BY <1>4, <3>1 DEF SlotsIn
    <3>. QED BY <1>3, <3>2
  <2>. QED BY <2>1, <2>2
<1>7. SUFFICES ASSUME NEW v \in blocks, Overlaps(v, w) PROVE FALSE
  BY DEF Blocked, BlockWindow
<1>8. v \in [from : Nat, to : Nat] /\ v.from < w.to /\ v.to > w.from
  BY <1>7 DEF TypeOK, Overlaps
<1>9. v.from > w.from
  <2>1. v.from <= base.from /\ base.from < v.to => SlotLocked(base)
    BY DEF SlotLocked
  <2>. HIDE DEF base
  <2>. QED BY <1>1, <1>4, <1>5, <1>8, <2>1
<1>10. CASE \E i, j \in Nat : i < j /\ v = Window(DayStart(i), DayStart(j))
  <2>1. PICK i \in Nat, j \in Nat : i < j /\ v = Window(DayStart(i), DayStart(j))
    BY <1>10
  <2>2. v.from = i * DayTicks
    BY <2>1 DEF Window, DayStart
  <2>3. i * DayTicks < e * DayTicks + DayTicks /\ e * DayTicks < i * DayTicks
    BY <1>1, <1>2, <1>8, <1>9, <2>2 DEF DayStart
  <2>4. i = e \/ i * DayTicks + DayTicks <= e * DayTicks \/ e * DayTicks + DayTicks <= i * DayTicks
    BY <1>1, <1>2, LaterDay
  <2>5. i * DayTicks \in Nat /\ e * DayTicks \in Nat /\ DayTicks \in Nat
    BY <1>1, <1>2
  <2>. QED BY <2>3, <2>4, <2>5
<1>11. CASE \E d \in 0 .. Days["HOURLY"] - 1 : \E s \in computeSlots[d] :
              v = Window(s.from, s.from + HourTicks)
  <2>1. PICK d \in 0 .. Days["HOURLY"] - 1 : \E s \in computeSlots[d] :
             v = Window(s.from, s.from + HourTicks)
    BY <1>11
  <2>0. PICK s \in computeSlots[d] : v = Window(s.from, s.from + HourTicks)
    BY <2>1
  <2>2. /\ d \in Nat /\ s \in [from : Nat, to : Nat] /\ DayStart(d) \in Nat
        /\ DayStart(d) <= s.from /\ s.to <= DayStart(d) + DayTicks /\ s.from < s.to
    BY SlotOfDay
  <2>3. v.from = s.from /\ v.to = s.from + HourTicks
    BY <2>0 DEF Window
  <2>4. HourTicks \in Nat \ {0}
    BY AvailabilityConstants
  <2>5. d = e
    <3>1. d = e \/ d * DayTicks + DayTicks <= e * DayTicks \/ e * DayTicks + DayTicks <= d * DayTicks
      BY <1>1, <1>2, <2>2, LaterDay
    <3>2. DayStart(d) < DayStart(e) + DayTicks /\ DayStart(e) < DayStart(d) + DayTicks
      BY <1>1, <1>2, <1>8, <1>9, <2>2, <2>3
    <3>. QED BY <1>1, <1>2, <2>2, <3>1, <3>2 DEF DayStart
  <2>6. s \in SlotsIn(w)
    BY <1>1, <1>8, <1>9, <2>2, <2>3, <2>5 DEF SlotsIn
  <2>7. SlotLocked(s)
    BY <2>2, <2>3, <2>4 DEF SlotLocked
  <2>. QED BY <1>6, <2>6, <2>7
<1>12. v \in BlockWindows /\ activity \in Rows
  BY DEF ViewsInv, TypeOK
<1>. QED BY <1>10, <1>11, <1>12, BlockShape

\* Seats in the slots of a range are seats for the whole of it.
LEMMA RangeHasSeats ==
    ASSUME TypeOK, ~activity.hasUnits, NEW w \in HourlyWindows,
           NEW g \in 1 .. PooledCapacity, RangeOffered(w, g)
    PROVE  CapacityAccepts(activity, w, g)
<1>. DEFINE a == activity
            seats == a.capacity
            peak(v) == maxConcurrentInWindow(Overlapping(v), v)
            base == Window(w.from, w.from + Duration["HOURLY"])
<1>1. a \in Rows /\ seats \in Nat /\ g \in Nat /\ 1 <= g /\ g <= seats
  <2>1. a \in Rows /\ seats \in Nat
    BY RowFields DEF TypeOK
  <2>2. PooledCapacity = seats
    BY DEF PooledCapacity
  <2>. QED BY <2>1, <2>2
<1>2. PICK e \in 0 .. Days["HOURLY"] - 1 :
             /\ e \in Nat /\ w \in [from : Nat, to : Nat]
             /\ w.from + Duration["HOURLY"] <= w.to
             /\ DayOf(w.from) = e
  BY HoursOfDay
<1>3. Duration["HOURLY"] \in Nat \ {0}
  BY AvailabilityConstants DEF Types
<1>4. w.from < w.to
  BY <1>2, <1>3
<1>5. \A v : Overlapping(v) \in SUBSET Bookings
  BY DEF Overlapping, Holding
<1>6. ASSUME NEW v \in [from : Nat, to : Nat], v.from < v.to, SlotAvailable(v) >= g
      PROVE  peak(v) \in Nat /\ peak(v) + g <= seats
  <2>1. peak(v) \in Nat
    BY <1>5, <1>6, PeakGrows
  <2>2. SlotAvailable(v) = Max({0, seats - peak(v)})
    BY DEF SlotAvailable, rentsWholeUnit
  <2>. HIDE DEF peak, seats
  <2>3. Max({0, seats - peak(v)}) = IF seats - peak(v) > 0 THEN seats - peak(v) ELSE 0
    BY <1>1, <2>1, MoreThanNone
  <2>. QED BY <1>1, <1>6, <2>1, <2>2, <2>3
<1>7. peak(w) \in Nat
  BY <1>2, <1>4, <1>5, PeakGrows
<1>8. peak(w) + g <= seats
  <2>1. CASE w.to - w.from > Duration["HOURLY"]
    <3>1. \A s \in SlotsIn(w) : SlotAvailable(s) >= g
      BY <2>1 DEF RangeOffered, IsValidEnd
    <3>2. CASE peak(w) = 0
      <4>. HIDE DEF peak, seats
      <4>. QED BY <1>1, <3>2
    <3>3. CASE peak(w) # 0
      <4>. DEFINE S == Overlapping(w)
      <4>1. PICK t \in w.from .. w.to - 1 : peak(w) = GuestsOf(Meeting(S, t))
        <5>. HIDE DEF S
        <5>1. maxConcurrentInWindow(S, w) \in Crowds(S, w)
          <6>1. S \in SUBSET Bookings
            BY <1>5 DEF S
          <6>. QED BY <1>2, <1>4, <3>3, <6>1, SweepLooksAt DEF S
        <5>2. S \in SUBSET Bookings
          BY <1>5 DEF S
        <5>3. \E t \in w.from .. w.to - 1 : maxConcurrentInWindow(S, w) = GuestsOf(Meeting(S, t))
          BY <1>2, <1>4, <5>1, <5>2, SweepLooksAt
        <5>. QED BY <5>3 DEF S
      <4>2. PICK s \in SlotsIn(w) : s.from <= t /\ t < s.to
        BY SlotAt
      <4>3. s \in [from : Nat, to : Nat] /\ s.from < s.to
        BY <1>2, SlotOfDay DEF SlotsIn
      <4>4. peak(s) \in Nat /\ peak(s) + g <= seats
        BY <1>6, <3>1, <4>3
      <4>5. t \in s.from .. s.to - 1 /\ t \in Nat /\ w.from <= t /\ t < w.to
        BY <1>2, <4>2, <4>3
      <4>6. Meeting(S, t) = Meeting(Overlapping(s), t)
        <5>1. \A b \in Holding : win[b] \in [from : Nat, to : Nat]
          BY DEF Holding, TypeOK
        <5>2. \A b \in Holding : win[b].from <= t /\ t < win[b].to =>
                Overlaps(win[b], w) /\ Overlaps(win[b], s)
          BY <1>2, <4>3, <4>2, <4>5, <5>1 DEF Overlaps
        <5>. QED BY <5>2 DEF Meeting, Overlapping
      <4>7. GuestsOf(Meeting(Overlapping(s), t)) <= peak(s)
        BY <1>5, <4>3, <4>5, PeakBounds
      <4>8. peak(w) <= peak(s)
        BY <4>1, <4>6, <4>7
      <4>. HIDE DEF peak, seats
      <4>. QED BY <1>1, <1>7, <4>4, <4>8
    <3>. QED BY <3>2, <3>3
  <2>2. CASE ~(w.to - w.from > Duration["HOURLY"])
    <3>1. w.to = w.from + Duration["HOURLY"]
      BY <1>2, <1>3, <2>2
    <3>2. base.from = w.from /\ base.to = w.to
      BY <3>1 DEF Window
    <3>3. Overlapping(base) = Overlapping(w) /\ base \in [from : Nat, to : Nat] /\ base.from < base.to
      BY <1>2, <1>3, <1>4, <3>1, <3>2 DEF Overlapping, Overlaps, Window
    <3>4. base = w
      <4>1. w = [from |-> w.from, to |-> w.to]
        BY <1>2
      <4>. QED BY <3>1, <4>1 DEF Window
    <3>5. SlotAvailable(base) >= g
      BY DEF RangeOffered, IsValidStart
    <3>. HIDE DEF peak, base
    <3>. QED BY <1>2, <1>4, <1>6, <3>4, <3>5
  <2>. QED BY <2>1, <2>2
<1>9. CapacityAccepts(a, w, g) <=> g <= seats - peak(w)
  BY <1>1, AcceptsSeats
<1>. HIDE DEF peak, seats, a
<1>10. CapacityAccepts(a, w, g)
  BY <1>1, <1>7, <1>8, <1>9
<1>. QED BY <1>10 DEF a

LEMMA PicksAgree == TypeOK /\ ViewsInv => PickersAgree
<1>. SUFFICES ASSUME TypeOK, ViewsInv, ~activity.hasUnits
              PROVE  IF activity.bookingType = "HOURLY"
                     THEN \A w \in HourlyWindows, g \in 1 .. PooledCapacity :
                            RangeOffered(w, g) => ServerAccepts(w, g)
                     ELSE \A w \in DailyWindows :
                            StayOffered(DayOf(w.from), DayOf(w.to)) <=> ServerAccepts(w, 1)
  BY DEF PickersAgree
<1>1. CASE activity.bookingType = "HOURLY"
  <2>. SUFFICES ASSUME NEW w \in HourlyWindows, NEW g \in 1 .. PooledCapacity, RangeOffered(w, g)
                PROVE  ServerAccepts(w, g)
    BY <1>1
  <2>1. NotPast("HOURLY", w)
    BY DEF NotPast, RangeOffered, IsValidStart
  <2>. QED BY <1>1, <2>1, RangeIsFree, RangeHasSeats DEF ServerAccepts
<1>2. CASE activity.bookingType # "HOURLY"
  <2>1. activity.bookingType = "DAILY"
    BY <1>2, RowFields DEF TypeOK, Types
  <2>. QED BY <1>2, <2>1, StaysOffered
<1>. QED BY <1>1, <1>2

\* What customers are shown agrees with what createBooking does: a slot shows
\* room exactly when one guest would get it; a stay with something left would be
\* booked, and one night or whole units show all there is; a full day has nothing
\* left, by the hour only while nothing is oversold or out of range; without
\* units the pickers offer what the server accepts.  The views never look at a
\* booking whose window or party is not a customer's.
THEOREM ViewsAreRight == Spec => []ViewsAgree
<1>1. Init => TypeOK /\ ViewsInv
  <2>1. Init => ViewsInv
    BY DEF Init, ViewsInv
  <2>. QED BY <2>1, UnitsAtFirst DEF UnitsInv
<1>2. TypeOK /\ ViewsInv /\ [Next]_vars => (TypeOK /\ ViewsInv)'
  BY TypeKept, ViewsInvKept
<1>3. TypeOK /\ ViewsInv => ViewsAgree
  BY SlotsAgree, StaysAgree, DaysAgree, PicksAgree DEF ViewsAgree
<1>. QED BY <1>1, <1>2, <1>3, PTL DEF Spec
=============================================================================
