---------------------------- MODULE MoneyPromise ----------------------------
(***************************************************************************)
(* What the customers are promised about their bookings: money that comes  *)
(* in either keeps the booking or ends in a refund that somebody decides,  *)
(* the refund is credited once, and the points put into a booking come     *)
(* back once, in the very step that takes the booking away, and are never  *)
(* spent a second time.  Nothing here says who cancels, which callback     *)
(* arrives or which transaction commits first; BookingPayment implements   *)
(* it.                                                                     *)
(***************************************************************************)
EXTENDS Naturals

CONSTANT Bookings

VARIABLES
    deal,     \* where each booking and its money stand
    cash,     \* does money pay for at least a part of it
    points,   \* the customer's points that pay for a part of it
    credits   \* refunds of its money credited so far

vars == <<deal, cash, points, credits>>

Deal == {"NONE",      \* not booked yet
         "OPEN",      \* booked, no money yet
         "SERVED",    \* booked and paid
         "CLOSED",    \* given up, no money came in
         "ORPHAN",    \* money came in for a booking given up before
         "OWED",      \* money to be refunded, to be decided
         "RETURNED",  \* refunded
         "KEPT",      \* refund rejected
         "VOID"}      \* spoilt by an accident of the requests

Init ==
    /\ deal = [b \in Bookings |-> "NONE"]
    /\ cash = [b \in Bookings |-> TRUE]
    /\ points = [b \in Bookings |-> "NONE"]
    /\ credits = [b \in Bookings |-> 0]

\* The points of a booking that is lost go back, if it had any.
GiveBack(b) == points'[b] = IF points[b] = "SPENT" THEN "BACK" ELSE points[b]

SamePoints(b) == points'[b] = points[b]

Credited(b, n) == credits'[b] = credits[b] + n

\* The customer books; what points pay in full is served at once.
Book(b) ==
    /\ deal[b] = "NONE"
    /\ points'[b] \in {"NONE", "SPENT"}
    /\ deal'[b] = IF cash'[b] THEN "OPEN" ELSE "SERVED"
    /\ Credited(b, 0)

\* Money comes in, for the booking or after it is gone.
Receive(b) ==
    /\ cash[b]
    /\ \/ deal[b] = "OPEN" /\ deal'[b] = "SERVED"
       \/ deal[b] = "CLOSED" /\ deal'[b] = "ORPHAN"
    /\ SamePoints(b) /\ Credited(b, 0)

\* An unpaid booking is given up, by anybody.
Close(b) ==
    /\ deal[b] = "OPEN" /\ deal'[b] = "CLOSED"
    /\ GiveBack(b) /\ Credited(b, 0)

\* A paid booking is cancelled: its money is owed, or credited at once.  One
\* that points paid in full has no money to owe.
Cancel(b) ==
    /\ deal[b] = "SERVED"
    /\ \/ cash[b] /\ deal'[b] = "OWED" /\ Credited(b, 0)
       \/ deal'[b] = "RETURNED" /\ Credited(b, IF cash[b] THEN 1 ELSE 0)
    /\ GiveBack(b)

\* The booking of an orphan is given again, if no points have left it.
Restore(b) ==
    /\ deal[b] = "ORPHAN" /\ deal'[b] = "SERVED"
    /\ points[b] = "NONE"
    /\ SamePoints(b) /\ Credited(b, 0)

\* Or its money is owed.
Owe(b) ==
    /\ deal[b] = "ORPHAN" /\ deal'[b] = "OWED"
    /\ SamePoints(b) /\ Credited(b, 0)

\* The refund is decided: approved in part or in full, approved for nothing, or
\* rejected.
Decide(b) ==
    /\ deal[b] = "OWED"
    /\ \/ deal'[b] = "RETURNED" /\ (Credited(b, 0) \/ Credited(b, 1))
       \/ deal'[b] = "KEPT" /\ Credited(b, 0)
    /\ SamePoints(b)

Same(b) == deal'[b] = deal[b] /\ SamePoints(b) /\ Credited(b, 0)

\* An accident: the money may be lost from now on or be refunded once more, but
\* even then points are not spent again and no credit is taken back.
Void(b) ==
    /\ deal[b] # "NONE" /\ deal'[b] = "VOID"
    /\ SamePoints(b) \/ GiveBack(b)
    /\ credits'[b] >= credits[b]

\* One transaction may settle several bookings.
Next ==
    \A b \in Bookings :
        \/ Book(b)
        \/ cash'[b] = cash[b] /\ (Receive(b) \/ Close(b) \/ Cancel(b) \/ Restore(b)
                                  \/ Owe(b) \/ Decide(b) \/ Same(b) \/ Void(b))

Spec == Init /\ [][Next]_vars

=============================================================================
