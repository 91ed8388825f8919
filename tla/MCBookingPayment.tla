-------------------------- MODULE MCBookingPayment --------------------------
(* The status changes that staff may ask for, for the runs of TLC.         *)
EXTENDS BookingPayment, TLC

\* The buttons of the vendor's booking page, for the status the API reads.
PageMoves == {<<"PENDING", "CONFIRMED">>, <<"PENDING", "CANCELLED">>,
              <<"CONFIRMED", "COMPLETED">>, <<"CONFIRMED", "CANCELLED">>}

\* The same without confirming a booking that nobody has paid for.
PaidPageMoves == PageMoves \ {<<"PENDING", "CONFIRMED">>}

\* What the admin API accepts on a booking that is not cancelled.
AdminApiMoves == {<<"PENDING", "CONFIRMED">>, <<"PENDING", "CANCELLED">>,
                  <<"CONFIRMED", "COMPLETED">>, <<"CONFIRMED", "CANCELLED">>,
                  <<"COMPLETED", "CANCELLED">>}

\* The same without completing a booking whose slot has not passed.
AdminCancelMoves == {<<"PENDING", "CANCELLED">>, <<"CONFIRMED", "CANCELLED">>,
                     <<"COMPLETED", "CANCELLED">>}

NoMoves == {}

\* Two bookings in the race for one seat.  What is left out takes no seat of the
\* slot: refund decisions, payouts, loyalty awards, completion, and the cancels
\* of the customer and of the cascade, which give a seat back as the vendor's do.
SlotNext ==
    \/ \E b \in Bookings :
          \/ CreateBooking(b, "CARD") \/ InitiatePayment(b) \/ Gateway(b) \/ Recovery(b) \/ Time(b)
          \/ StaffRead(b, "CONFIRMED") \/ StaffCommit(b) \/ StaffAbort(b) \/ VendorCancel(b)
    \/ Cron
    \/ SlotTime

SlotSpec == Init /\ [][SlotNext]_vars

\* What a later step can tell apart: hold and age matter only while the booking
\* is PENDING, which no booking becomes again, and nothing reads cancelledBy.
Distinguished ==
    <<booking, payment, mode, basket, gatewayVars, pointVars, payoutVars, flightVars,
      recreated, phase, mishaps,
      [b \in Bookings |-> IF booking[b] = "PENDING" THEN <<hold[b], age[b]>> ELSE <<>>]>>

\* Bookings differ in nothing but their names.
AnyBooking == Permutations(Bookings)
=============================================================================
