--------------------------- MODULE BookingPayment ---------------------------
(***************************************************************************)
(* The life of a booking and of its payment, in apps/api/src: the booking  *)
(* row, the payment row, the loyalty ledger rows that carry the booking's  *)
(* id and the money the PAY2M gateway really took.  All bookings of this   *)
(* model ask for the same slot of one activity, one guest each.            *)
(*                                                                         *)
(* A database transaction is one action.  What a handler reads before its  *)
(* transaction, or before the row it then writes by id, is kept in a       *)
(* variable of its own (cancelRead, staffRead, cascadeRead, captureRead,   *)
(* cronScan), so that other steps come between the read and the commit.    *)
(* The recovery that the payment callback runs after its commit is kept in *)
(* recovery, so that other steps, and a crash, come between the two.       *)
(*                                                                         *)
(* Some commits write over rows that have changed since the read.  The     *)
(* history variable mishaps remembers for each booking which of these      *)
(* accidents have happened to it; no step depends on it.                   *)
(***************************************************************************)
EXTENDS Naturals, FiniteSets

CONSTANTS
    Bookings,      \* booking ids; a new attempt of a customer is a new id
    Capacity,      \* guests the slot can serve (activity.capacity)
    Txns,          \* transaction ids the gateway gives to captures
    NoTxn,         \* gatewayTxnId IS NULL
    Modes,         \* ways of paying that createBooking is asked for
    VendorMoves,   \* <<from, to>> status changes requested by the vendor
    AdminMoves,    \* <<from, to>> status changes requested by an admin
    Crashes        \* may the process die between the callback's two commits

ASSUME ConstantsAssumption ==
    /\ Capacity \in Nat
    /\ NoTxn \notin Txns
    /\ Modes \subseteq {"CARD", "MIXED", "POINTS"}
    /\ Crashes \in BOOLEAN

VARIABLES
    booking,      \* Booking.status; NONE before createBooking, DELETED after a delete
    cancelledBy,  \* Booking.cancelledBy
    payment,      \* Payment.status of the booking's payment row
    mode,         \* how the price was split at creation: cash, points, both
    basket,       \* Payment.gatewayBasketId IS NOT NULL
    hold,         \* reservedUntil: original hold, NAPS extension, or past
    age,          \* how old the PENDING booking is, in the cron's cut-offs
    captured,     \* external: transactions the gateway took money for
    acked,        \* captures whose success callback the API has answered
    recordedTxn,  \* Payment.gatewayTxnId
    flagged,      \* captures with a PAYMENT_DUPLICATE_CAPTURE audit row
    ledger,       \* sources of the LoyaltyLedger rows with this bookingId
    awarded,      \* Booking.pointsAwarded
    payout,       \* Payment.payoutStatus
    clawback,     \* an admin was told to recover a payout of a refunded booking
    recreated,    \* Payment.bookingRecreatedAt IS NOT NULL
    recovery,     \* what the callback still has to do after its commit
    cancelRead,   \* branches that running cancelBooking calls chose from their reads
    cascadeRead,  \* payment status a running activity cascade has read
    staffRead,    \* status changes that running updateBookingStatus calls have allowed
    captureRead,  \* capture of a callback that has read a live booking, not committed
    cronScan,     \* rows the stale-booking cron has read and not yet claimed
    phase,        \* where the slot is in time
    mishaps       \* history: what went wrong for the booking so far

rowVars == <<booking, cancelledBy, payment, mode, basket, hold, age>>
gatewayVars == <<captured, acked, recordedTxn, flagged>>
pointVars == <<ledger, awarded>>
payoutVars == <<payout, clawback>>
updateVars == <<staffRead, captureRead>>
flightVars == <<recovery, cancelRead, cascadeRead, cronScan, updateVars>>
vars == <<rowVars, gatewayVars, pointVars, payoutVars, flightVars, recreated, phase, mishaps>>

-----------------------------------------------------------------------------
BookingStatus == {"NONE", "PENDING", "CONFIRMED", "COMPLETED", "CANCELLED", "DELETED"}
PaymentStatus == {"NONE", "PENDING", "SUCCESS", "FAILED", "REFUND_PENDING",
                  "REFUNDED", "REJECTED", "DELETED"}
Money == {"SUCCESS", "REFUND_PENDING", "REFUNDED", "REJECTED"}
Source == {"BOOKING_REDEEM", "BOOKING_EARN", "CANCEL_REFUND_UNPAID",
           "CANCEL_REFUND_PAID", "CANCEL_REVERSE_AWARDED",
           "VENDOR_REFUND_APPROVED", "ADMIN_REFUND_APPROVED"}
Live == {"PENDING", "CONFIRMED", "COMPLETED"}
Branch == {"POINTS", "PAID", "INFLIGHT", "DELETE"}
Change == {"CONFIRM", "COMPLETE", "COMPLETE_AND_EARN"}

\* What can go wrong: a hard delete takes rows that had been paid or cancelled;
\* an update by id brings a cancelled booking back; a cascade cancels a booking
\* without the capture that came in after its read; an admin completes a booking
\* before its slot; the process dies with a recovery to run.
Mishap == {"ERASED", "REVIVED", "OVERLOOKED", "EARLY", "CRASHED"}

TypeOK ==
    /\ booking \in [Bookings -> BookingStatus]
    /\ cancelledBy \in [Bookings -> {"NOBODY", "CUSTOMER", "VENDOR", "ADMIN"}]
    /\ payment \in [Bookings -> PaymentStatus]
    /\ mode \in [Bookings -> {"CARD", "MIXED", "POINTS"}]
    /\ basket \in [Bookings -> BOOLEAN]
    /\ hold \in [Bookings -> {"HELD", "NAPS", "LAPSED"}]
    /\ age \in [Bookings -> {"YOUNG", "GRACE_OVER", "FALLBACK"}]
    /\ captured \in [Bookings -> SUBSET Txns]
    /\ acked \in [Bookings -> SUBSET Txns]
    /\ recordedTxn \in [Bookings -> Txns \cup {NoTxn}]
    /\ flagged \in [Bookings -> SUBSET Txns]
    /\ ledger \in [Bookings -> SUBSET Source]
    /\ awarded \in [Bookings -> BOOLEAN]
    /\ payout \in [Bookings -> {"UNPAID", "PAID"}]
    /\ clawback \in [Bookings -> BOOLEAN]
    /\ recreated \in [Bookings -> BOOLEAN]
    /\ recovery \in [Bookings -> {"NONE", "B2_ORPHAN", "REFUND"}]
    /\ cancelRead \in [Bookings -> SUBSET Branch]
    /\ cascadeRead \in [Bookings -> PaymentStatus]
    /\ staffRead \in [Bookings -> SUBSET Change]
    /\ captureRead \in [Bookings -> Txns \cup {NoTxn}]
    /\ cronScan \in SUBSET Bookings
    /\ phase \in {"FUTURE", "STARTED", "ENDED"}
    /\ mishaps \in [Bookings -> SUBSET Mishap]

Init ==
    /\ booking = [b \in Bookings |-> "NONE"]
    /\ cancelledBy = [b \in Bookings |-> "NOBODY"]
    /\ payment = [b \in Bookings |-> "NONE"]
    /\ mode = [b \in Bookings |-> "CARD"]
    /\ basket = [b \in Bookings |-> FALSE]
    /\ hold = [b \in Bookings |-> "HELD"]
    /\ age = [b \in Bookings |-> "YOUNG"]
    /\ captured = [b \in Bookings |-> {}]
    /\ acked = [b \in Bookings |-> {}]
    /\ recordedTxn = [b \in Bookings |-> NoTxn]
    /\ flagged = [b \in Bookings |-> {}]
    /\ ledger = [b \in Bookings |-> {}]
    /\ awarded = [b \in Bookings |-> FALSE]
    /\ payout = [b \in Bookings |-> "UNPAID"]
    /\ clawback = [b \in Bookings |-> FALSE]
    /\ recreated = [b \in Bookings |-> FALSE]
    /\ recovery = [b \in Bookings |-> "NONE"]
    /\ cancelRead = [b \in Bookings |-> {}]
    /\ cascadeRead = [b \in Bookings |-> "NONE"]
    /\ staffRead = [b \in Bookings |-> {}]
    /\ captureRead = [b \in Bookings |-> NoTxn]
    /\ cronScan = {}
    /\ phase = "FUTURE"
    /\ mishaps = [b \in Bookings |-> {}]

-----------------------------------------------------------------------------
(* What the handlers read.                                                 *)

\* The booking row is in the table.
Exists(b) == booking[b] \notin {"NONE", "DELETED"}

\* pointsRedeemed > 0, frozen at creation.
Redeemed(b) == mode[b] # "CARD"

\* The payment row carries cash: amount > 0.
Cash(b) == mode[b] # "POINTS"

\* activeBookingFilter: cancelled rows and lapsed PENDING rows hold no seat.
Active(b) ==
    \/ booking[b] \in {"CONFIRMED", "COMPLETED"}
    \/ booking[b] = "PENDING" /\ hold[b] # "LAPSED"

\* Bug: one guest too many.
SlotFreeOffByOne(b) == Cardinality({c \in Bookings \ {b} : Active(c)}) <= Capacity

\* A seat is free for b among the other active bookings of the slot.
SlotFree(b) == Cardinality({c \in Bookings \ {b} : Active(c)}) < Capacity

\* The rows a transaction adds to the ledger; the unique index on
\* (bookingId, source) aborts the transaction that repeats one.
Writable(b, rows) == rows \cap ledger[b] = {}

\* The refund a cancel credits as points: the cash of a payment whose status is
\* SUCCESS, in one row.
RefundRow(b, status, source) ==
    IF status = "SUCCESS" /\ Cash(b) THEN {source} ELSE {}

\* Redeemed points go back under the given source.
PointsBack(b, source) == IF Redeemed(b) THEN {source} ELSE {}

-----------------------------------------------------------------------------
(* The customer.                                                           *)

\* createBooking.  Cash bookings start PENDING with a hold; a booking that
\* points pay in full is CONFIRMED at once on a zero-amount SUCCESS payment.
CreateBooking(b, m) ==
    /\ booking[b] = "NONE"
    /\ phase = "FUTURE"
    /\ SlotFree(b)
    /\ mode' = [mode EXCEPT ![b] = m]
    /\ booking' = [booking EXCEPT ![b] = IF m = "POINTS" THEN "CONFIRMED" ELSE "PENDING"]
    /\ payment' = [payment EXCEPT ![b] = IF m = "POINTS" THEN "SUCCESS" ELSE "PENDING"]
    /\ ledger' = [ledger EXCEPT ![b] = IF m = "CARD" THEN {} ELSE {"BOOKING_REDEEM"}]
    /\ UNCHANGED <<cancelledBy, basket, hold, age, gatewayVars, awarded, payoutVars,
                   flightVars, recreated, phase, mishaps>>

\* initiatePayment: sends a PENDING, still held booking to the gateway.
InitiatePayment(b) ==
    /\ booking[b] = "PENDING"
    /\ hold[b] # "LAPSED"
    /\ payment[b] = "PENDING"
    /\ ~basket[b]
    /\ basket' = [basket EXCEPT ![b] = TRUE]
    /\ UNCHANGED <<booking, cancelledBy, payment, mode, hold, age, gatewayVars,
                   pointVars, payoutVars, flightVars, recreated, phase, mishaps>>

\* Bug: a status without a branch of its own is passed on as it is.
CancelBranchRaw(b) ==
    IF payment[b] = "SUCCESS" THEN (IF Cash(b) THEN "PAID" ELSE "POINTS")
    ELSE IF payment[b] = "PENDING" /\ basket[b] THEN "INFLIGHT" ELSE payment[b]

\* The branch cancelBooking takes for the payment row it has read.
CancelBranch(b) ==
    IF payment[b] = "SUCCESS" THEN (IF Cash(b) THEN "PAID" ELSE "POINTS")
    ELSE IF payment[b] = "PENDING" /\ basket[b] THEN "INFLIGHT" ELSE "DELETE"

\* What cancelBooking refuses: cancelled, completed or started bookings.
Cancellable(b) == booking[b] \in {"PENDING", "CONFIRMED"} /\ phase = "FUTURE"

\* cancelBooking, the read.  A second click or tab may read as well.
CancelRead(b) ==
    /\ Cancellable(b)
    /\ cancelRead' = [cancelRead EXCEPT ![b] = @ \cup {CancelBranch(b)}]
    /\ UNCHANGED <<rowVars, gatewayVars, pointVars, payoutVars, recovery,
                   cascadeRead, cronScan, updateVars, recreated, phase, mishaps>>

\* A call in the given branch ends; another one may still be there.
CancelEnds(b, branch) ==
    /\ branch \in cancelRead[b]
    /\ \/ cancelRead' = [cancelRead EXCEPT ![b] = @ \ {branch}]
       \/ UNCHANGED cancelRead

\* Bug: the payment row is written whatever it has become.
SoftCancelUnguarded(b, from, pay, source) ==
    /\ Writable(b, PointsBack(b, source))
    /\ payment' = [payment EXCEPT ![b] = pay]
    /\ booking' = [booking EXCEPT ![b] = "CANCELLED"]
    /\ cancelledBy' = [cancelledBy EXCEPT ![b] = "CUSTOMER"]
    /\ ledger' = [ledger EXCEPT ![b] = @ \cup PointsBack(b, source)]
    /\ UNCHANGED mishaps

\* cancelBooking, a transaction that turns the payment, counted in the status
\* from, to pay and the booking to CANCELLED, and gives the redeemed points
\* back under source.
SoftCancel(b, from, pay, source) ==
    /\ payment[b] = from
    /\ Writable(b, PointsBack(b, source))
    /\ payment' = [payment EXCEPT ![b] = pay]
    /\ booking' = [booking EXCEPT ![b] = "CANCELLED"]
    /\ cancelledBy' = [cancelledBy EXCEPT ![b] = "CUSTOMER"]
    /\ ledger' = [ledger EXCEPT ![b] = @ \cup PointsBack(b, source)]
    /\ UNCHANGED mishaps

\* The branch of a booking nobody had paid for at the read: booking and payment
\* are deleted by id, whatever they have become since.  The transaction fails if
\* a row is gone, if the ledger has the returned points already, or against a
\* callback that holds the payment row.
HardDelete(b) ==
    /\ payment[b] # "DELETED"
    /\ captureRead[b] = NoTxn
    /\ Writable(b, PointsBack(b, "CANCEL_REFUND_UNPAID"))
    /\ payment' = [payment EXCEPT ![b] = "DELETED"]
    /\ booking' = [booking EXCEPT ![b] = "DELETED"]
    /\ ledger' = [ledger EXCEPT ![b] = @ \cup PointsBack(b, "CANCEL_REFUND_UNPAID")]
    /\ mishaps' = [mishaps EXCEPT ![b] =
                      IF payment[b] \in Money \/ booking[b] = "CANCELLED"
                      THEN @ \cup {"ERASED"} ELSE @]
    /\ UNCHANGED cancelledBy

\* The commit of each branch, guarded as the code guards it: three branches
\* count the payment rows they still find in the state they read.
CancelCommit(b) ==
    /\ Exists(b)
    /\ \/ /\ CancelEnds(b, "POINTS")
          /\ SoftCancel(b, "SUCCESS", "REFUNDED", "CANCEL_REFUND_PAID")
       \/ /\ CancelEnds(b, "PAID")
          /\ SoftCancel(b, "SUCCESS", "REFUND_PENDING", "CANCEL_REFUND_PAID")
       \/ /\ CancelEnds(b, "INFLIGHT")
          /\ SoftCancel(b, "PENDING", "FAILED", "CANCEL_REFUND_UNPAID")
       \/ CancelEnds(b, "DELETE") /\ HardDelete(b)
    /\ UNCHANGED <<mode, basket, hold, age, gatewayVars, awarded, payoutVars, recovery,
                   cascadeRead, cronScan, updateVars, recreated, phase>>

\* The transactions that are left throw (a guard matched no row, a row is
\* gone, the ledger row exists, the database gave up) and roll back.
CancelAbort(b) ==
    /\ cancelRead[b] # {}
    /\ cancelRead' = [cancelRead EXCEPT ![b] = {}]
    /\ UNCHANGED <<rowVars, gatewayVars, pointVars, payoutVars, recovery,
                   cascadeRead, cronScan, updateVars, recreated, phase, mishaps>>

-----------------------------------------------------------------------------
(* The gateway, and the callbacks and IPNs it sends.                       *)

\* External: the customer completes a hosted checkout of the basket.  Every
\* initiate mints a fresh checkout token, so a basket can be charged twice,
\* and long after the booking has changed.
Capture(b, t) ==
    /\ basket[b]
    /\ t \notin captured[b]
    /\ captured' = [captured EXCEPT ![b] = @ \cup {t}]
    /\ UNCHANGED <<rowVars, acked, recordedTxn, flagged, pointVars, payoutVars,
                   flightVars, recreated, phase, mishaps>>

\* Bug: a late capture brings a cancelled booking back.
BookingAfterCaptureRevived(b) == IF booking[b] = "DELETED" THEN "DELETED" ELSE "CONFIRMED"

\* The booking row after a capture: confirmed unless cancelled or deleted.
BookingAfterCapture(b) ==
    IF booking[b] \in {"CANCELLED", "DELETED"} THEN booking[b] ELSE "CONFIRMED"

\* Bugs: the callback forgets one of the two orphans.
RecoveryOfDeletedOnly(b) == IF booking[b] = "DELETED" THEN "B2_ORPHAN" ELSE "NONE"
RecoveryOfCancelledOnly(b) == IF booking[b] = "CANCELLED" THEN "REFUND" ELSE "NONE"

\* What is left to do for a capture whose booking is cancelled or deleted.
RecoveryAfterCapture(b) ==
    CASE booking[b] = "CANCELLED" -> "REFUND"
      [] booking[b] = "DELETED" -> "B2_ORPHAN"
      [] OTHER -> "NONE"

\* handleCallback with an authentic success, first delivery or replay, for a
\* payment still PENDING or FAILED: money first, then the booking if it can be
\* confirmed, else the recovery to run after the commit.  The update of the
\* payment locks its row, and every other writer that cancels or deletes a
\* booking whose payment is PENDING writes that row too: the rest of the
\* transaction comes as one step.
CaptureSuccess(b, t) ==
    /\ payment[b] \in {"PENDING", "FAILED"}
    /\ captureRead[b] = NoTxn
    /\ payment' = [payment EXCEPT ![b] = "SUCCESS"]
    /\ recordedTxn' = [recordedTxn EXCEPT ![b] = t]
    /\ booking' = [booking EXCEPT ![b] = BookingAfterCapture(b)]
    /\ recovery' = [recovery EXCEPT ![b] = RecoveryAfterCapture(b)]
    /\ UNCHANGED flagged

\* handleCallback with an authentic success for a payment already SUCCESS:
\* another transaction id is a second charge, flagged in the audit log.
CaptureAgain(b, t) ==
    /\ payment[b] = "SUCCESS"
    /\ flagged' = [flagged EXCEPT ![b] = @ \cup ({t} \ {recordedTxn[b]})]
    /\ UNCHANGED <<payment, recordedTxn, booking, recovery>>

\* handleCallback with an authentic success for a payment in a refund state:
\* the guarded update matches no row, the answer is "previously processed".
CaptureIgnored(b) ==
    /\ payment[b] \in {"REFUND_PENDING", "REFUNDED", "REJECTED"}
    /\ UNCHANGED <<payment, recordedTxn, booking, recovery, flagged>>

SuccessCallback(b, t) ==
    /\ t \in captured[b]
    /\ \/ CaptureSuccess(b, t)
       \/ CaptureAgain(b, t)
       \/ CaptureIgnored(b)
    /\ acked' = [acked EXCEPT ![b] = @ \cup {t}]
    /\ UNCHANGED <<cancelledBy, mode, basket, hold, age, captured, pointVars, payoutVars,
                   cancelRead, cascadeRead, cronScan, updateVars, recreated, phase, mishaps>>

\* handleCallback with an authentic success for a FAILED payment whose booking
\* is live all the same.  Nobody who cancels that booking writes the payment, so
\* a cancel can come between the callback's read of the booking and its update
\* by id.  First the read, the payment row locked and nothing committed.
CaptureRead(b, t) ==
    /\ t \in captured[b]
    /\ payment[b] = "FAILED"
    /\ booking[b] \in Live
    /\ captureRead[b] = NoTxn
    /\ captureRead' = [captureRead EXCEPT ![b] = t]
    /\ UNCHANGED <<rowVars, gatewayVars, pointVars, payoutVars, recovery, cancelRead,
                   cascadeRead, staffRead, cronScan, recreated, phase, mishaps>>

\* The update of a booking that has been cancelled since its read revives it.
Revival(b) == IF booking[b] = "CANCELLED" THEN {"REVIVED"} ELSE {}

\* Then the update of the booking, by id, and the commit.
CaptureCommit(b) ==
    /\ captureRead[b] # NoTxn
    /\ Exists(b)
    /\ payment' = [payment EXCEPT ![b] = "SUCCESS"]
    /\ recordedTxn' = [recordedTxn EXCEPT ![b] = captureRead[b]]
    /\ booking' = [booking EXCEPT ![b] = "CONFIRMED"]
    /\ acked' = [acked EXCEPT ![b] = @ \cup {captureRead[b]}]
    /\ captureRead' = [captureRead EXCEPT ![b] = NoTxn]
    /\ mishaps' = [mishaps EXCEPT ![b] = @ \cup Revival(b)]
    /\ UNCHANGED <<cancelledBy, mode, basket, hold, age, captured, flagged, pointVars,
                   payoutVars, recovery, cancelRead, cascadeRead, staffRead, cronScan,
                   recreated, phase>>

\* Or the transaction fails: the booking is gone, or the database gave up.
CaptureAbort(b) ==
    /\ captureRead[b] # NoTxn
    /\ captureRead' = [captureRead EXCEPT ![b] = NoTxn]
    /\ UNCHANGED <<rowVars, gatewayVars, pointVars, payoutVars, recovery, cancelRead,
                   cascadeRead, staffRead, cronScan, recreated, phase, mishaps>>

\* handleCallback with a signed decline: the payment becomes FAILED and is
\* kept, the booking is deleted, its points go back.
FailureCallback(b) ==
    /\ basket[b]
    /\ payment[b] = "PENDING"
    /\ Exists(b)
    /\ Writable(b, PointsBack(b, "CANCEL_REFUND_UNPAID"))
    /\ payment' = [payment EXCEPT ![b] = "FAILED"]
    /\ booking' = [booking EXCEPT ![b] = "DELETED"]
    /\ ledger' = [ledger EXCEPT ![b] = @ \cup PointsBack(b, "CANCEL_REFUND_UNPAID")]
    /\ UNCHANGED <<cancelledBy, mode, basket, hold, age, gatewayVars, awarded,
                   payoutVars, flightVars, recreated, phase, mishaps>>

\* holdNapsSuccess: a NAPS success may precede the capture; the PENDING
\* booking's reservation is moved forward and nothing is confirmed.
NapsHold(b) ==
    /\ basket[b]
    /\ booking[b] = "PENDING"
    /\ payment[b] # "SUCCESS"
    /\ hold' = [hold EXCEPT ![b] = "NAPS"]
    /\ UNCHANGED <<booking, cancelledBy, payment, mode, basket, age, gatewayVars,
                   pointVars, payoutVars, flightVars, recreated, phase, mishaps>>

-----------------------------------------------------------------------------
(* What the callback does after its commit.                                *)

\* attemptB2OrphanRecovery gives up before it changes anything: the customer
\* or the activity is gone, the slot has ended, or the transaction failed (the
\* second BOOKING_REDEEM row of a booking that redeemed points always fails
\* it).  What is left to do is the refund.  (A payment that carries the stamp
\* already is left alone.)
B2GiveUp(b) ==
    /\ recovery[b] = "B2_ORPHAN"
    /\ ~recreated[b]
    /\ recovery' = [recovery EXCEPT ![b] = "REFUND"]
    /\ UNCHANGED <<rowVars, gatewayVars, pointVars, payoutVars, cancelRead,
                   cascadeRead, cronScan, updateVars, recreated, phase, mishaps>>

\* attemptB2OrphanRecovery inserts the booking again, CONFIRMED, under its old
\* id; the row is new, so its award flag is down.
B2Recreate(b) ==
    /\ recovery[b] = "B2_ORPHAN"
    /\ ~recreated[b]
    /\ phase # "ENDED"
    /\ SlotFree(b)
    /\ Writable(b, PointsBack(b, "BOOKING_REDEEM"))
    /\ recreated' = [recreated EXCEPT ![b] = TRUE]
    /\ booking' = [booking EXCEPT ![b] = "CONFIRMED"]
    /\ cancelledBy' = [cancelledBy EXCEPT ![b] = "NOBODY"]
    /\ awarded' = [awarded EXCEPT ![b] = FALSE]
    /\ ledger' = [ledger EXCEPT ![b] = @ \cup PointsBack(b, "BOOKING_REDEEM")]
    /\ recovery' = [recovery EXCEPT ![b] = "NONE"]
    /\ UNCHANGED <<payment, mode, basket, hold, age, gatewayVars, payoutVars,
                   cancelRead, cascadeRead, cronScan, updateVars, phase, mishaps>>

\* attemptB2OrphanRecovery finds the slot taken: the stamp is committed, the
\* booking stays deleted, the refund is next.
B2SlotConflict(b) ==
    /\ recovery[b] = "B2_ORPHAN"
    /\ ~recreated[b]
    /\ phase # "ENDED"
    /\ ~SlotFree(b)
    /\ recreated' = [recreated EXCEPT ![b] = TRUE]
    /\ recovery' = [recovery EXCEPT ![b] = "REFUND"]
    /\ UNCHANGED <<rowVars, gatewayVars, pointVars, payoutVars, cancelRead,
                   cascadeRead, cronScan, updateVars, phase, mishaps>>

\* queueB2Refund: SUCCESS becomes REFUND_PENDING; any other status is left.
QueueB2Refund(b) ==
    /\ recovery[b] = "REFUND"
    /\ payment' = [payment EXCEPT ![b] = IF @ = "SUCCESS" THEN "REFUND_PENDING" ELSE @]
    /\ recovery' = [recovery EXCEPT ![b] = "NONE"]
    /\ UNCHANGED <<booking, cancelledBy, mode, basket, hold, age, gatewayVars, pointVars,
                   payoutVars, cancelRead, cascadeRead, cronScan, updateVars, recreated, phase, mishaps>>

\* The process dies after the callback's commit: nothing on disk says that a
\* recovery was due.
Crash(b) ==
    /\ Crashes
    /\ recovery[b] # "NONE"
    /\ recovery' = [recovery EXCEPT ![b] = "NONE"]
    /\ mishaps' = [mishaps EXCEPT ![b] = @ \cup {"CRASHED"}]
    /\ UNCHANGED <<rowVars, gatewayVars, pointVars, payoutVars, cancelRead,
                   cascadeRead, cronScan, updateVars, recreated, phase>>

-----------------------------------------------------------------------------
(* The stale-booking cron.                                                 *)

\* Bug: no fallback for a hold that is extended again and again.
StaleWithoutFallback(b) ==
    booking[b] = "PENDING" /\ hold[b] = "LAPSED" /\ (basket[b] => age[b] # "YOUNG")

\* The cron's four cases: the hold lapsed and no checkout was opened; it
\* lapsed and the checkout's grace period is over; the fallback age.
Stale(b) ==
    /\ booking[b] = "PENDING"
    /\ \/ hold[b] = "LAPSED" /\ (basket[b] => age[b] # "YOUNG")
       \/ age[b] = "FALLBACK"

\* runAutoCancelStalePendingBookings, the read.  Its leader lock keeps a second
\* run out while one is between its read and its commit.
CronScan ==
    /\ cronScan = {}
    /\ cronScan' = {b \in Bookings : Stale(b)}
    /\ cronScan' # {}
    /\ UNCHANGED <<rowVars, gatewayVars, pointVars, payoutVars, recovery, cancelRead,
                   cascadeRead, updateVars, recreated, phase, mishaps>>

\* Bug: every row of the scan is reaped, whatever happened to it since.
ClaimedUnchecked == {b \in cronScan : Exists(b)}

\* The rows of the scan that the claim (still PENDING) deletes.
Claimed == {b \in cronScan : booking[b] = "PENDING"}

\* The transaction: the claimed bookings are deleted and their points go back,
\* and every scanned payment that is still PENDING is failed.
CronReap ==
    /\ cronScan # {}
    /\ \A b \in Claimed : Writable(b, PointsBack(b, "CANCEL_REFUND_UNPAID"))
    /\ booking' = [b \in Bookings |-> IF b \in Claimed THEN "DELETED" ELSE booking[b]]
    /\ ledger' = [b \in Bookings |->
                     IF b \in Claimed THEN ledger[b] \cup PointsBack(b, "CANCEL_REFUND_UNPAID")
                     ELSE ledger[b]]
    /\ payment' = [b \in Bookings |->
                     IF b \in cronScan /\ payment[b] = "PENDING" THEN "FAILED"
                     ELSE payment[b]]
    /\ cronScan' = {}
    /\ UNCHANGED <<cancelledBy, mode, basket, hold, age, gatewayVars, awarded,
                   payoutVars, recovery, cancelRead, cascadeRead, updateVars, recreated,
                   phase, mishaps>>

\* The transaction fails (a statement timeout, a repeated ledger row) and the
\* whole batch rolls back.
CronAbort ==
    /\ cronScan # {}
    /\ cronScan' = {}
    /\ UNCHANGED <<rowVars, gatewayVars, pointVars, payoutVars, recovery, cancelRead,
                   cascadeRead, updateVars, recreated, phase, mishaps>>

-----------------------------------------------------------------------------
(* The vendor and the admin change a booking's status.                     *)

\* What updateBookingStatus checks on the rows it reads: the vendor may complete
\* what is over, the admin may confirm what is paid.  (The status from which the
\* change is asked for is the page's; the API does not look at it.)
VendorAllows(b, to) ==
    /\ <<booking[b], to>> \in VendorMoves
    /\ to = "COMPLETED" => phase = "ENDED"

AdminAllows(b, to) ==
    /\ <<booking[b], to>> \in AdminMoves
    /\ to = "CONFIRMED" => payment[b] = "SUCCESS"

\* What the call will do, with the pointsAwarded it has read: points are earned
\* on cash, unless they have been.
ChangeOf(b, to) ==
    IF to = "CONFIRMED" THEN "CONFIRM"
    ELSE IF awarded[b] \/ ~Cash(b) THEN "COMPLETE" ELSE "COMPLETE_AND_EARN"

\* updateBookingStatus to CONFIRMED or COMPLETED, the read and the checks.
StaffRead(b, to) ==
    /\ Exists(b)
    /\ VendorAllows(b, to) \/ AdminAllows(b, to)
    /\ staffRead' = [staffRead EXCEPT ![b] = @ \cup {ChangeOf(b, to)}]
    /\ UNCHANGED <<rowVars, gatewayVars, pointVars, payoutVars, recovery, cancelRead,
                   cascadeRead, captureRead, cronScan, recreated, phase, mishaps>>

\* A call with the given change ends; another one may still be there.
ChangeEnds(b, change) ==
    /\ change \in staffRead[b]
    /\ \/ staffRead' = [staffRead EXCEPT ![b] = @ \ {change}]
       \/ UNCHANGED staffRead

\* The commit of the change: an update by id, whatever the status is by now;
\* the award is claimed and made if it has not been.
Confirm(b) ==
    /\ booking' = [booking EXCEPT ![b] = "CONFIRMED"]
    /\ mishaps' = [mishaps EXCEPT ![b] = @ \cup Revival(b)]
    /\ UNCHANGED <<awarded, ledger>>

\* Completed before the slot.
Haste == IF phase = "FUTURE" THEN {"EARLY"} ELSE {}

Complete(b, asks) ==
    LET earns == asks /\ ~awarded[b] IN
    /\ earns => Writable(b, {"BOOKING_EARN"})
    /\ booking' = [booking EXCEPT ![b] = "COMPLETED"]
    /\ awarded' = [awarded EXCEPT ![b] = @ \/ earns]
    /\ ledger' = [ledger EXCEPT ![b] = IF earns THEN @ \cup {"BOOKING_EARN"} ELSE @]
    /\ mishaps' = [mishaps EXCEPT ![b] = @ \cup Revival(b) \cup Haste]

StaffCommit(b) ==
    /\ Exists(b)
    /\ \/ ChangeEnds(b, "CONFIRM") /\ Confirm(b)
       \/ ChangeEnds(b, "COMPLETE") /\ Complete(b, FALSE)
       \/ ChangeEnds(b, "COMPLETE_AND_EARN") /\ Complete(b, TRUE)
    /\ UNCHANGED <<cancelledBy, payment, mode, basket, hold, age, gatewayVars, payoutVars,
                   recovery, cancelRead, cascadeRead, captureRead, cronScan, recreated,
                   phase>>

\* The row is gone, the ledger row exists or the database gave up.
StaffAbort(b) ==
    /\ staffRead[b] # {}
    /\ staffRead' = [staffRead EXCEPT ![b] = {}]
    /\ UNCHANGED <<rowVars, gatewayVars, pointVars, payoutVars, recovery, cancelRead,
                   cascadeRead, captureRead, cronScan, recreated, phase, mishaps>>

\* Bug: only a completed booking is expected to have earned.
ReversalOfCompleted(b) ==
    IF booking[b] = "COMPLETED" /\ awarded[b] THEN {"CANCEL_REVERSE_AWARDED"} ELSE {}

\* The earned points a cancel takes back.
Reversal(b) ==
    IF awarded[b] /\ "BOOKING_EARN" \in ledger[b] THEN {"CANCEL_REVERSE_AWARDED"} ELSE {}

\* updateBookingStatus to CANCELLED by who: refund at 100% as points under
\* source, redeemed points back, earned points reversed; a refund of a
\* booking already paid out is reported.
CancelWithRefund(b, who, source) ==
    LET rows == RefundRow(b, payment[b], source)
                \cup PointsBack(b, "CANCEL_REFUND_PAID") \cup Reversal(b)
    IN
    /\ booking[b] # "CANCELLED"
    /\ Writable(b, rows)
    /\ booking' = [booking EXCEPT ![b] = "CANCELLED"]
    /\ cancelledBy' = [cancelledBy EXCEPT ![b] = who]
    /\ payment' = [payment EXCEPT ![b] = CASE @ = "SUCCESS" -> "REFUNDED"
                                           [] @ = "PENDING" -> "FAILED"
                                           [] OTHER -> @]
    /\ ledger' = [ledger EXCEPT ![b] = @ \cup rows]
    /\ awarded' = [awarded EXCEPT ![b] = @ /\ Reversal(b) = {}]
    /\ clawback' = [clawback EXCEPT ![b] =
                       @ \/ (payment[b] = "SUCCESS" /\ payout[b] = "PAID")]

\* Some page of the staff's offers the cancel.  It is claimed on any status but
\* CANCELLED and works on what it reads after that, in its transaction.
MayCancel(moves) == \E move \in moves : move[2] = "CANCELLED"

VendorCancel(b) ==
    /\ Exists(b)
    /\ MayCancel(VendorMoves)
    /\ payout[b] # "PAID"
    /\ CancelWithRefund(b, "VENDOR", "VENDOR_REFUND_APPROVED")
    /\ UNCHANGED <<mode, basket, hold, age, gatewayVars, payout, flightVars, recreated,
                   phase, mishaps>>

AdminCancel(b) ==
    /\ Exists(b)
    /\ MayCancel(AdminMoves)
    /\ CancelWithRefund(b, "ADMIN", "ADMIN_REFUND_APPROVED")
    /\ UNCHANGED <<mode, basket, hold, age, gatewayVars, payout, flightVars, recreated,
                   phase, mishaps>>

-----------------------------------------------------------------------------
(* An admin takes the activity down: cascadeCancelFutureBookings.          *)

\* The read: future bookings, each with the status of its payment.
CascadeRead(b) ==
    /\ cascadeRead[b] = "NONE"
    /\ booking[b] \in {"PENDING", "CONFIRMED"}
    /\ phase = "FUTURE"
    /\ cascadeRead' = [cascadeRead EXCEPT ![b] = payment[b]]
    /\ UNCHANGED <<rowVars, gatewayVars, pointVars, payoutVars, recovery, cancelRead,
                   cronScan, updateVars, recreated, phase, mishaps>>

\* The transaction of one booking, driven by the payment status that was read:
\* SUCCESS is refunded without a look at the row, PENDING only if it still is.
CascadeCommit(b) ==
    LET rows == RefundRow(b, cascadeRead[b], "ADMIN_REFUND_APPROVED")
                \cup PointsBack(b, "CANCEL_REFUND_PAID")
    IN
    /\ cascadeRead[b] # "NONE"
    /\ booking[b] \in {"PENDING", "CONFIRMED"}
    /\ cascadeRead[b] = "PENDING" => payment[b] = "PENDING"
    /\ Writable(b, rows)
    /\ booking' = [booking EXCEPT ![b] = "CANCELLED"]
    /\ cancelledBy' = [cancelledBy EXCEPT ![b] = "ADMIN"]
    /\ payment' = [payment EXCEPT ![b] = CASE cascadeRead[b] = "SUCCESS" -> "REFUNDED"
                                           [] cascadeRead[b] = "PENDING" -> "FAILED"
                                           [] OTHER -> @]
    /\ ledger' = [ledger EXCEPT ![b] = @ \cup rows]
    /\ cascadeRead' = [cascadeRead EXCEPT ![b] = "NONE"]
    /\ mishaps' = [mishaps EXCEPT ![b] =
                      IF payment[b] = "SUCCESS" /\ cascadeRead[b] # "SUCCESS"
                      THEN @ \cup {"OVERLOOKED"} ELSE @]
    /\ UNCHANGED <<mode, basket, hold, age, gatewayVars, awarded, payoutVars, recovery,
                   cancelRead, cronScan, updateVars, recreated, phase>>

\* The claim matched no row, or the transaction threw: counted and skipped.
CascadeSkip(b) ==
    /\ cascadeRead[b] # "NONE"
    /\ cascadeRead' = [cascadeRead EXCEPT ![b] = "NONE"]
    /\ UNCHANGED <<rowVars, gatewayVars, pointVars, payoutVars, recovery, cancelRead,
                   cronScan, updateVars, recreated, phase, mishaps>>

\* Bug: the decision does not check that the refund still waits for one.
SettleRefundAnyStatus(b, pay, rows) ==
    /\ booking[b] = "CANCELLED"
    /\ Writable(b, rows)
    /\ payment' = [payment EXCEPT ![b] = pay]
    /\ ledger' = [ledger EXCEPT ![b] = @ \cup rows]
    /\ UNCHANGED <<booking, cancelledBy, mode, basket, hold, age, gatewayVars, awarded,
                   payout, flightVars, recreated, phase, mishaps>>

\* A refund decided to status pay, with the ledger rows it writes.
SettleRefund(b, pay, rows) ==
    /\ booking[b] = "CANCELLED"
    /\ payment[b] = "REFUND_PENDING"
    /\ Writable(b, rows)
    /\ payment' = [payment EXCEPT ![b] = pay]
    /\ ledger' = [ledger EXCEPT ![b] = @ \cup rows]
    /\ UNCHANGED <<booking, cancelledBy, mode, basket, hold, age, gatewayVars, awarded,
                   payout, flightVars, recreated, phase, mishaps>>

\* The cascade's second loop approves the refunds that were waiting.  It is
\* reached only if the activity has another booking to come, in whatever slot,
\* so it is enabled at any time.
CascadeResolve(b) ==
    /\ SettleRefund(b, "REFUNDED", {"ADMIN_REFUND_APPROVED"})
    /\ UNCHANGED clawback

\* recordRefundDecision: approve some amount, approve nothing, or reject.
RecordRefundDecision(b) ==
    \/ /\ \E source \in {"VENDOR_REFUND_APPROVED", "ADMIN_REFUND_APPROVED"} :
             SettleRefund(b, "REFUNDED", {source})
       /\ clawback' = [clawback EXCEPT ![b] = @ \/ payout[b] = "PAID"]
    \/ /\ \E pay \in {"REFUNDED", "REJECTED"} : SettleRefund(b, pay, {})
       /\ UNCHANGED clawback

-----------------------------------------------------------------------------
(* After the slot: the award and complete cron, and the vendor's payout.   *)

\* awardLoyaltyForBookings: cash bookings earn once the slot has started.
AwardLoyalty(b) ==
    /\ phase # "FUTURE"
    /\ booking[b] \in {"CONFIRMED", "COMPLETED"}
    /\ ~awarded[b]
    /\ Cash(b)
    /\ Writable(b, {"BOOKING_EARN"})
    /\ awarded' = [awarded EXCEPT ![b] = TRUE]
    /\ ledger' = [ledger EXCEPT ![b] = @ \cup {"BOOKING_EARN"}]
    /\ UNCHANGED <<rowVars, gatewayVars, payoutVars, flightVars, recreated, phase, mishaps>>

\* autoCompletePastBookings, second pass.
AutoComplete(b) ==
    /\ phase = "ENDED"
    /\ booking[b] = "CONFIRMED"
    /\ booking' = [booking EXCEPT ![b] = "COMPLETED"]
    /\ UNCHANGED <<cancelledBy, payment, mode, basket, hold, age, gatewayVars, pointVars,
                   payoutVars, flightVars, recreated, phase, mishaps>>

\* markPayoutsPaid, for one payment: captured, unpaid, the booking over.
MarkPayoutsPaid(b) ==
    /\ phase = "ENDED"
    /\ Exists(b)
    /\ payment[b] = "SUCCESS"
    /\ payout[b] = "UNPAID"
    /\ payout' = [payout EXCEPT ![b] = "PAID"]
    /\ UNCHANGED <<rowVars, gatewayVars, pointVars, clawback, flightVars, recreated, phase, mishaps>>

\* markPayoutUnpaid.
MarkPayoutUnpaid(b) ==
    /\ payment[b] = "SUCCESS"
    /\ payout[b] = "PAID"
    /\ payout' = [payout EXCEPT ![b] = "UNPAID"]
    /\ UNCHANGED <<rowVars, gatewayVars, pointVars, clawback, flightVars, recreated, phase, mishaps>>

-----------------------------------------------------------------------------
(* Time.                                                                   *)

\* reservedUntil passes.
HoldExpires(b) ==
    /\ booking[b] = "PENDING"
    /\ hold[b] # "LAPSED"
    /\ hold' = [hold EXCEPT ![b] = "LAPSED"]
    /\ UNCHANGED <<booking, cancelledBy, payment, mode, basket, age, gatewayVars,
                   pointVars, payoutVars, flightVars, recreated, phase, mishaps>>

\* The cron's cut-offs pass: the checkout grace (2 h), then the fallback (4 h).
\* Both are longer than the original hold.
AgePasses(b) ==
    /\ booking[b] = "PENDING"
    /\ hold[b] # "HELD"
    /\ age[b] # "FALLBACK"
    /\ age' = [age EXCEPT ![b] = IF @ = "YOUNG" THEN "GRACE_OVER" ELSE "FALLBACK"]
    /\ UNCHANGED <<booking, cancelledBy, payment, mode, basket, hold, gatewayVars,
                   pointVars, payoutVars, flightVars, recreated, phase, mishaps>>

\* The slot starts, then ends.  A request that has read its rows commits or
\* fails long before either (the statement timeout is 15 s).
SlotTime ==
    /\ phase # "ENDED"
    /\ \A b \in Bookings :
          /\ cancelRead[b] = {} /\ cascadeRead[b] = "NONE" /\ recovery[b] = "NONE"
          /\ staffRead[b] = {} /\ captureRead[b] = NoTxn
    /\ phase' = IF phase = "FUTURE" THEN "STARTED" ELSE "ENDED"
    /\ UNCHANGED <<rowVars, gatewayVars, pointVars, payoutVars, flightVars, recreated, mishaps>>

-----------------------------------------------------------------------------
Customer(b) ==
    \/ \E m \in Modes : CreateBooking(b, m)
    \/ InitiatePayment(b)
    \/ CancelRead(b)
    \/ CancelCommit(b)
    \/ CancelAbort(b)

Gateway(b) ==
    \/ \E t \in Txns : Capture(b, t) \/ SuccessCallback(b, t) \/ CaptureRead(b, t)
    \/ CaptureCommit(b) \/ CaptureAbort(b)
    \/ FailureCallback(b)
    \/ NapsHold(b)

Recovery(b) ==
    B2GiveUp(b) \/ B2Recreate(b) \/ B2SlotConflict(b) \/ QueueB2Refund(b)

Cron == CronScan \/ CronReap \/ CronAbort

Staff(b) ==
    \/ \E to \in {"CONFIRMED", "COMPLETED"} : StaffRead(b, to)
    \/ StaffCommit(b) \/ StaffAbort(b)
    \/ VendorCancel(b) \/ AdminCancel(b)
    \/ CascadeRead(b) \/ CascadeCommit(b) \/ CascadeSkip(b) \/ CascadeResolve(b)
    \/ RecordRefundDecision(b)
    \/ MarkPayoutsPaid(b) \/ MarkPayoutUnpaid(b)

AfterSlot(b) == AwardLoyalty(b) \/ AutoComplete(b)

Time(b) == HoldExpires(b) \/ AgePasses(b)

Next ==
    \/ \E b \in Bookings : Customer(b) \/ Gateway(b) \/ Recovery(b) \/ Crash(b)
                           \/ Staff(b) \/ AfterSlot(b) \/ Time(b)
    \/ Cron
    \/ SlotTime

Spec == Init /\ [][Next]_vars

-----------------------------------------------------------------------------
(* What must hold.                                                         *)

RefundRows == {"VENDOR_REFUND_APPROVED", "ADMIN_REFUND_APPROVED"}
ReturnRows == {"CANCEL_REFUND_UNPAID", "CANCEL_REFUND_PAID"}

\* The mishaps, each of one booking.
Erased(b) == "ERASED" \in mishaps[b]
Revived(b) == "REVIVED" \in mishaps[b]
Overlooked(b) == "OVERLOOKED" \in mishaps[b]
Early(b) == "EARLY" \in mishaps[b]
Crashed(b) == "CRASHED" \in mishaps[b]

\* A payment whose money is kept belongs to a booking the customer still has,
\* or the callback's recovery is still running (handleCallback, cancelBooking,
\* the cron and the cascade agree about who owns a late capture): unless the
\* process died before the recovery, or a cascade overlooked the capture.
NoStrandedCapture ==
    \A b \in Bookings :
        payment[b] = "SUCCESS" =>
            booking[b] \in Live \/ recovery[b] # "NONE" \/ Crashed(b) \/ Overlooked(b)

\* Once the API has acknowledged a capture, the payment row says that money
\* came in: no cancel, decline, staff change or cron run racing the callback
\* sets it back.  Only a hard delete whose read the capture overtook takes the
\* row away.
AckedIsMoney ==
    \A b \in Bookings :
        acked[b] # {} =>
            IF payment[b] = "DELETED" THEN Erased(b)
            ELSE payment[b] \in Money /\ recordedTxn[b] \in acked[b]

\* Points redeemed on a booking go back when it is cancelled or deleted,
\* whichever of the cancel paths gets there: never too few, and twice only if a
\* hard delete came after another cancel or the booking was revived.
PointsConserved ==
    \A b \in Bookings :
        "BOOKING_REDEEM" \in ledger[b] =>
            LET back == ledger[b] \cap ReturnRows IN
            /\ booking[b] \in Live => back = {} \/ Revived(b)
            /\ booking[b] \notin Live => back # {}
            /\ back = ReturnRows => Erased(b) \/ Revived(b)

\* A refund is credited at most once, on a cancelled booking, and only for
\* money the gateway really took, unless the booking was brought back or its
\* rows were erased.
RefundBacked ==
    \A b \in Bookings :
        ledger[b] \cap RefundRows # {} /\ ~Erased(b) /\ ~Revived(b) =>
            /\ \E r \in RefundRows : ledger[b] \cap RefundRows = {r}
            /\ captured[b] # {}
            /\ payment[b] = "REFUNDED"
            /\ booking[b] = "CANCELLED"

\* A cancelled booking keeps no earned points: every cancel that can follow
\* the award reverses it, unless the award came before the slot, or went to a
\* booking that was deleted and inserted again, whose new row tells of no award.
EarnReversed ==
    \A b \in Bookings :
        booking[b] = "CANCELLED" /\ "BOOKING_EARN" \in ledger[b] =>
            \/ "CANCEL_REVERSE_AWARDED" \in ledger[b] /\ ~awarded[b]
            \/ Early(b)
            \/ recreated[b]

\* A refund credited for a booking whose vendor was paid out is reported.
ClawbackReported ==
    \A b \in Bookings :
        payout[b] = "PAID" /\ ledger[b] \cap RefundRows # {} => clawback[b]

\* Money recorded as received only moves towards a refund, and a decided
\* refund is final, until a hard delete takes the row; on a booking that was
\* revived the cascade may refund once more what was decided.
PaymentMovesForward ==
    [][\A b \in Bookings :
          Erased(b)' \/ Revived(b)' \/
          /\ payment[b] = "SUCCESS" =>
                payment'[b] \in {"SUCCESS", "REFUND_PENDING", "REFUNDED"}
          /\ payment[b] = "REFUND_PENDING" =>
                payment'[b] \in {"REFUND_PENDING", "REFUNDED", "REJECTED"}
          /\ payment[b] \in {"REFUNDED", "REJECTED"} => payment'[b] = payment[b]]_vars

\* A cancelled booking comes back to life only by a status change of the staff,
\* or by a capture after a failed payment, whose request had read the booking:
\* every other callback, cron, recovery, cancel and cascade leaves it cancelled.
CancelIsFinal ==
    [][\A b \in Bookings :
          booking[b] = "CANCELLED" /\ booking'[b] \in Live =>
              staffRead[b] # {} \/ captureRead[b] # NoTxn]_vars

\* Guests with a seat of the slot never exceed its capacity.
Seated == {b \in Bookings : Active(b)}
NotOversold == Cardinality(Seated) <= Capacity

\* The only way to more guests than seats is a booking that had lost its seat,
\* by a lapse of its hold or by a cancel that a request under way did not see, and
\* is given it back: creating a booking, recovering a deleted one and every other
\* step keep to the capacity.
OversoldOnlyByLapsed ==
    [][NotOversold /\ ~NotOversold' =>
          \E b \in Bookings :
             /\ \/ booking[b] = "PENDING" /\ hold[b] = "LAPSED"
                \/ booking[b] = "CANCELLED" /\ (staffRead[b] # {} \/ captureRead[b] # NoTxn)
             /\ Active(b)']_vars

-----------------------------------------------------------------------------
(* What the code's own comments and tests say and the code does not do.    *)

\* Every authenticated capture is the recorded one or is flagged to an admin
\* (handleCallback: "Detect it, record it as FINANCIAL, and page an admin").
EveryCaptureVisible ==
    \A b \in Bookings : acked[b] \subseteq flagged[b] \cup {recordedTxn[b]}

\* The row of a payment that reached the gateway is never deleted
\* (cancelBooking and the cron: "payments are never hard-deleted").
BasketKept == \A b \in Bookings : basket[b] => payment[b] # "DELETED"

\* Points are earned on money that came in ("on the CASH paid only").
EarnedOnCash ==
    \A b \in Bookings : "BOOKING_EARN" \in ledger[b] => captured[b] # {}

\* A cancelled booking never becomes live again (handleCallback: "We must NOT
\* resurrect a deliberately-cancelled booking").
NeverRevived == \A b \in Bookings : "REVIVED" \notin mishaps[b]

\* Redeemed points never come back twice (LoyaltyLedger's unique index: one row
\* of each source, and each booking ends by one cancel).
PointsBackOnce ==
    \A b \in Bookings : Cardinality(ledger[b] \cap ReturnRows) <= 1

\* Money that came in has a booking or a recovery, crash or no crash.
NeverStranded ==
    \A b \in Bookings :
        payment[b] = "SUCCESS" => booking[b] \in Live \/ recovery[b] # "NONE"

\* holdNapsSuccess moves a live hold forward and never revives a lapsed one.
NapsKeepsLapsed ==
    [][\A b \in Bookings : hold[b] = "LAPSED" => hold'[b] = "LAPSED"]_vars

\* The stale-booking cron never reaps a booking whose hold is still running.
CronSparesHeld ==
    [][\A b \in Bookings :
          b \in cronScan /\ booking[b] = "PENDING" /\ hold[b] # "LAPSED"
             => booking'[b] # "DELETED" \/ cronScan' = cronScan]_vars

\* An orphaned capture whose slot is free and still ahead can be recovered by
\* inserting its booking again, whether or not points paid a part of it.
OrphanRecoverable ==
    \A b \in Bookings :
        recovery[b] = "B2_ORPHAN" /\ phase # "ENDED" /\ SlotFree(b)
           => ENABLED B2Recreate(b)

-----------------------------------------------------------------------------
(* What must happen.                                                       *)

\* Time passes, the cron keeps running and not every one of its transactions
\* fails, a callback that has committed goes on to its recovery.
Fairness ==
    /\ \A b \in Bookings : WF_vars(HoldExpires(b)) /\ WF_vars(AgePasses(b))
                           /\ WF_vars(Recovery(b))
    /\ WF_vars(CronScan)
    /\ SF_vars(CronReap)

FairSpec == Spec /\ Fairness

\* Staff decide every refund that their queue offers them.
DecidingSpec ==
    FairSpec /\ \A b \in Bookings : WF_vars(RecordRefundDecision(b))

\* No booking stays PENDING for ever: it is paid, cancelled or reaped.
PendingEnds == \A b \in Bookings : booking[b] = "PENDING" ~> booking[b] # "PENDING"

\* Money received for a booking that is cancelled or gone ends in a booking or
\* in the refund queue.
OrphanSettled ==
    \A b \in Bookings :
        payment[b] = "SUCCESS" /\ booking[b] \notin Live
           ~> booking[b] \in Live \/ payment[b] # "SUCCESS"

\* A queued refund is decided (queueB2Refund: "the actual refund happens when
\* admin clicks Approve").
RefundDecided ==
    \A b \in Bookings : payment[b] = "REFUND_PENDING" ~> payment[b] # "REFUND_PENDING"

-----------------------------------------------------------------------------
(* Why it holds: the invariants behind the properties above.  Each part    *)
(* says which mishap, if any, ends it.                                     *)

\* Before createBooking there is nothing.
Fresh(b) ==
    booking[b] = "NONE" =>
        /\ payment[b] = "NONE" /\ ~basket[b] /\ captured[b] = {} /\ acked[b] = {}
        /\ ledger[b] = {} /\ cancelRead[b] = {} /\ cascadeRead[b] = "NONE"
        /\ recovery[b] = "NONE" /\ staffRead[b] = {} /\ captureRead[b] = NoTxn
        /\ mishaps[b] = {}

\* Rows that are out of the customer's reach, and why a late step cannot
\* reach them: who owns the payment follows from the booking's status.
Ownership(b) ==
    /\ booking[b] = "CANCELLED" => payment[b] # "PENDING"
    /\ payment[b] = "DELETED" => booking[b] = "DELETED"
    /\ payment[b] \in Money \ {"SUCCESS"} => booking[b] \in {"CANCELLED", "DELETED"} \/ Revived(b)
    /\ recovery[b] = "REFUND" => booking[b] \in {"CANCELLED", "DELETED"} \/ Revived(b)
    /\ recovery[b] = "B2_ORPHAN" => booking[b] = "DELETED" /\ payment[b] = "SUCCESS"

\* What running requests have read still tells something of the rows.
Reads(b) ==
    /\ cancelRead[b] \cap {"POINTS", "PAID"} # {} => payment[b] \in Money \cup {"DELETED"}
    /\ cascadeRead[b] = "SUCCESS" => payment[b] \in Money \cup {"DELETED"}
    /\ cascadeRead[b] \notin {"NONE", "PENDING"} => payment[b] # "PENDING"
    /\ captureRead[b] # NoTxn => payment[b] = "FAILED" /\ captureRead[b] \in captured[b]
    /\ booking[b] = "CANCELLED" /\ "CANCEL_REFUND_UNPAID" \in ledger[b]
          => cancelRead[b] \cap {"POINTS", "PAID"} = {} \/ Revived(b)

\* Where captures come from and where the first one is recorded.
Captures(b) ==
    /\ acked[b] \subseteq captured[b]
    /\ captured[b] # {} => basket[b]
    /\ basket[b] => Cash(b)
    /\ ~Cash(b) /\ booking[b] # "NONE" => payment[b] \notin {"PENDING", "FAILED"}
    /\ Cash(b) /\ payment[b] \in Money => recordedTxn[b] \in acked[b]
    /\ acked[b] # {} => payment[b] \in Money \/ (payment[b] = "DELETED" /\ Erased(b))

\* Redeemed points are in the ledger; they are back, under one of the two
\* sources, exactly when the booking is no longer live.
Redemption(b) ==
    LET unpaid == "CANCEL_REFUND_UNPAID" \in ledger[b]
        paid == "CANCEL_REFUND_PAID" \in ledger[b]
    IN
    /\ booking[b] # "NONE" => (Redeemed(b) <=> "BOOKING_REDEEM" \in ledger[b])
    /\ ~Redeemed(b) => ~unpaid /\ ~paid
    /\ booking[b] \in Live => (~unpaid /\ ~paid) \/ Revived(b)
    /\ booking[b] \in {"CANCELLED", "DELETED"} /\ Redeemed(b) => unpaid \/ paid
    /\ unpaid /\ paid => Erased(b) \/ Revived(b)

MoneyInv ==
    \A b \in Bookings : Fresh(b) /\ Ownership(b) /\ Reads(b) /\ Captures(b) /\ Redemption(b)

-----------------------------------------------------------------------------
(* What the customer is promised, and how the rows keep it.                *)

\* Where booking b and its money stand, read off the two rows.
DealOf(b) ==
    LET live == booking[b] \in Live IN
    IF booking[b] = "NONE" THEN "NONE"
    ELSE IF Erased(b) \/ Revived(b) \/ Overlooked(b) THEN "VOID"
    ELSE CASE payment[b] = "SUCCESS" -> IF live THEN "SERVED" ELSE "ORPHAN"
           [] payment[b] = "REFUND_PENDING" -> "OWED"
           [] payment[b] = "REFUNDED" -> "RETURNED"
           [] payment[b] = "REJECTED" -> "KEPT"
           [] OTHER -> IF live THEN "OPEN" ELSE "CLOSED"

\* The redeemed points of b, read off the ledger.
PointsOf(b) ==
    IF "BOOKING_REDEEM" \notin ledger[b] THEN "NONE"
    ELSE IF ledger[b] \cap ReturnRows = {} THEN "SPENT" ELSE "BACK"

\* The refunds of b in the ledger.
CreditsOf(b) ==
    (IF "VENDOR_REFUND_APPROVED" \in ledger[b] THEN 1 ELSE 0)
    + (IF "ADMIN_REFUND_APPROVED" \in ledger[b] THEN 1 ELSE 0)

Promise == INSTANCE MoneyPromise
           WITH deal <- [b \in Bookings |-> DealOf(b)],
                cash <- [b \in Bookings |-> Cash(b)],
                points <- [b \in Bookings |-> PointsOf(b)],
                credits <- [b \in Bookings |-> CreditsOf(b)]

\* Every step of the requests, callbacks, crons and staff, in whatever order
\* they come, is a step of the promise to each customer or none at all: no
\* race loses money that came in, refunds it twice, keeps the points of a lost
\* booking or gives back a booking whose points have already been returned,
\* but for the three mishaps that break a promise, each at the step that does.
KeepsPromise == Promise!Spec

=============================================================================
