------------------------------ MODULE Coupons ------------------------------
(* One coupon, the wallets of the customers who claimed it as a voucher,   *)
(* and the bookings it is used on: bookings.service.ts (createBooking,     *)
(* refundCouponUsage), payment.service.ts (recovery), offers.controller.ts *)
(* (claim), admin.service.ts and cleanup.service.ts (status, removal).     *)
(* Only bookings that use the coupon are in the model.  createBooking and  *)
(* the recovery are serializable transactions, one action each; the paths  *)
(* that give a use back run READ COMMITTED, so their read of the coupon    *)
(* and their write are two actions.  The hard delete of cancelBooking and  *)
(* the staff's change of status write on an old read of the booking, too.  *)
EXTENDS Naturals, FiniteSets

CONSTANTS
    Customers,
    Bookings,
    Owner,      \* the customer of each booking
    MaxEnds,    \* ends of bookings that run at the same time
    MaxTwists,  \* recoveries, and writes on an old read that miscount a use, together
    Limits      \* the usage limits a coupon is tried with, 0 for none

ASSUME CouponAssumption ==
    /\ IsFiniteSet(Customers)
    /\ IsFiniteSet(Bookings)
    /\ Owner \in [Bookings -> Customers]
    /\ MaxEnds \in Nat
    /\ MaxTwists \in Nat
    /\ Limits \subseteq Nat

VARIABLES
    terms,      \* usageLimit, and whether the coupon is the platform's own
    status,     \* Coupon.status, or DELETED
    used,       \* Coupon.usedCount
    valid,      \* validTo is in the future
    claim,      \* ClaimedCoupon of each customer: NONE, OPEN or USED
    claiming,   \* customers whose claim has passed its first read
    booking,    \* NONE, PENDING, CONFIRMED, CANCELLED, REAPED (row deleted, snapshot kept)
                \* or DELETED (the payment with it)
    via,        \* how the booking got the coupon: NONE, VOUCHER or CODE
    refunding,  \* what refundCouponUsage will do with what it has read, or IDLE
    deleting,   \* the same of a hard delete, which is at READ before it reads the coupon
    off,        \* history: an admin's last word was to switch it off, below or at the cap
    recovered,  \* history: bookings written again from a snapshot
    uncounted,  \* history: those of them that found the coupon at its limit
    overtaken,  \* history: a refund did what a later read would not have done
    strays,     \* history: uses returned a second time, or not taken by a revival
    strayed     \* history: the bookings of these

vars == <<terms, status, used, valid, claim, claiming, booking, via, refunding,
          deleting, off, recovered, uncounted, overtaken, strays, strayed>>
strayVars == <<strays, strayed>>
history == <<off, recovered, uncounted, overtaken, strayVars>>

CouponStatus == {"PENDING", "APPROVED", "EXPIRED", "DELETED"}

\* Every variable keeps its type.
TypeOK ==
    /\ terms \in [limit : Limits, platform : BOOLEAN]
    /\ status \in CouponStatus
    /\ used \in 0..Cardinality(Bookings)
    /\ valid \in BOOLEAN
    /\ claim \in [Customers -> {"NONE", "OPEN", "USED"}]
    /\ claiming \subseteq Customers
    /\ booking \in [Bookings -> {"NONE", "PENDING", "CONFIRMED", "CANCELLED", "REAPED",
                            "DELETED"}]
    /\ via \in [Bookings -> {"NONE", "VOUCHER", "CODE"}]
    /\ refunding \in [Bookings -> {"IDLE", "KEEP", "REOPEN"}]
    /\ deleting \in [Bookings -> {"IDLE", "READ", "KEEP", "REOPEN"}]
    /\ off \in {"NO", "BELOW", "AT"}
    /\ recovered \subseteq Bookings
    /\ uncounted \subseteq recovered
    /\ overtaken \in BOOLEAN
    /\ strays \in Nat
    /\ strayed \subseteq Bookings

\* An admin's coupon starts APPROVED, a vendor's PENDING.
Init ==
    /\ terms \in [limit : Limits, platform : BOOLEAN]
    /\ status = IF terms.platform THEN "APPROVED" ELSE "PENDING"
    /\ used = 0
    /\ valid = TRUE
    /\ claim = [c \in Customers |-> "NONE"]
    /\ claiming = {}
    /\ booking = [b \in Bookings |-> "NONE"]
    /\ via = [b \in Bookings |-> "NONE"]
    /\ refunding = [b \in Bookings |-> "IDLE"]
    /\ deleting = [b \in Bookings |-> "IDLE"]
    /\ off = "NO"
    /\ recovered = {}
    /\ uncounted = {}
    /\ overtaken = FALSE
    /\ strays = 0
    /\ strayed = {}

Live(b) == booking[b] \in {"PENDING", "CONFIRMED"}
LiveBookings == {b \in Bookings : Live(b)}
Capped == terms.limit # 0
AtCap == Capped /\ used >= terms.limit

-----------------------------------------------------------------------------
(* A customer claims the voucher of an offer, and books.                   *)

Offered == terms.platform /\ status = "APPROVED" /\ valid /\ ~AtCap

\* claimOffer before its transaction.
ClaimRead(c) ==
    /\ Offered
    /\ c \notin claiming
    /\ claiming' = claiming \cup {c}
    /\ UNCHANGED <<terms, status, used, valid, claim, booking, via, refunding, deleting,
                   history>>

Claims == {c \in Customers : claim[c] # "NONE"}
\* Bug: the claim is not counted again.
RoomToClaimUncounted == ~AtCap
RoomToClaim == ~Capped \/ Cardinality(Claims) < terms.limit

\* Its serializable transaction, which looks at wallets only.
ClaimCommit(c) ==
    /\ c \in claiming
    /\ claiming' = claiming \ {c}
    /\ claim' = IF status # "DELETED" /\ claim[c] = "NONE" /\ RoomToClaim
                THEN [claim EXCEPT ![c] = "OPEN"] ELSE claim
    /\ UNCHANGED <<terms, status, used, valid, booking, via, refunding, deleting,
                   history>>

Redeemable == status = "APPROVED" /\ valid /\ ~AtCap

\* createBooking takes a use; the one that reaches the limit closes the coupon.
Take(b, how) ==
    /\ booking[b] = "NONE"
    /\ Redeemable
    /\ booking' = [booking EXCEPT ![b] = "PENDING"]
    /\ via' = [via EXCEPT ![b] = how]
    /\ used' = used + 1
    /\ status' = IF Capped /\ used + 1 >= terms.limit THEN "EXPIRED" ELSE status
    /\ UNCHANGED <<terms, valid, claiming, refunding, deleting,
                   history>>

InWallet(c) == claim[c] = "OPEN"

BookWithVoucher(b) ==
    /\ InWallet(Owner[b])
    /\ Take(b, "VOUCHER")
    /\ claim' = [claim EXCEPT ![Owner[b]] = "USED"]

\* Bug: a booking that is still unpaid does not count.
UsedBeforePaid(c) == \E b \in LiveBookings : Owner[b] = c /\ booking[b] = "CONFIRMED"
\* Once per customer, over bookings that are not cancelled.
UsedBefore(c) == \E b \in LiveBookings : Owner[b] = c

BookWithCode(b) ==
    /\ ~UsedBefore(Owner[b])
    /\ Take(b, "CODE")
    /\ UNCHANGED claim

\* The capture confirms the booking, whatever has become of the coupon.
Pay(b) ==
    /\ booking[b] = "PENDING"
    /\ refunding[b] = "IDLE"
    /\ booking' = [booking EXCEPT ![b] = "CONFIRMED"]
    /\ UNCHANGED <<terms, status, used, valid, claim, claiming, via, refunding, deleting,
                   history>>

\* What handleCallback audits as PAYMENT_COUPON_INVALID_AT_CONFIRMATION.
CouponInvalid == status # "APPROVED" \/ ~valid \/ AtCap

-----------------------------------------------------------------------------
(* A booking ends, and its use is given back.                              *)

\* Bug: the coupon stays closed after its last use comes back.
ClosedForGood == FALSE
\* Closed by the use that reached the limit: giving one back opens it again.
ClosedByCap == status = "EXPIRED" /\ AtCap /\ valid

WhatToDo == IF ClosedByCap THEN "REOPEN" ELSE "KEEP"

EndsRunning ==
    Cardinality({b \in Bookings : refunding[b] # "IDLE"})
        + Cardinality({b \in Bookings : deleting[b] # "IDLE"})

\* The booking or its payment is claimed by an update that matches its status,
\* so one such end of it runs at a time; then refundCouponUsage reads the
\* coupon.  The hard delete alone claims nothing.
EndRead(b) ==
    /\ Live(b)
    /\ refunding[b] = "IDLE"
    /\ EndsRunning < MaxEnds
    /\ refunding' = [refunding EXCEPT ![b] = WhatToDo]
    /\ UNCHANGED <<terms, status, used, valid, claim, claiming, booking, via, deleting, history>>

\* claimedCoupon.updateMany used: false, however the booking got the coupon.
GiveBackClaim(c) ==
    IF claim[c] = "USED" THEN [claim EXCEPT ![c] = "OPEN"] ELSE claim

\* updateMany where usedCount > 0.
UseToReturn == status # "DELETED" /\ used > 0

\* refundCouponUsage after its read, which told it what to do.
GiveBack(b, toDo) ==
    /\ used' = IF UseToReturn THEN used - 1 ELSE used
    /\ claim' = GiveBackClaim(Owner[b])
    /\ status' = IF UseToReturn /\ toDo = "REOPEN" THEN "APPROVED" ELSE status
    /\ overtaken' = (overtaken \/ toDo # WhatToDo)
    /\ UNCHANGED <<terms, valid, claiming, via, off, recovered, uncounted>>

\* The claimed end's refund, and the booking with it.
ClaimedEnd(b) ==
    /\ refunding[b] # "IDLE"
    /\ GiveBack(b, refunding[b])
    /\ refunding' = [refunding EXCEPT ![b] = "IDLE"]
    /\ UNCHANGED <<deleting, strayVars>>

\* Customer, vendor, admin or cascade cancels it.
Cancel(b) ==
    /\ ClaimedEnd(b)
    /\ booking' = [booking EXCEPT ![b] = "CANCELLED"]

\* The stale-booking cron or a declined payment deletes it.
ReapGuard(b) == booking[b] = "PENDING"
Reap(b) ==
    /\ ReapGuard(b)
    /\ ClaimedEnd(b)
    /\ booking' = [booking EXCEPT ![b] = "REAPED"]

\* A guard inside the transaction fails, or the transaction times out.
EndAborts(b) ==
    /\ refunding[b] # "IDLE"
    /\ refunding' = [refunding EXCEPT ![b] = "IDLE"]
    /\ UNCHANGED <<terms, status, used, valid, claim, claiming, booking, via, deleting, history>>

Twists == Cardinality(recovered) + strays

\* A use is miscounted by a write to a booking that has changed since the read.
Strays(b) ==
    /\ Twists < MaxTwists
    /\ strays' = strays + 1
    /\ strayed' = strayed \cup {b}

\* cancelBooking reads a booking without money before its transaction ...
DeleteRead(b) ==
    /\ Live(b)
    /\ deleting[b] = "IDLE"
    /\ EndsRunning < MaxEnds
    /\ deleting' = [deleting EXCEPT ![b] = "READ"]
    /\ UNCHANGED <<terms, status, used, valid, claim, claiming, booking, via, refunding, history>>

\* ... in which refundCouponUsage reads the coupon ...
DeleteReadsCoupon(b) ==
    /\ deleting[b] = "READ"
    /\ deleting' = [deleting EXCEPT ![b] = WhatToDo]
    /\ UNCHANGED <<terms, status, used, valid, claim, claiming, booking, via, refunding, history>>

RowGone(b) == booking[b] \in {"REAPED", "DELETED"}

\* ... and gives a use back, then booking and payment are deleted by id, also
\* when another end has returned that use already.  The row lock of a claimed
\* end makes it wait.
HardDelete(b) ==
    /\ deleting[b] \in {"KEEP", "REOPEN"}
    /\ ~RowGone(b)
    /\ refunding[b] = "IDLE"
    /\ GiveBack(b, deleting[b])
    /\ booking' = [booking EXCEPT ![b] = "DELETED"]
    /\ deleting' = [deleting EXCEPT ![b] = "IDLE"]
    /\ IF Live(b) THEN UNCHANGED strayVars ELSE Strays(b)
    /\ UNCHANGED refunding

\* Update or delete finds no row, or the transaction fails.
DeleteAborts(b) ==
    /\ deleting[b] # "IDLE"
    /\ deleting' = [deleting EXCEPT ![b] = "IDLE"]
    /\ UNCHANGED <<terms, status, used, valid, claim, claiming, booking, via, refunding, history>>

\* Vendor or admin confirms or completes, by id, a booking that was cancelled
\* after they read it; no use is taken for it again.
Revive(b) ==
    /\ booking[b] = "CANCELLED"
    /\ booking' = [booking EXCEPT ![b] = "CONFIRMED"]
    /\ Strays(b)
    /\ UNCHANGED <<terms, status, used, valid, claim, claiming, via, refunding, deleting,
                   off, recovered, uncounted, overtaken>>

\* Bug: the recovery counts its use over the limit.
RecountsPastCap == status # "DELETED"
\* attemptB2OrphanRecovery writes the booking again and takes a use if there
\* is one left; the status of the coupon is neither read nor written.
Recounts == status # "DELETED" /\ ~AtCap

Recover(b) ==
    /\ booking[b] = "REAPED"
    /\ b \notin recovered
    /\ Twists < MaxTwists
    /\ booking' = [booking EXCEPT ![b] = "CONFIRMED"]
    /\ used' = IF Recounts THEN used + 1 ELSE used
    /\ claim' = IF claim[Owner[b]] = "OPEN" THEN [claim EXCEPT ![Owner[b]] = "USED"] ELSE claim
    /\ recovered' = recovered \cup {b}
    /\ uncounted' = IF Recounts THEN uncounted ELSE uncounted \cup {b}
    /\ UNCHANGED <<terms, status, valid, claiming, via, refunding, deleting, off,
                   overtaken, strayVars>>

-----------------------------------------------------------------------------
(* Admins and crons.                                                       *)

\* updateCouponStatus: any of the three, from any.
AdminSets(to) ==
    /\ status # "DELETED"
    /\ to \in {"PENDING", "APPROVED", "EXPIRED"} \ {status}
    /\ status' = to
    /\ off' = IF to = "APPROVED" THEN "NO" ELSE IF AtCap THEN "AT" ELSE "BELOW"
    /\ UNCHANGED <<terms, used, valid, claim, claiming, booking, via, refunding,
                   deleting, recovered, uncounted, overtaken, strayVars>>

\* The coupon's claims go with it.
Gone ==
    /\ status' = "DELETED"
    /\ used' = 0
    /\ claim' = [c \in Customers |-> "NONE"]
    /\ UNCHANGED <<terms, valid, claiming, booking, via, refunding, deleting,
                   history>>

AdminDeletes == status # "DELETED" /\ Gone

ValidToPasses ==
    /\ valid
    /\ valid' = FALSE
    /\ UNCHANGED <<terms, status, used, claim, claiming, booking, via, refunding, deleting,
                   history>>

AutoExpire ==
    /\ status = "APPROVED"
    /\ ~valid
    /\ status' = "EXPIRED"
    /\ UNCHANGED <<terms, used, valid, claim, claiming, booking, via, refunding, deleting,
                   history>>

CleanOldExpired == status = "EXPIRED" /\ ~valid /\ Gone

-----------------------------------------------------------------------------

Customer ==
    \/ \E c \in Customers : ClaimRead(c) \/ ClaimCommit(c)
    \/ \E b \in Bookings : BookWithVoucher(b) \/ BookWithCode(b) \/ Pay(b)

End(b) == EndRead(b) \/ Cancel(b) \/ Reap(b) \/ EndAborts(b)

Delete(b) == DeleteRead(b) \/ DeleteReadsCoupon(b) \/ HardDelete(b) \/ DeleteAborts(b)

Office ==
    \/ \E to \in {"PENDING", "APPROVED", "EXPIRED"} : AdminSets(to)
    \/ AdminDeletes \/ ValidToPasses \/ AutoExpire \/ CleanOldExpired

Next ==
    \/ Customer
    \/ \E b \in Bookings : End(b) \/ Delete(b) \/ Revive(b) \/ Recover(b)
    \/ Office

Spec == Init /\ [][Next]_vars

-----------------------------------------------------------------------------
(* What the coupon promises.                                               *)

\* usedCount never passes usageLimit, and it is the number of bookings that
\* live with the coupon, short of those that a recovery brought back when no
\* use was left for them, and of the uses that writes on an old read of a
\* booking returned twice or did not take.
UsesCounted ==
    status # "DELETED" =>
        /\ Capped => used <= terms.limit
        /\ Cardinality(LiveBookings) - used \in 0..(Cardinality(uncounted) + strays)

\* A coupon with time left is closed below its limit only if an admin closed
\* it, or if a refund worked on a coupon that changed under it.
ClosedForAReason ==
    status = "EXPIRED" /\ valid /\ ~AtCap => off # "NO" \/ overtaken

\* A coupon that an admin switched off below its limit comes back only by a
\* refund that worked on an old read, or after a recovery filled it up.
OffStaysOff ==
    off = "BELOW" /\ status = "APPROVED" => overtaken \/ recovered # {}

\* A used voucher has a live booking to show for it: every end of the booking,
\* the hard delete too, puts the voucher back into the wallet.
VoucherNotLost ==
    \A c \in Customers : claim[c] = "USED" => \E b \in LiveBookings : Owner[b] = c

Typed(c) == \E b \in Bookings : Owner[b] = c /\ via[b] = "CODE"

\* One voucher pays for one live booking, and is in the wallet or on it, if
\* its owner never typed the code and none of their bookings was recovered or
\* written on an old read of it.
VoucherSpentOnce ==
    \A c \in Customers :
        Typed(c) \/ (\E b \in recovered \cup strayed : Owner[b] = c) \/ status = "DELETED"
        \/ Cardinality({b \in LiveBookings : Owner[b] = c})
              <= IF claim[c] = "USED" THEN 1 ELSE 0

\* A customer types the code for one live booking at a time, apart from
\* bookings that a recovery or a staff change brought back.
TypedOnce ==
    \A c \in Customers :
        Cardinality({b \in LiveBookings \ (recovered \cup strayed) : Owner[b] = c /\ via[b] = "CODE"}) <= 1

\* A customer's right to one use is neither lost nor used twice.
OneUseEach == VoucherNotLost /\ VoucherSpentOnce /\ TypedOnce

\* No more wallets hold the voucher than it may be used, even when customers
\* claim at the same time.
ClaimsCapped == Capped => Cardinality(Claims) <= terms.limit

-----------------------------------------------------------------------------
(* What the code's comments say and the code does not do.                  *)

\* "so a limited voucher can't be added to more wallets than it can ever
\* serve" (offers.controller.ts): a typed code takes a use a wallet counts on.
WalletServed ==
    Capped /\ status # "DELETED" =>
        Cardinality({c \in Customers : claim[c] = "OPEN"}) <= terms.limit - used

\* "Refund the coupon usage so usage counters stay accurate"
\* (updateBookingStatus of vendor.service.ts).
UsageAccurate ==
    status # "DELETED" /\ recovered = {} => used = Cardinality(LiveBookings)

\* "Once the cap is hit the coupon is permanently closed" (createBooking).
CapCloses ==
    [][status = "EXPIRED" /\ AtCap => status' # "APPROVED" \/ AdminSets("APPROVED")]_vars

\* "Tight guards so we never resurrect an admin-rejected or time-expired
\* coupon" (refundCouponUsage).
NeverResurrected == off # "NO" => status # "APPROVED"

\* "otherwise a single-use voucher stays dead forever after the booking that
\* claimed it is cancelled" (refundCouponUsage).
NeverDead == status = "EXPIRED" /\ valid /\ ~AtCap => off # "NO"

\* PAYMENT_COUPON_INVALID_AT_CONFIRMATION tells of validTo passed, of an admin
\* who un-approved the coupon or of another customer's use (handleCallback).
AlarmMeansInvalid ==
    [][\A b \in Bookings :
          booking[b] = "PENDING" /\ booking'[b] = "CONFIRMED" /\ CouponInvalid
             => \/ ~valid
                \/ off # "NO"
                \/ status = "DELETED"
                \/ \E c \in LiveBookings : Owner[c] # Owner[b]]_vars
=============================================================================
