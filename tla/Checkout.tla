------------------------------ MODULE Checkout ------------------------------
(* One visit to the booking page (web: activity/[slug]/book/page.tsx): the *)
(* form, the total it shows, and the booking that createBooking makes of   *)
(* it (bookings.service.ts), with the idempotency key that the page keeps  *)
(* for the visit.  Money is in cents.  The page computes in fractions of a *)
(* cent and rounds at the end, the server rounds each amount; an amount of *)
(* the page is a numerator over Den.                                       *)
(*                                                                         *)
(* The program computes with doubles of riyals.  Amounts are small enough  *)
(* that a double is off by far less than the distance of two fractions     *)
(* that differ, so the error is seen only where a fraction is exactly on a *)
(* boundary: an exact half cent rounds either way (Roundings), and points  *)
(* that cover the price exactly may fall short of it (Shown).              *)
EXTENDS Integers, FiniteSets, FiniteSetsExt

CONSTANTS
    Offers,     \* pairs of an activity and the terms of a coupon
    Dates,      \* a range of days
    Month,      \* the month of each day
    Cheap,      \* the special price
    Balance     \* loyalty points of the customer; one point is one cent

VARIABLES
    activity, deal,
    form,       \* what the customer has picked on the page, and the calendars it has fetched
    asked,      \* the discount that a running validate-coupon call will answer, or None
    special,    \* the server's special price of each day, or 0
    request,    \* the booking request the page waits for: NONE, SENT, CHECKED for its key,
                \* or DONE; it carries the form, which stands still meanwhile
    late,       \* a request the page has given up on: NONE, SENT, or CHECKED for its key
    row,        \* the booking with the key: NONE, MINE, EARLIER; CANCELLED or GONE
    made,       \* history: booking rows written with the key that still exist
    page,       \* FORM, or the booking the page went to: MINE, EARLIER or CANCELLED
    raced,      \* history: the voucher was picked while a code was being validated
    edited      \* history: the form was edited after an answer was lost

vars == <<activity, deal, form, asked, special, request, late, row,
          made, page, raced, edited>>
server == <<special, late, row, made>>
fixed == <<activity, deal>>

None == -1

\* Sold by the day with a minimum stay of dur nights (0 for none), or by the
\* hour from dur hours on; offers are the days the vendor may give a special
\* price meanwhile.
Activities == [daily : BOOLEAN, perUnit : BOOLEAN, dur : Nat, price : Nat, fee : Nat,
               extra : Nat, perPerson : BOOLEAN, capacity : Nat \ {0},
               days : SUBSET Dates, offers : SUBSET Dates]
\* A percentage in two decimals, at most cap unless that is 0, or an amount;
\* from min on.
Whole == 10000
Deals == [pct : 0..Whole, cap : Nat, off : Nat, min : Nat]

ASSUME CheckoutAssumption ==
    /\ Dates \subseteq Nat /\ Dates # {} /\ IsFiniteSet(Dates)
    /\ Month \in [Dates -> Nat]
    /\ Offers \subseteq Activities \X Deals
    /\ \A o \in Offers : ~o[1].daily => o[1].dur > 0
    /\ Balance \in Nat /\ Cheap \in Nat \ {0}

-----------------------------------------------------------------------------
(* Prices.                                                                 *)

\* n / d rounded, an exact half up, as Math.round does; and down.
RoundDiv(n, d) == (2 * n + d) \div (2 * d)
RoundDown(n, d) == (2 * n + d - 1) \div (2 * d)
\* What Math.round makes of a double that is about n / d.
Roundings(n, d) == {RoundDiv(n, d), RoundDown(n, d)}
Min2(a, b) == IF a < b THEN a ELSE b
Max2(a, b) == IF a < b THEN b ELSE a

Den == IF activity.daily THEN 1 ELSE activity.dur
Persons(guests) == IF activity.perUnit THEN 1 ELSE guests
PriceOn(d, prices) == IF d # None /\ prices[d] # 0 THEN prices[d] ELSE activity.price

\* The nights of a stay, the last day being the check-out.
Nights(f) == {d \in Dates : f.from <= d /\ d < f.to}

\* Numerator over Den of the price of f under prices, add-ons left out: each
\* night at its own price, or the day's price by the hour.  What is not picked
\* yet counts as one night, or as the shortest range.
Base(f, prices) ==
    IF activity.daily
    THEN IF f.to = None THEN PriceOn(f.from, prices)
         ELSE LET price == [d \in Nights(f) |-> PriceOn(d, prices)]
              IN MapThenSumSet(LAMBDA d : price[d], Nights(f))
    ELSE PriceOn(f.from, prices) * Max2(activity.dur, f.to) * Persons(f.guests)

\* The server prices extras by a quantity it corrects itself.
ServerQty(f) ==
    IF f.extra = 0 THEN 0 ELSE IF activity.perPerson THEN Min2(f.extra, f.guests) ELSE 1
ServerTotal(f) == RoundDiv(Base(f, special), Den) + activity.extra * ServerQty(f)

\* The discounts on n / d cents, rounded (createBooking, validateCoupon and the
\* voucher buttons have the same formula, and may round a half cent apart).
Capped(part) == IF deal.cap > 0 THEN Min2(part, deal.cap) ELSE part
Discounts(n, d) ==
    IF deal.pct > 0
    THEN {Capped(part) : part \in Roundings(n * deal.pct, Whole * d)}
    ELSE Roundings(Min2(deal.off * d, n), d)

Selected(f) == f.from \in Dates /\ f.to # None

\* createBooking refuses two codes, and a total below the coupon's minimum.
Coded(f) == f.coupon # None \/ f.voucher # None
Accepted(f) ==
    /\ f.coupon = None \/ f.voucher = None
    /\ Coded(f) => ServerTotal(f) >= deal.min
ServerDiscounts(f) == IF Coded(f) THEN Discounts(ServerTotal(f), 1) ELSE {0}

\* What createBooking charges the card, all in whole cents.
Charge(f, redeem, discount) ==
    LET price == ServerTotal(f) - discount
        covers == redeem > 0 /\ redeem >= price
        points == IF covers THEN price ELSE redeem
        fee == IF covers THEN 0 ELSE activity.fee
    IN Max2(0, price + fee - points)

-----------------------------------------------------------------------------
(* The totals of the page.                                                 *)

\* Only the two months in view are known to the page; a day of another month
\* falls back to the activity's price.
SeenPrices(f) ==
    [d \in Dates |-> IF Month[d] \in {f.view, f.view + 1} THEN f.calendar[d] ELSE 0]
Cost(f) == Base(f, SeenPrices(f)) + activity.extra * f.extra * Den

\* The discount is the one computed when the code or the voucher was applied.
CouponPart(f) == IF f.coupon # None THEN f.coupon ELSE Max2(0, f.voucher)
Payable(f) == Max2(0, Cost(f) - CouponPart(f) * Den)
Redeemables(f) == {Min2(Balance, required) : required \in Roundings(Payable(f), Den)}
CanUsePoints(f) == Selected(f) /\ \E redeem \in Redeemables(f) : redeem >= 1
Redeems(f) == IF f.points THEN Redeemables(f) ELSE {0}

\* serviceFeeWaived: points that are worth the price to the cent may be less
\* than the double that stands for it.
ShownFees(f, redeem) ==
    LET covers == redeem > 0 /\ Payable(f) > 0 /\ redeem * Den >= Payable(f)
    IN (IF covers THEN {0} ELSE {activity.fee})
         \cup (IF redeem * Den = Payable(f) THEN {activity.fee} ELSE {})

\* cashDue.
Shown(f, redeem) ==
    LET points == Min2(redeem * Den, Payable(f))
        owed(fee) == Max2(0, Cost(f) + fee * Den - CouponPart(f) * Den - points)
    IN UNION {Roundings(owed(fee), Den) : fee \in ShownFees(f, redeem)}

\* Bug: extras stay when guests leave.
ClampedNever(f) == f.extra
\* The effects that run after a change: extras and points follow.
ClampedExtra(f) == IF activity.perPerson THEN Min2(f.extra, f.guests) ELSE f.extra
Settle(f) ==
    LET g == [f EXCEPT !.extra = ClampedExtra(f)]
    IN [g EXCEPT !.points = @ /\ CanUsePoints(g)]

-----------------------------------------------------------------------------

Forms == [from : Dates \cup {None}, to : Nat \cup {None}, guests : 1..activity.capacity,
          extra : 0..activity.capacity, coupon : Nat \cup {None}, voucher : Nat \cup {None},
          points : BOOLEAN, view : Nat, calendar : [Dates -> {0, Cheap}]]

\* Every variable keeps its type.
TypeOK ==
    /\ <<activity, deal>> \in Offers
    /\ form \in Forms
    /\ asked \in Nat \cup {None}
    /\ special \in [Dates -> {0, Cheap}]
    /\ raced \in BOOLEAN /\ edited \in BOOLEAN
    /\ request \in {"NONE", "SENT", "CHECKED", "DONE"}
    /\ late \in {"NONE", "SENT", "CHECKED"}
    /\ row \in {"NONE", "MINE", "EARLIER", "CANCELLED", "GONE"}
    /\ made \in 0..2
    /\ page \in {"FORM", "MINE", "EARLIER", "CANCELLED"}

Init ==
    /\ \E offer \in Offers : activity = offer[1] /\ deal = offer[2]
    /\ asked = None
    /\ special = [d \in Dates |-> 0]
    /\ form = [from |-> None, to |-> None, guests |-> 1, extra |-> 0, coupon |-> None,
               voucher |-> None, points |-> FALSE, view |-> Month[Min(Dates)],
               calendar |-> special]
    /\ raced = FALSE /\ edited = FALSE
    /\ request = "NONE"
    /\ late = "NONE" /\ row = "NONE" /\ made = 0
    /\ page = "FORM"

-----------------------------------------------------------------------------
(* The customer at the form, while no request is pending.                  *)

Edit(f) ==
    /\ page = "FORM"
    /\ request = "NONE"
    /\ f # form
    /\ form' = Settle(f)
    /\ edited' = (edited \/ late # "NONE" \/ row \in {"EARLIER", "CANCELLED"})
    /\ UNCHANGED <<fixed, server, request, page>>
Idle == UNCHANGED <<asked, raced>>

MinCheckout(d) == d + activity.dur
\* A later day extends the stay; one too soon snaps back to the minimum.
CheckoutFor(d, day) == IF day - d < activity.dur THEN MinCheckout(d) ELSE day

\* handleDailyDateSelect, dur being the minimum stay, 0 for none: the same day
\* clears the stay, a first or earlier one starts it, a later one ends it.
PickDay(day) ==
    LET from == form.from
        starts == from = None \/ day < from \/ (activity.dur = 0 /\ form.to # None)
    IN
    /\ activity.daily /\ day \in activity.days
    /\ starts => MinCheckout(day) \in Dates
    /\ Edit(IF day = from THEN [form EXCEPT !.from = None, !.to = None]
            ELSE IF starts
            THEN [form EXCEPT !.from = day,
                              !.to = IF activity.dur = 0 THEN None ELSE MinCheckout(day)]
            ELSE [form EXCEPT !.to = CheckoutFor(from, day)])
    /\ Idle

\* handleHourlyDateSelect forgets the hours; the picker sets them again.
PickDate(day) ==
    /\ ~activity.daily /\ day \in activity.days
    /\ Edit([form EXCEPT !.from = day, !.to = None])
    /\ Idle
PickHours(hours) ==
    /\ ~activity.daily /\ form.from # None
    /\ Edit([form EXCEPT !.to = hours])
    /\ Idle

SetGuests(n) == Edit([form EXCEPT !.guests = n]) /\ Idle

\* Per person up to the guests, else a checkbox.
SetExtra(n) ==
    /\ activity.extra > 0
    /\ n <= IF activity.perPerson THEN form.guests ELSE 1
    /\ Edit([form EXCEPT !.extra = n])
    /\ Idle

Browse(month) == Edit([form EXCEPT !.view = month]) /\ Idle

TogglePoints ==
    /\ CanUsePoints(form)
    /\ Edit([form EXCEPT !.points = ~form.points])
    /\ Idle

\* The input is on the page only without a code and without a voucher.
CodeInputShown == form.coupon = None /\ form.voucher = None

\* handleApplyCoupon sends today's cost; the API answers with a discount.
ApplyCoupon ==
    /\ page = "FORM" /\ request = "NONE"
    /\ CodeInputShown /\ asked = None
    /\ Cost(form) >= deal.min * Den
    /\ \E discount \in Discounts(Cost(form), Den) : asked' = discount
    /\ UNCHANGED <<fixed, server, form, request, page, raced, edited>>

\* The answer is applied to whatever the form has become.
CouponAnswered ==
    /\ asked # None
    /\ Edit([form EXCEPT !.coupon = asked])
    /\ asked' = None
    /\ UNCHANGED raced
CouponFails ==
    /\ asked # None
    /\ asked' = None
    /\ raced' = FALSE
    /\ UNCHANGED <<fixed, server, form, request, page, edited>>
RemoveCoupon ==
    /\ form.coupon # None
    /\ Edit([form EXCEPT !.coupon = None])
    /\ raced' = FALSE
    /\ UNCHANGED asked

\* A voucher's button: shown without a code, dead below the minimum order.
PickVoucher ==
    /\ form.coupon = None /\ form.voucher = None
    /\ Cost(form) >= deal.min * Den
    /\ \E discount \in Discounts(Cost(form), Den) : Edit([form EXCEPT !.voucher = discount])
    /\ raced' = (asked # None)
    /\ UNCHANGED asked
RemoveVoucher ==
    /\ form.voucher # None
    /\ Edit([form EXCEPT !.voucher = None])
    /\ raced' = FALSE
    /\ UNCHANGED asked

\* submitWithPhone.
Submit ==
    /\ page = "FORM" /\ request = "NONE"
    /\ Selected(form)
    /\ request' = "SENT"
    /\ UNCHANGED <<fixed, server, form, asked, page, raced, edited>>

-----------------------------------------------------------------------------
(* createBooking.  The key is looked up before the transaction; the unique *)
(* index on it decides between requests that both found nothing.           *)

Taken == row \notin {"NONE", "GONE"}
\* Bug: the index is missing.
WritableAlways == TRUE
Writable == ~Taken

RequestFinds ==
    /\ request = "SENT"
    /\ request' = IF Taken THEN "DONE" ELSE "CHECKED"
    /\ UNCHANGED <<fixed, server, form, asked, page, raced, edited>>

RequestCommits ==
    /\ request = "CHECKED"
    /\ Accepted(form) /\ Writable
    /\ row' = "MINE"
    /\ made' = made + 1
    /\ request' = "DONE"
    /\ UNCHANGED <<fixed, form, asked, special, late, page, raced, edited>>

\* Any of the other checks may fail as well: capacity, blocks, time-outs.  The
\* page shows the error and stays.
RequestRefused ==
    /\ request \in {"SENT", "CHECKED"}
    /\ request' = "NONE"
    /\ UNCHANGED <<fixed, server, form, asked, page, raced, edited>>

\* onSuccess leaves for the booking.
Answered ==
    /\ request = "DONE"
    /\ page' = IF row \in {"MINE", "EARLIER", "CANCELLED"} THEN row ELSE "CANCELLED"
    /\ request' = "NONE"
    /\ UNCHANGED <<fixed, server, form, asked, raced, edited>>

\* The connection breaks: the page shows an error and the server goes on.
Lost ==
    /\ request \in {"SENT", "CHECKED", "DONE"}
    /\ late = "NONE"
    /\ late' = IF request = "DONE" THEN "NONE" ELSE request
    /\ row' = IF row = "MINE" THEN "EARLIER" ELSE row
    /\ request' = "NONE"
    /\ edited' = FALSE
    /\ UNCHANGED <<fixed, form, asked, special, made, page, raced>>

LateFinds ==
    /\ page = "FORM"
    /\ late = "SENT"
    /\ late' = IF Taken THEN "NONE" ELSE "CHECKED"
    /\ UNCHANGED <<fixed, form, asked, special, request, row, made, page,
                   raced, edited>>
LateCommits ==
    /\ page = "FORM"
    /\ late = "CHECKED"
    /\ late' = "NONE"
    /\ row' = IF Writable THEN "EARLIER" ELSE row
    /\ made' = IF Writable THEN made + 1 ELSE made
    /\ UNCHANGED <<fixed, form, asked, special, request, page, raced, edited>>
LateFails ==
    /\ page = "FORM"
    /\ late # "NONE"
    /\ late' = "NONE"
    /\ UNCHANGED <<fixed, form, asked, special, request, row, made, page,
                   raced, edited>>

\* The booking is cancelled by its vendor, or its hold lapses and the row goes.
RowEnds(to) ==
    /\ page = "FORM"
    /\ row \in {"MINE", "EARLIER"}
    /\ row' = to
    /\ made' = IF to = "GONE" THEN made - 1 ELSE made
    /\ UNCHANGED <<fixed, form, asked, special, late, request, page, raced, edited>>

-----------------------------------------------------------------------------
(* Meanwhile.                                                              *)

VendorReprices(d) ==
    /\ page = "FORM"
    /\ d \in activity.offers
    /\ special' = [special EXCEPT ![d] = IF @ = 0 THEN Cheap ELSE 0]
    /\ UNCHANGED <<fixed, form, asked, late, request, row, made, page, raced, edited>>

CalendarsRefetched ==
    /\ page = "FORM" /\ request = "NONE"
    /\ form.calendar # special
    /\ form' = Settle([form EXCEPT !.calendar = special])
    /\ UNCHANGED <<fixed, server, asked, request, page, raced, edited>>

-----------------------------------------------------------------------------

Customer ==
    \/ \E d \in Dates : PickDay(d) \/ PickDate(d)
    \/ \E h \in 0..1 : PickHours(activity.dur + h)
    \/ \E n \in 1..activity.capacity : SetGuests(n)
    \/ \E n \in 0..activity.capacity : SetExtra(n)
    \/ \E d \in Dates : Browse(Month[d])
    \/ TogglePoints \/ ApplyCoupon \/ CouponAnswered \/ CouponFails \/ RemoveCoupon
    \/ PickVoucher \/ RemoveVoucher
    \/ Submit

Api ==
    \/ RequestFinds \/ RequestCommits \/ RequestRefused \/ Answered
    \/ Lost \/ LateFinds \/ LateCommits \/ LateFails

Next ==
    \/ Customer
    \/ Api
    \/ \E to \in {"CANCELLED", "GONE"} : RowEnds(to)
    \/ \E d \in Dates : VendorReprices(d)
    \/ CalendarsRefetched

Spec == Init /\ [][Next]_vars

-----------------------------------------------------------------------------
(* What the page promises the customer.                                    *)

\* The discount shown is one of the present cost, and the prices shown are the
\* server's.
Fresh ==
    /\ form.coupon \in {None} \cup Discounts(Cost(form), Den)
    /\ form.voucher \in {None} \cup Discounts(Cost(form), Den)
    /\ \A d \in Nights(form) \cup {form.from} : SeenPrices(form)[d] = special[d]

WholeCents == Cost(form) % Den = 0

\* Whole cents, and a discount that is not on a half cent.
Even ==
    /\ WholeCents
    /\ Coded(form) => \A a, b \in Discounts(Cost(form), Den) : a = b

\* What the page shows is what the card is charged, whatever mix of hours,
\* nights, guests, extras, discount and points, whichever way the doubles err:
\* to the cent when the amounts are even, but for the fee that the page may add
\* and the server waives when points cover the price exactly; within a cent when
\* they are not even, points moving the fee as well.
ShownIsCharged ==
    Selected(form) /\ Fresh /\ Accepted(form) =>
        \A redeem \in Redeems(form), discount \in ServerDiscounts(form) :
            LET charge == Charge(form, redeem, discount)
                slack == 1 + IF redeem > 0 THEN activity.fee ELSE 0
            IN \A shown \in Shown(form, redeem) :
                  \/ shown = charge
                  \/ ~Even /\ charge - slack <= shown /\ shown <= charge + slack
                  \/ /\ redeem > 0 /\ redeem * Den = Payable(form)
                     /\ shown = activity.fee /\ charge = 0

\* A form never carries both a code and a voucher, which createBooking refuses,
\* unless the voucher was picked while the code was being validated.
CodesExclusive == form.coupon # None /\ form.voucher # None => raced

\* One visit writes one booking, however often it is sent, lost and sent again
\* and in whatever order the requests run.
OneBooking == made <= 1

\* No click leaves a stay shorter than the activity's minimum.
MinimumStay ==
    activity.daily /\ form.to # None => form.to - form.from >= Max2(1, activity.dur)

-----------------------------------------------------------------------------
(* What the code's comments say and the code does not do.                  *)

\* "We mirror that here so the UI preview matches the charge the server
\* records" (book/page.tsx): with the discount of an earlier cost, a special
\* price out of view, a third of a cent, or a half cent, it does not.
PreviewIsCharge ==
    request # "NONE" /\ Accepted(form) =>
        \A redeem \in Redeems(form), discount \in ServerDiscounts(form) :
            Shown(form, redeem) = {Charge(form, redeem, discount)}

\* "The platform waives this fee as a loyalty incentive -- the backend mirrors
\* this rule" (book/page.tsx): points that cover the price to the cent may leave
\* the fee on the page.
WaivedAlike ==
    Selected(form) /\ Fresh /\ Accepted(form) /\ Even =>
        \A redeem \in Redeems(form), discount \in ServerDiscounts(form) :
            Shown(form, redeem) = {Charge(form, redeem, discount)}

\* A visit ends at the booking that was on the form: after a lost answer the
\* key brings back the first booking, whatever has been changed since.
AnswerIsTheForm == page # "FORM" /\ edited => page = "MINE"
=============================================================================
