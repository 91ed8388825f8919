# Jadwal in TLA+

Models, model-checking runs and proofs for AL Jadwal: `apps/api` (NestJS, Prisma on
PostgreSQL, Redis; PAY2M as the card gateway) and the parts of `apps/web` (Next.js) that take
part in its protocols. Paths are relative to the repository; `bookings.service.ts` and the
like are the services under `apps/api/src/`.

| file | what it is |
|---|---|
| `BookingPayment.tla` | a booking, its payment, its ledger rows, and everyone who changes them |
| `MoneyPromise.tla` | what customers are promised about money and points; `BookingPayment` implements it |
| `PaymentInitiation.tla` | the hand-off of a payment to the gateway, under a Redis lock |
| `Payouts.tla` | a vendor's payout requests and the wire |
| `Coupons.tla` | a coupon, the wallets that claimed it, and the bookings that use it |
| `Availability.tla` | units, seats, blocks and edits of an activity, and the views of what is left |
| `Checkout.tla` | one visit to the booking page: the total it shows, the booking it makes |
| `Sessions.tla` | refresh-token families, tabs that refresh at once, everything that ends a session |
| `VersionedCache.tla` | the availability and reference-data caches |
| `CircuitBreaker.tla`, `EmailOutbox.tla` | the breaker, and the outbox that sends through it |
| `*Proofs.tla` | theorems, for all values of the constants (section 6) |
| `Sums.tla` | lemmas about sums over finite sets, for the proofs |
| `MC*.tla` and the `.cfg` files of section 4 | instances for TLC |
| `Find*.cfg` | instances that end in a counterexample, to be run by hand (section 5) |
| `PROJECT.json` | components, runs, mutants, source lines of every definition, hazards, theorems |

To check: `tlc -config BookingStaff.cfg MCBookingPayment`, `tlapm SessionsProofs.tla`.

## 1. The system

A customer books a slot of an activity (an hour range, or a range of days), pays by card
at PAY2M's hosted page, by loyalty points, or by both. A booking that waits for its
payment holds its seat until `reservedUntil`. PAY2M answers by callbacks and IPNs, late,
repeated or not at all. Vendors and admins confirm, complete and cancel bookings, edit and
block activities, decide refunds and settle payouts. Crons clean up, award points and
complete. PostgreSQL holds all state that matters; Redis holds locks, caches, the session
denylist and rate limits, and nearly every use of it fails open. Several API processes run at
once; only the circuit breakers and pending recoveries live in a process.

| component | state | operations | model |
|---|---|---|---|
| booking lifecycle (`bookings.service.ts`) | `Booking.status`, `reservedUntil`, `cancelledBy`, `pointsRedeemed` | `createBooking`, `cancelBooking`, `recordRefundDecision` | `BookingPayment`; seats, coupon and price in the models of those |
| callbacks and recovery (`payment.service.ts`) | `Payment.status`, `gatewayTxnId`, `bookingRecreatedAt` | `handleCallback`, `holdNapsSuccess`, `attemptB2OrphanRecovery`, `queueB2Refund` | `BookingPayment` |
| initiation (`payment.service.ts`) | `gatewayBasketId`, the lock key | `initiatePayment` | `PaymentInitiation`, and as one step in `BookingPayment` |
| crons (`cleanup.service.ts`) | | stale bookings, award, completion, coupon expiry and removal; retention | all but retention, in `BookingPayment` and `Coupons` |
| loyalty ledger (`loyalty.service.ts`) | `LoyaltyLedger`, `User.loyaltyPoints` | earn, redeem, return, reverse, adjust | which rows a booking writes |
| staff changes (`vendor.service.ts`, `admin.service.ts`) | the booking rows | `updateBookingStatus`, `cascadeCancelFutureBookings` | `BookingPayment` |
| payouts (same files) | `PayoutRequest`, `Payment.payoutStatus` | request, approve, reject, complete, reopen, delete, mark paid and unpaid | `Payouts` |
| coupons and vouchers (`bookings`, `offers`, `admin`, `cleanup`) | `Coupon.usedCount`, `status`; `ClaimedCoupon` | claim, use, return, recover, decide, expire, remove | `Coupons` |
| availability (`bookings.service.ts`, `hour-range-picker.tsx`, `booking-calendar.tsx`) | derived from bookings and blocks | slots, stay, calendar, pickers, capacity checks | `Availability` |
| units, blocks, edits (`assign-missing-units.ts`, `activity-blocks.logic.ts`, `vendor`, `admin`) | `unitNumber`, `ActivityBlock`, the activity's configuration | assign, block, unblock, edit, approve | `Availability` |
| checkout page (`activity/[slug]/book/page.tsx`) | the form, the idempotency key | price preview, coupon, voucher, points, submit, retry | `Checkout` |
| sessions (`auth.service.ts`, `session-denylist.service.ts`, `jwt.strategy.ts`, `api.ts`) | `RefreshToken` rows, denylist keys, cookies | login, rotate, detect reuse, revoke, the client's refresh queue | `Sessions` |
| caches (`availability-cache`, `reference-data-cache`) | version and entries in Redis | get, set, invalidate | `VersionedCache` |
| circuit breaker (`circuit-breaker.ts`) | counts and state per process | `run` | `CircuitBreaker`, used by `EmailOutbox` |
| e-mail outbox (`outbox-drain.service.ts`, `email.service.ts`) | `EmailOutbox` rows, leader lock | enqueue, drain, send, retry, give up | `EmailOutbox` |
| Redis locks (`redis-lock.service.ts`) | lock keys with a TTL | acquire, release, leader | in `PaymentInitiation` and `EmailOutbox` |
| booking e-mail code, quota and suppression, reconciliation, throttling, notifications, push, audit log, catalog, geo, user and vendor CRUD, uploads, the other pages, deployment | | | not modelled, see section 8 |

### How the parts meet

The booking row and the payment row are written by five parties that do not know of each other: the
customer's requests, the gateway's callbacks, the stale-booking cron, staff, and the callback's own
recovery, which runs after its commit. Each reads first, decides, and then opens a transaction, and
two of them write by id what the read has allowed. What keeps them apart is (a) guards inside the
transactions (`updateMany ... where status = ...`, counted), (b) the unique index on
`LoyaltyLedger(bookingId, source)`, which makes a repeated credit abort its transaction, and (c)
serializable isolation of `createBooking`, of the orphan recovery, of the voucher claim, of changes
of units and of `requestPayout`. The same transactions carry the coupon's count, the seat and the
unit; each has a model of its own, with the booking's life reduced to what it reads of it. The
payout workflow reads `Payment.status` and writes `payoutStatus`; a cancel reads `payoutStatus` to
tell an admin of a clawback. Commits that change what is left call `invalidate` on the cache, after
the commit. A session is a family of refresh-token rows; the API believes an access token until it
expires unless its family is on the denylist.

### What is hard

- A capture can come after a decline, a cancel or the cron, for a booking that no longer
  exists; a basket can be charged twice; a callback can be replayed at any time.
- A NAPS (local debit) success arrives hours before its capture: it must keep the seat, not
  confirm, and not keep it for ever.
- Points are given back by five different paths and taken again by one; a coupon's use by four
  and one, READ COMMITTED, with a counter and a status that are read first and written later.
- The recovery exists only in the memory of the process that committed.
- A cascade and the cron work on a batch read before their transactions.
- Status changes of the staff and the hard delete of an unpaid booking are written by id, whatever
  the rows have become since they were read.
- Payout approval, completion and reopening are separate requests of several admins, and
  payments are refunded or wired between them.
- Four pieces of code compute what is left of a day, two of them in the browser; vendors change
  units, capacity and blocks while bookings and requests exist.
- The price of a booking is computed in doubles, once by the page and once by the server.
- Two tabs share one refresh cookie; an answer may get lost; sessions are ended by seven kinds
  of call while others are being refreshed.
- A cache entry is read from the database before a change and stored after it; a lock outlives
  or is outlived by its holder; a breaker is probed by calls that were admitted at another time.

`PROJECT.json` lists each of these hazards at its line, with the property that covers it or the
reason why none does.

## 2. The models of money

### BookingPayment

All bookings of the model ask for the same slot, one guest each. A database transaction is
one action. What a handler read before its transaction, or before an update by id, is kept in a
variable, so that any step may come between:

- `cancelRead`: the branches that running `cancelBooking` calls have chosen, from two tabs if need
  be. The paid branches count the rows they update; the branch for an unpaid booking deletes booking
  and payment by id (`bookings.service.ts:2684-2710`) and the model's `HardDelete` does so too,
  whatever the rows have become.
- `staffRead`: the status changes that running `updateBookingStatus` calls have allowed
  (`vendor.service.ts:544`, `admin.service.ts:1385`). `StaffCommit` writes them by id
  (`vendor.service.ts:634`, `admin.service.ts:1467`), over a cancel that has committed since as
  well. A cancel by the staff claims the row under any status but CANCELLED, inside its transaction,
  and is one step.
- `captureRead`: the capture of a FAILED payment whose callback has found a live booking
  (`payment.service.ts:1149`) and will confirm it by id (line 1183). For a PENDING payment the
  update of the payment row, which cancels and the cron update as well, makes the transaction one
  step.
- `cascadeRead`: the payment status that the cascade saw. `cronScan`: the rows that the cron saw.
- `recovery`: what a callback has left to do after its commit.

Five accidents follow from these and from crashes. The history `mishaps` remembers them per
booking, no step depends on it, and a property that one of them breaks names it: ERASED (a hard
delete took rows that had been paid or cancelled), REVIVED (an update by id brought a cancelled
booking back), OVERLOOKED (a cascade cancelled a booking without the capture that came after its
read), EARLY (an admin completed a booking before its slot) and CRASHED (the process died with a
recovery to run). The run `staff` reaches all five; section 5 shows what they cost.

| variable | code |
|---|---|
| `booking`, `cancelledBy`, `payment`, `awarded`, `payout`, `recordedTxn`, `recreated` | the columns of the same meaning; `NONE` before and `DELETED` after the row exists |
| `mode` | the split of the price at creation: cash, points, both (`amount`, `pointsRedeemed`) |
| `basket` | `gatewayBasketId` is set |
| `hold`, `age` | `reservedUntil` and `createdAt` against the cut-offs of `isActive` and of the cron |
| `ledger` | the `source` of each ledger row with this `bookingId` |
| `flagged`, `clawback` | what an admin has been told |
| `mishaps` | history, see above |
| `captured` | external: what the gateway really took; one id per charge |
| `acked` | captures whose success callback was answered |
| `phase` | now against `startDatetime` and `endDatetime` |

Actions carry the names of the handlers. Each commit is paired with an abort, because a
statement timeout (15 s), a lost serialization race or a repeated ledger row can end any of
them. `Crash` forgets a recovery that is due.

Choices worth knowing:

- The recovery branch for a booking cancelled by `SYSTEM` (`M6_SYSTEM_CANCELLED`) is left
  out: no code in the repository sets `cancelledBy` to `SYSTEM`.
- The unique index on the ledger is taken as created. Its migration skips it, with a notice,
  if duplicates exist already.
- The Redis lock that `createBooking` takes on the slot is left out. It fails open; what
  keeps the seats is the serializable transaction, and that is the model.
- `CascadeResolve` is enabled at any time. In the code the second loop is reached only if
  the activity has another booking to come (`admin.service.ts:1086`), which is outside the
  slot that is modelled.
- `SlotTime` waits until requests in flight have ended. They last seconds, slots are booked
  hours ahead; without it the runs would show races between a 15 s transaction and the
  start of the slot only.
- The signature, merchant and amount checks of a callback come before everything else and
  change nothing; a callback that fails them is not a step of the model.

Staff behaviour is a parameter. `VendorMoves` and `AdminMoves` are the (from, to) status
changes that they ask for, `from` being the status that the API reads: the API itself accepts nearly
all, the web pages offer fewer. What the booking is by the commit is not theirs to choose.

### MoneyPromise, and the refinement

`MoneyPromise` is the abstract specification: for each booking a `deal` (open, served, closed,
orphaned money, owed, returned, kept, void), whether cash is part of it, its points (none, spent,
back) and the refunds credited. Its actions say what money may do (`Receive`, `Cancel`, `Restore`,
`Owe`, `Decide`, ...) and nothing of who does it or what races. `BookingPayment` maps to it
(`DealOf`, `PointsOf`, `CreditsOf`, read off the rows) and `KeepsPromise == Promise!Spec` is a
PROPERTY of the run `paid`, and a theorem. So every interleaving of cancels, callbacks, crons,
cascades and recoveries is, for each customer, a step of that small machine: the points go back
in the very step that takes the booking, once; a refund is credited once; an orphan's booking is
restored only if its points have not been returned.

A deal is void from the step at which the booking is erased, revived or overlooked, and only from
there. From then on `Void` promises the little that is left: points that went back are not spent
again, and no credit is taken back. The theorem assumes nothing of the staff, of crashes or of
stale requests.

### PaymentInitiation

One payment and several calls of `initiatePayment`, step by step: read, lock (or go on
because Redis is away), write the basket, get the token, answer, release the lock if it is
still one's own. The lock may expire at any step. Beside them `cancelBooking` reads the payment
without a basket, or FAILED (`CancelRead`, `deleting`), and deletes its row by id (`CancelDelete`,
`gone`), or not; a call whose row has gone fails at its write. `unknown` collects the captures whose
callback finds no payment row with their basket. `drawnBehind` is history: a basket was drawn after
the read of the cancel that deletes.

### Payouts

One vendor, `N` payments in order of creation, each worth `Share[p]`. Each handler's
read is a variable (`asked`, `approving`, `rejecting`, `completing`, `reverting`,
`marking`) and each commit an action with the guards of its statement:
`requestPayout` checks again inside a serializable transaction, approval and completion count
the rows they update, rejection updates by id alone, a reopening compares the status it read.
A completion is three steps: the read, the count of the payments still owed (`CompleteCount`,
`admin.service.ts:2952`) and the update (`CompleteCommit`, line 2969), which are two READ COMMITTED
statements and lock none of the payments counted.
`MaxCalls` bounds the calls that are between their read and their commit besides approvals and
completions (`Room`). `reopened` and `slipped` are history: the requests that went back, and
the payments refunded or wired between the count and the update of a completion.

### Coupons

One coupon with a limit (or none), its claims in customers' wallets, and the bookings that use
it, by voucher or by typed code. `createBooking` and the recovery are serializable and one action
each. A claim has checks before its transaction (`claiming`), and the paths that give a use back
(`refundCouponUsage`) read in one action and write in another, because they run READ COMMITTED:
`refunding` holds what follows from the read.
The ends of a booking claim its row first, so that one of them works at a time (`EndRead`). The
hard delete of `cancelBooking` claims nothing: it reads the booking (`DeleteRead`), in its
transaction the coupon (`DeleteReadsCoupon`), and gives the use back (`HardDelete`), also when a
vendor's cancel has done so meanwhile. `Revive` is the staff's update by id of a booking that was
cancelled since: no use is taken for it.
Admin decisions, `validTo`, the expiry cron and the removal of expired coupons are actions.
`off`, `recovered`, `uncounted`, `overtaken`, `strays` (uses returned twice or not taken) and
`strayed` (their bookings) are history, and name the exceptions that the properties need.
`MaxEnds` bounds the ends that run at once, `MaxTwists` the recoveries and strays together.
Account deletion and the preview of `validateCoupon` are not modelled.

## 3. The other models

### Availability

One activity, HOURLY or DAILY, by person or by unit, with or without units; a line of half-hour
ticks. `Ask` is what `createBooking` reads before its transaction (the activity, the blocks, the
customer's own bookings), `Commit` the serializable transaction with the sweep of
`maxConcurrentInWindow`, the unit choice and the capacity check. Vendors block days or hours
(`AddBlock`, then `CountAffected`, which are two statements) and edit units and capacity
(`UpdateActivity`, with `assignMissingUnits`), holds lapse, bookings are reaped, cancelled, and
recovered from their snapshot. The views are operators translated from the code that computes
them: the slots of a day, the stay check, the calendar of a month, the range pickers of the web
client. Not modelled: weekly recurring blocks, `activeDays`, the advance window, the views of one
unit, edits of type and times, and the Redis slot lock (it fails open; its refusal is `Refuse`).

### Checkout

The form of `activity/[slug]/book`, in cents: hours or nights, guests, an extra, code or voucher,
points. `Shown` are the totals that the page may show, computed in fractions of a cent and rounded
at the end, `Charge` what `createBooking` computes, rounding each amount; the two are written from
their own sources. A request may be lost before or after its commit, sent again with the visit's
idempotency key, overtaken by the late one, and its row cancelled or deleted meanwhile. Edits happen
only while no request waits. Not modelled: seats that shrink while the form is open, the inside of
the hour picker (in `Availability`), the sign-in round trip.

Page and server compute in doubles of riyals. Amounts are far below the sizes at which a double is
off by a fraction that can occur here (a cent over `Den`, a cent over 10000), so the error decides
only what is exactly on a boundary, and there the model lets it fall either way: an exact half cent
is rounded up or down (`Roundings`), by the page and by the server independently, and points that
are worth the price to the cent may be less than the double that stands for it (`ShownFees`). Both
happen: three times 10.10 at 15 % is 4.54 to the page and 4.55 to the server, and 3 x 0.67 is
2.0100000000000002, which 201 points do not cover on the page.

### Sessions

Families of refresh-token rows (`active`; `fresh`, rotated and within the grace; `tomb`, rotated
before; `deleted`), devices with a cookie jar, tabs with one refresh call each and a queue of
requests that wait for it. `younger` keeps the order of the families by the `createdAt` of their
latest rows, which is the order of eviction. `refreshTokens` is split at its database reads and
writes: read, consume (guarded), count and evict, answer. The calls that end sessions (logout, one,
others, password change, reset, staff, deactivation, suspension) are split into find, denylist write
and delete, in the order each of them has. With `Losses` answers get lost and the denylist write may
fail. Histories name what excuses a property: `overlapped`, `excused`, `missed`. Not modelled:
registration, reset codes, lockout and rate limits; a refused call answers at once; the access token
of an evicted session lives until it expires, as in the code.

### VersionedCache

One namespace. A request reads the version, then the entry under it, on a miss the database, and
stores under the version it read; a writer commits and then bumps. Every Redis command is a step.
A value counts the changes it holds, so that stale means smaller. Redis flushes are not modelled.

### CircuitBreaker and EmailOutbox

`CircuitBreaker` holds the pure transitions of one breaker (admission, success, failure).
`EmailOutbox` extends it: rows, two drains that start each minute under one leader lock with a TTL,
the pod's breaker, and other mail through the same breaker. A drain takes a batch, and writes each
row under an optimistic guard on the attempts it picked. Crashes, lost provider answers, expired
locks and refused database writes are actions (`MaxFaults` of them). The suppression list and the
daily cap are a choice to drop; `cleanOldOutboxRows` is left out. `SlowCalls` says whether a call
may last longer than the breaker stays open: the timeout is 10 s, the cool-down 30 s.

## 4. Runs

All runs are exhaustive. Deadlock is checked in `cache` only: elsewhere behaviours end when
all ids are used up and everything is settled.

| run | instance | states | shows |
|---|---|---|---|
| `staff` | 1 booking, 1 capture, all ways to pay, every button of the vendor's page and every change of the admin API, crashes | 388k | `TypeOK`, `AckedIsMoney`, `PointsConserved`, `NoStrandedCapture`, `EarnReversed`, `PaymentMovesForward`, `CancelIsFinal` |
| `paid` | 1 booking, 2 captures; staff confirm only what was paid and admins only cancel; no crash; fairness | 160k | `KeepsPromise` (refinement), `PendingEnds`, `OrphanSettled` |
| `slot` | 2 bookings, 1 seat, vendors who confirm and cancel, symmetry | 125k | `OversoldOnlyByLapsed` |
| `payouts` | 2 requests, 2 payments worth 2 and 1, 1 call at a time besides approvals and completions, reopening, fairness | 247k | `OneActive`, `AmountBacked`, `CompletedWhenPayable`, `ApprovedEnds` |
| `initiate_calls` | 3 calls, 3 baskets, a cancel that deletes, symmetry | 62k | `LostOnlyByRace` |
| `availability` | 2 bookings of one customer, both types, with and without units, 1 block, 1 edit (to units), symmetry | 138k | `SweepIsPeak`, `ViewsAgree`, `UnitsSound`, `AffectedTold`, `TwinsOnlyByOverlap`, `CommitFits` |
| `coupons` | 2 bookings of one customer, another who only claims, no limit and limits 1 and 2, 2 ends at a time, 1 recovery or stray, symmetry | 835k | `UsesCounted`, `ClosedForAReason`, `OneUseEach`, `ClaimsCapped` |
| `sessions_tabs` | 2 tabs, 2 families, one session allowed, password changes, symmetry | 670k | `OneActiveRow`, `ReuseNeedsDelay`, `CapKept` |
| `sessions_staff` | 1 tab, 1 family, the other endings, lost answers, denylist failures, fairness | 98k | `EndedIsOut`, `RequestsSettle` |
| `checkout` | 4 days in 2 months, 2 guests, a stay with a minimum and two activities by the hour, a coupon each, discounts and prices on half cents | 468k | `ShownIsCharged`, `OneBooking` |
| `cache` | 2 requests, 2 writers, 2 changes, fairness | 218k | `ServedRecent`, `QuietMeansFresh`, `StaleClears` |
| `outbox` | 2 drains, 1 other mail, a good row and a malformed one, batches of 1, 2 attempts, 1 fault, a breaker that opens at once, fairness | 209k | `MailAccounted`, `SingleProbe`, `RowsMoveForward`, `RowsSettle` |

**Why these bounds are enough.** For the safety properties the bounds are those of a first look: all
of them are also theorems, for every value of the constants (section 6). The runs give the
counterexample when a definition is wrong, and they carry the liveness properties alone. Bookings of
a slot meet only in `SlotFree`, so every property of one booking needs one; races for a seat need
two bookings and one seat. Two transaction ids are the least with a first and a second charge
(`paid`); the properties of `staff` break, when they break, with one, and the room goes to crashes
and to all that staff may do. `paid` leaves out crashes and vendors who confirm what nobody has paid
for: after either, captured money may wait for ever (`FindCrash`, `FindBusyStaff`), so
`OrphanSettled` is a promise without them. Its admins only cancel, which keeps the run small.
Several calls in flight are covered by the sets `cancelRead` and `staffRead`: calls that read the
same are the same call to the rest. `staff` and `slot` compare states by `Distinguished`: hold and
age matter only while a booking is PENDING, which none becomes again, and nothing reads
`cancelledBy`. `SlotSpec` leaves out what takes no seat (refund decisions, payouts, awards,
completion) and the cancels of the customer and of the cascade, which give a seat back as the
vendor's do. Two payments of different worth make an approval that takes one, the other, or both,
with the last one worth more than what is left; two requests are the least with one that blocks
another, and a request is approved and completed while another call runs. Three calls let two
overlap while a third retries. In `coupons` one booking has one accident, a recovery or a stray, and
its view keeps of the histories what the properties count. There limit 1 is reached by either
booking and by a claim of another customer, limit 2 by both bookings, and the coupon without a limit
has none to reach. In `checkout` both discounts of a percentage, and the price of quarter hours,
fall on half cents. `availability` has two bookings, which is every pair that the sweep, the unit
choice and the views can confuse, over windows long enough to be staggered, nested, adjacent and
apart; the one edit is the one that hands out units. Two tabs of one browser are the race that the
grace period is for; a third would queue behind them. Two drains under one lock are every overlap
that an expired lock allows, as a third start needs one of them to end.

**Fairness.** `BookingPayment`: time passes (`HoldExpires`, `AgePasses`), a callback that committed
goes on to its recovery, the cron scans again and again, and not every one of its transactions
fails (`SF` on `CronReap`: `@Cron` runs it every few minutes for as long as the service is up, and
its aborts are timeouts). No customer, gateway or staff action is assumed to happen. `Payouts`: an
admin who finds an approved request completes it, tries again after a failure, and not every try
fails. That is the assumption that a desk is staffed; it is what `ApprovedEnds` says: nothing in the
*system* then blocks the request. `Sessions`: a refresh call that was sent takes its steps or fails
(`RefreshStep`; HTTP calls end by answer or timeout). `VersionedCache`: requests run on, a commit is
followed by its bump or by the loss of it, entries expire (`EX` on every `set`). `EmailOutbox`: some
drain starts every minute, a drain that runs takes its steps or crashes, the lock's TTL ends, a
back-off ends.

**What the passing properties say.**

- `AckedIsMoney`: after the API has answered a capture, the payment row says that money came in and
  which capture it was. The cancel branches, the decline, the cron and the cascade all race with the
  callback; each guard matters. The row itself is lost only by a hard delete that the capture has
  overtaken (ERASED), never by a status.
- `PointsConserved`: redeemed points are back when the booking is gone, and not before. There are
  two return sources, and the index stops only a repetition under the same one: they are back twice
  only after a hard delete behind another cancel, or a revival.
- `NoStrandedCapture`: money that is kept has a booking, or a recovery that is running, unless the
  process died before the recovery or a cascade overlooked the capture.
- `EarnReversed`: a cancelled booking keeps no earned points, unless they were awarded before the
  slot, or to a booking that was then deleted and inserted again.
- `PaymentMovesForward`: money moves towards a refund only, on rows that were neither erased nor
  revived. `CancelIsFinal`: a cancelled booking comes back only by a request of the staff, or by a
  capture after a decline, that had read it alive.
- `OversoldOnlyByLapsed`: if the slot is oversold, the step that did it gave a booking a seat that
  it had lost: a lapsed hold, or a cancel that a request under way did not see. `createBooking` and
  the recovery never do.
- `PendingEnds`: no booking is PENDING for ever, NAPS holds that are renewed included.
- `OrphanSettled`: received money without a booking gets one or goes to the refund queue.
- `OneActive`, `CompletedWhenPayable`, `AmountBacked`, `ApprovedEnds`: one request in flight unless
  one was reopened; completed only over payments still owed, but for one that slips between the
  count and the update; never promised more than its payments are worth, never stuck.
- `LostOnlyByRace`: a customer's money is lost from sight only if two first initiations both read
  the row before either wrote it, or if a cancel deleted the row on a read that the initiation, or
  the staff's revival of a declined booking, has overtaken.
- `SweepIsPeak`: the event sweep is the peak over instants, not a sum. `ViewsAgree`: the slots of a
  day show what the server will accept. The view of a stay and the calendar of days do so for one
  night or whole units; else the view of a stay never promises what is refused. The HOURLY calendar
  never hides a day that has room, in range and while nothing is oversold, and may show one that has
  none. The pickers agree for activities without units. `UnitsSound`: who rented a unit has one that
  exists, alone, whatever was edited since. `CommitFits`: a booking made from a row nobody changed
  meanwhile finds, at each instant, seats and (by the unit) a unit that no other booking counts in.
  `AffectedTold`: a booking over a block was counted for the vendor. `TwinsOnlyByOverlap`: the same
  customer has the same window twice only by two requests at once.
- `UsesCounted`, `ClaimsCapped`: the counter stays within the limit, as the wallets do, and is the
  number of live bookings, short of the uncounted recoveries and of one for each stray.
  `ClosedForAReason`: a coupon with uses left is not closed behind anybody's back. `OneUseEach`: a
  right to one use is not lost, and not used twice unless one of the customer's bookings was
  recovered or strayed.
- `OneActiveRow`, `EndedIsOut`, `CapKept`, `ReuseNeedsDelay`, `RequestsSettle`: a session has one
  usable row, an ended one is out, a user has no more of them than allowed, unless two were issued
  at once, ordinary races of tabs do not look like theft, and no request of the page waits for ever.
- `ShownIsCharged`, `OneBooking`: what a settled form shows is what is charged, to the cent where
  the price is whole cents and the discount not on a half cent, and a cent apart otherwise, but for
  the fee, about which the two may disagree where points come within that of the price; one visit,
  one booking.
- `ServedRecent`, `QuietMeansFresh`, `StaleClears`: the only stale answer comes from a fill that
  straddled a bump, and it ends.
- `MailAccounted`, `SingleProbe`, `RowsMoveForward`, `RowsSettle`: mail goes twice only for a
  reason, SENT is never said of one that never left, one probe at a time, rows move forward and
  settle.

Each has a mutant in `PROJECT.json`: a definition of the model replaced by one with a
plausible bug (the operators marked `Bug:` in the modules), under which TLC finds the
property violated in the same run.

## 5. Where the code does something else than it says

Each configuration is an instance in which a property stated by a comment or a test of the
repository ends in a counterexample. Those with several properties have all but one commented out:
uncomment one at a time. They are not among the runs.

| configuration | property | what happens |
|---|---|---|
| `FindOversold` | `NotOversold` | b1's hold lapses, b2 takes the seat, a NAPS success of b1 moves its hold forward (`payment.service.ts:651`, which asks for PENDING only): two guests, one seat. A late capture of b1 does the same at line 1183. |
| `FindQuietStaff` | `EveryCaptureVisible` | a booking is paid and cancelled; a second charge of its basket finds REFUND_PENDING, is answered "previously processed" and is not flagged (`payment.service.ts:1275`). |
| | `OrphanRecoverable` | recreating a booking that redeemed points repeats its BOOKING_REDEEM row, which the index always rejects |
| | `NapsKeepsLapsed` | a NAPS success revives a lapsed hold (`payment.service.ts:651`) |
| | `CronSparesHeld` | the fallback age (case 4 of the cron) deletes a booking whose NAPS hold runs |
| `FindBusyStaff` | `NeverStranded` | the vendor confirms a booking that the cron has scanned, the cron fails its payment and keeps the booking; the cascade reads FAILED; the capture comes in; the cascade cancels without touching the payment (`admin.service.ts:1130`). |
| | `EarnedOnCash` | a booking confirmed without payment earns points on its price |
| `FindStaleDelete` | `BasketKept` | `cancelBooking` reads a payment without basket, the customer opens the checkout in another tab, the cancel deletes the payment row (`bookings.service.ts:2692`): a capture would find nothing. |
| | `PointsBackOnce` | a stale hard delete after a vendor's cancel returns the points under the other source |
| `FindReopen` | `NeverRevived` | a customer cancels after the vendor's status change has read the booking (`vendor.service.ts:544`): the update by id (line 634) confirms it again ("We must NOT resurrect a deliberately-cancelled booking", `payment.service.ts`) |
| `FindCrash` | `NeverStranded` | the process dies between the callback's commit and its recovery; replays find SUCCESS and return |
| `FindUndecidable` | `RefundDecided` | a refund queued for a deleted booking: `recordRefundDecision` needs a CANCELLED booking |
| `FindClawback` | `ClawbackReported` | the cascade's second loop refunds a booking whose vendor was paid, and reports nothing |
| `FindBasketReplaced` | `BasketSetOnce` | two first initiations, the second one after the first's lock was released or lost: the basket read before the lock (`payment.service.ts:549`) is used under it, and replaced; "gatewayBasketId + paymentFirstInitiatedAt are set ONCE on the first initiate" |
| | `PaymentFound` | one initiation, and a `cancelBooking` that read the payment before it had a basket: the row is deleted by id (`bookings.service.ts:2692`) and the capture finds nothing |
| `FindPayouts` | `NeverTwoActive` | `revertPayoutRequest` looks for other requests and updates in two statements (`admin.service.ts:3068`); a request created in between makes two |
| | `LockedOnce` | approval locks the payments of a completed request that is not wired yet |
| | `RejectsPending` | a rejection overwrites an approval that committed after its read |
| | `MistakeReversible` | unmarking a payment sends the admin to the reopening of its request, and that one back |
| | `NothingSlips` | a refund between the count (`admin.service.ts:2952`) and the update (line 2969) of a completion: the request settles "against missing money" |
| `FindCoupons` | `NeverDead` | two refunds of a full coupon: the one that reads it EXPIRED at the cap and the one that commits first disagree, and a coupon with a use left stays closed ("stays dead forever", `bookings.service.ts:86`) |
| | `NeverResurrected` | a refund that read the coupon closed by its cap re-opens it after an admin has switched it off (`bookings.service.ts:88`) |
| | `WalletServed` | a typed code takes a use that a wallet counts on (`offers.controller.ts:113`) |
| | `CapCloses` | "Once the cap is hit the coupon is permanently closed" (`bookings.service.ts:1723`): a cancel re-opens it, by design of `refundCouponUsage` |
| | `AlarmMeansInvalid` | a booking that took the last use finds its coupon EXPIRED at its own confirmation, and the alarm names another reason (`payment.service.ts:1082`) |
| | `UsageAccurate` | a stale hard delete returns a use that a vendor's cancel has returned; a revived booking takes none |
| `FindAvailability` | `NeverUnplaced` | an edit to units leaves bookings without one where they do not fit ("supposed to be impossible", `bookings.service.ts`) |
| | `RangePickerSound` | the picker joins hours that no single unit has free ("never approves an impossible" range, `hour-range-picker.tsx`) |
| `FindSessions` | `CallerNeverOut` | another tab refreshes between the cookie that the password change carries and its delete (`auth.service.ts:1347`): the caller is signed out |
| | `RaceLoserRetries` | the loser of a refresh race should retry with the winner's cookie (`auth.service.ts:561`); the web client signs out |
| `FindCheckout` | `PreviewIsCharge` | a discount frozen when the form changed, a special price of a month that is not in view, thirds of a cent (`book/page.tsx:464`) |
| | `WaivedAlike` | points that are worth the price to the cent: the server waives the fee, the page may not |
| | `AnswerIsTheForm` | the answer is lost, the form edited and sent again: the key returns the first booking (`bookings.service.ts:853`) |
| `FindStaleFill` | `NoStaleEntry` | "a stale entry is impossible after invalidate()" (`bookings.service.ts`): a fill that straddles a bump leaves one |
| `FindOutbox` | `BatchSpared` | an open breaker burns an attempt of every row of the batch (`outbox-drain.service.ts:63`) |
| | `SingleProbe` | with `SlowCalls`: a call admitted before the breaker opened ends during the probe and frees the slot |

They also say why the passing properties have exceptions. Those are named in the property, not
left out of the model: the runs that pass contain the stale deletes, the updates by id, the
crashes, the awards before the slot and the slips. `OneActive` is for
requests that nobody reopens. The views of `Availability` agree only where the code's
abstractions hold: an hour block's `affectedBookings` counts the bookings that start in the
hour, the HOURLY calendar looks up to the next day's closing, a stay over different units is
offered night by night, and a smaller capacity is not checked against bookings that exist.

## 6. Theorems

45 theorems in 8 modules, checked by TLAPS for every value of the constants that the named
assumptions of the modules allow. Of the 40 properties that runs check, the 34 that are not
liveness properties are theorems.

### How they are built

A property is seldom inductive. Each module states a strengthening as named conjuncts (the middle
column below), proves that `Init` has it and that each action keeps it, one step per action, and
derives the property by a temporal step. Operators that count or add up (`Cardinality`,
`MapThenSumSet`, `Max`) are pinned down once: `Sums` proves what a sum over a finite set is, that
more elements make no smaller sum, that two groups which share nobody add up. Its induction is by
smallest counterexample, a finite set that fails and none of whose subsets one smaller does,
because the induction theorems of the library take an operator as a parameter, which the provers
cannot instantiate. The specifications of `PaymentInitiation` and `VersionedCache` are called
`CallsSpec` and `CacheSpec`, as `CheckoutProofs` and `PlatformProofs` each extend two components.

### BookingPaymentProofs

For any bookings, captures, capacity, ways to pay, whatever staff ask for, with crashes and with
stale requests.

| theorem | assumes | argument |
|---|---|---|
| `TypeCorrect` | | `TypeOK` is inductive |
| `PointsAreConserved`, `AcknowledgedIsMoney`, `CancelledStaysCancelled`, `MoneyMovesForward` | | `MoneyInv` |
| `CaptureIsNeverStranded`, `PromiseIsKept`, `RefundsAreBacked` | | `MoneyInv` and `PaidInv` |
| `EarnedPointsAreReversed` | | and `EarnInv` |
| `OnlyLapsedOversell` | finitely many bookings | `MoneyInv`, and the count of seats |

The exceptions are in the properties, as mishaps of the booking they are about; `mishaps` is
written where the accident happens (`HardDelete`, `StaffCommit`, `CaptureCommit`, `CascadeResolve`,
`Crash`) and nowhere else, so that a theorem says: without that accident to this booking, never.

`MoneyInv` strengthens the properties, booking by booking, in five parts:

- `Fresh`: nothing exists before `createBooking`.
- `Ownership`: who may write the payment follows from the booking's status. A cancelled
  booking has no PENDING payment; a payment in a refund state has no live booking; a
  recovery is due only for a booking that is gone or cancelled. This is what stops a late
  callback from reviving a cancelled booking.
- `Reads`: what requests in flight have read still bounds what the rows can be: a cancel
  that saw SUCCESS will find money or no row, a cascade that saw anything but PENDING will not find
  PENDING, a callback that holds a capture to confirm still has a FAILED payment. This is where
  interleavings are dealt with.
- `Captures`: acknowledged captures were taken by the gateway, for a basket, for cash; if
  there is one, the payment is money and its recorded transaction is one of them, or the row was
  erased.
- `Redemption`: redeemed points are back exactly when the booking is not live, under one of two
  sources, under both only if it was erased or revived.

`PaidInv` adds that a PENDING booking has a PENDING payment, that a cancel which saw money still
knows how it was paid, that money without a booking is under recovery unless the process died or the
cascade overlooked it, and, for bookings neither erased nor revived, that a refund is in one row, of
cash, on a cancelled booking. The refinement is proved with it: one lemma per group of actions shows
that the step, seen through `DealOf`, `PointsOf` and `CreditsOf`, is an action of `MoneyPromise` for
the booking it is about and a stutter for the others (`Honoured`), or that it is the mishap, and
then that it is `Void` (`Voided`); the cron's step is one for each booking of its scan. `EarnInv`
says that no cancel is in flight when the slot starts, and that an earned row is flagged until it is
reversed, but for awards that came early or to a booking inserted again. For seats, `SeatTaken`
bounds what one step can do, and a count does the rest.

### The other modules

| theorem | assumes | argument |
|---|---|---|
| **AvailabilityProofs** | `AvailabilityConstants` | any times, capacities, quantities |
| `TypeInvariant` | | inductive |
| `UnitsAreSound` | | `UnitsInv`: whoever is to have a unit to himself has been given one (`WholeIsPlaced`); the first-fit choice and `assignMissingUnits` place only where no overlapping booking is |
| `TwinsOverlapped` | | `TwinsInv`: the same of requests from their first reads on |
| `EveryAffectedIsTold` | | `ToldInv`: a request is told of every block that comes while it runs; day arithmetic by `\div` and `%` |
| `SweepFindsPeak` | | the number present changes upwards only where a booking starts, so the largest is at a start (`Sums`) |
| `CommitsFit` | | the sweep, applied to the check of `Commit` |
| `ViewsAreRight` | | `ViewsInv`: what is blocked and booked has the windows of the type. One lemma per view: `SlotsAgree`, `StaysAgree`, `DaysAgree` (hours, whole days, nights), `PicksAgree` |
| **CheckoutProofs** | `CheckoutAssumption` | any activity, prices, coupon, calendar |
| `VisitTypes`, `OneVisitOneBooking` | | `VisitInv`: the key has one row, or none |
| `PreviewIsRight` | | `Math.round` pinned down by `RoundIs`, what it may make of a double by `RoundingsAreNear`: both roundings of a fraction are within half a cent, so two discounts of the same amount are a cent apart at most (`DiscountsAreNear`); the page takes the discount off the cost and the server off the rounded total: the same for whole cents (`WholeCentsAgree`), a cent apart at most otherwise (`FractionsAreNear`) |
| `CodesOnlyRace` | | `CodesInv`: a code is asked for only while there is none |
| `StaysAreLongEnough` | | `StayInv`, over every click in the calendar |
| `CallTypes`, `LostByRaceOnly` | `NoBasketAssumption`, `NoCallAssumption` | `InitiationInv`: a call draws at most once and after its read (`DrawsLate`); until two first reads overlap there is one basket, and it is the row's (`RowDrawn`); a cancel that deletes read no basket, or a FAILED payment, or was overtaken by the draw (`DeletesKnow`). The lock is not used: it may expire at any step |
| **PayoutsProofs** | `ShareAssumption` | any requests, payments and amounts |
| `TypeCorrect`, `OneIsActive`, `AmountIsBacked`, `CompletesPayable` | | `PayoutInv`: a completion that outlives its approval finds the request rejected, deleted or reopened (`CompletionsKnow`); of what a completion has counted, each payment is still owed or has slipped since (`CountsHold`); what `ToLock` takes is worth what is approved (`Sums`) |
| **CouponsProofs** | `CouponAssumption` | any customers, bookings and limits |
| `TypeCorrect`, `UsesAreCounted`, `ClosedHasAReason`, `ClaimsAreCapped`, `OneUseForEach` | | `CouponInv`: the row's flags agree, the counter is the number of live bookings less the uncounted and at most one for each stray (`StrayCounts`), a used voucher is on a live booking, and on one unless it was recovered or strayed, codes are apart |
| `OffIsOff` | | `OffInv`: a coupon that was switched off with uses left has them until a recovery |
| **PlatformProofs** | `OutboxAssumption`, `ThresholdAssumption`, `CacheAssumption` | any rows, drains, pods, thresholds; any readers, writers, keys |
| `TypeCorrect`, `MailIsAccounted`, `RowsGoForward` | | `MailInv`: a row without an excuse is held by the leader alone, as it was picked |
| `ProbesAlone` | `~SlowCalls` | `ProbeInv`: a half-open breaker has one call in flight, and none when it is about to probe |
| `ServedIsRecent`, `QuietIsFresh` | | `CacheInv`: an entry under the current version holds what was told, or is a late store; a lookup under an older version finds nothing older than its floor |
| **SessionsProofs** | `SessionConstants` | any families, devices, tabs, endings |
| `CoreHolds`, `OneRow` | | `Core`: a family has one active row, or one tab that is about to insert it |
| `EndedStaysOut` | | `Ghost`: what is left of a session at each point of the call that ends it |
| `RacesAreBenign` | | `Turns`: a cookie with a rotated row waits for the answer with the next one, and nobody else has that row |
| `SessionsAreCapped` | finitely many families | `CapInv`: families are in line by their latest rows, so the evicted ones are the oldest and leave room for the one that counted |

`RefundBacked`, `CodesExclusive`, `MinimumStay` and `OffStaysOff` are proved and in no run.

**What the proofs changed in the models.** The mishaps are what was left of the booking's
invariants when nothing was assumed of the requests that write by id: each part of `MoneyInv` and
`PaidInv` names the ones that end it. `CommitFits` compared guests with seats and was
false of activities sold by the unit when a lapsed hold came back to a unit; it says what
`createBooking` does check, units, and the rest is `UnitExclusive`, for bookings that are live.
`Sessions` kept the order of the families as a number per family, that no action bounds; it
keeps the relation the code's `orderBy` defines. `Checkout` has `maxDiscount`, since the
rounding of a capped percentage is where page and server could part.

**Only model-checked.** The six liveness properties, `PendingEnds`, `OrphanSettled`, `ApprovedEnds`,
`RequestsSettle`, `StaleClears` and `RowsSettle`: they need fairness, hence ENABLED, which is out of
the prover's reach. What section 5 lists is false, and there is nothing to prove of it.

## 7. Plan

1. **Proofs over parts that are still apart**: that a coupon's use, a unit and a seat taken by one
   `createBooking` are given back by the same cancel, by composing the three models' booking lives.
2. **Booking e-mail code**: attempts, expiry and resending under concurrent checks.
3. **Balances and reconciliation**: the clamp of `reverseEarnedPoints` with small amounts.
4. **The gateway's breaker** in front of `initiatePayment`.
5. **Retention**: what the clean-up crons delete against what later steps still read.
6. **Account deletion** and vendor suspension over bookings that are under way.

## 8. Not modelled

Of the repository, the models stand for about a tenth of the lines. Much of the rest are pages of
the web application that show what the API returns; in the services it is queries, DTOs, mail texts
and audit entries around the state changes that are modelled. Components without a model, with the
reason, are listed in `PROJECT.json`.

Inside the components: taxes and currency; dates and time zones (time is the order of cut-offs,
or a line of ticks); e-mail, push and audit output unless a property is about it; the wording and
checks of requests that change nothing. Database failures other than an aborted transaction,
and PostgreSQL itself, are taken as documented: serializable transactions are serial, others
lock the rows they update and test their `where` on the latest committed version. Redis is
a store that may expire a lock early or fail a command, and is never flushed.
