----------------------------- MODULE CouponsProofs -----------------------------
(* Theorems about Coupons for any customers, bookings, ends at a time and  *)
(* usage limits.                                                           *)
EXTENDS Coupons, FiniteSetTheorems, TLAPS

(* The strengthening.                                                      *)

\* A claimed end has a live booking; a hard delete has read one; a booking has
\* its way to the coupon from the day it is made.
RowsAgree ==
    \A b \in Bookings :
        /\ refunding[b] # "IDLE" => Live(b)
        /\ booking[b] = "NONE" => via[b] = "NONE"
        /\ deleting[b] # "IDLE" => booking[b] # "NONE"

RestoredOf(c) == {b \in recovered \cup strayed : Owner[b] = c}
LiveOf(c) == {b \in LiveBookings : Owner[b] = c}

\* A customer of vouchers alone: one live booking at most, and it has the
\* voucher.
VoucherOnBooking ==
    \A c \in Customers :
        \/ Typed(c) \/ RestoredOf(c) # {} \/ status = "DELETED"
        \/ /\ \A a, b \in LiveOf(c) : a = b
           /\ LiveOf(c) # {} => claim[c] = "USED"

\* Two live bookings that typed the code have two customers.
CodesApart ==
    \A a, b \in LiveBookings \ (recovered \cup strayed) :
        Owner[a] = Owner[b] /\ via[a] = "CODE" /\ via[b] = "CODE" => a = b

CouponInv ==
    /\ TypeOK /\ RowsAgree /\ UsesCounted /\ ClosedForAReason /\ ClaimsCapped
    /\ VoucherNotLost /\ VoucherOnBooking /\ CodesApart

-----------------------------------------------------------------------------
(* Counting.                                                               *)

LEMMA Finite ==
    ASSUME TypeOK
    PROVE  /\ IsFiniteSet(LiveBookings) /\ Cardinality(LiveBookings) \in 0..Cardinality(Bookings)
           /\ IsFiniteSet(uncounted) /\ Cardinality(uncounted) \in Nat
           /\ IsFiniteSet(Claims) /\ Cardinality(Claims) \in Nat
           /\ Cardinality(Bookings) \in Nat
           /\ strays \in Nat
           /\ terms.limit \in Nat
<1>1. LiveBookings \subseteq Bookings /\ uncounted \subseteq Bookings /\ Claims \subseteq Customers
  BY DEF LiveBookings, Claims, TypeOK
<1>2. IsFiniteSet(Bookings) /\ IsFiniteSet(Customers) /\ Limits \subseteq Nat
  BY CouponAssumption
<1>3. IsFiniteSet(LiveBookings) /\ Cardinality(LiveBookings) <= Cardinality(Bookings)
  BY <1>1, <1>2, FS_Subset
<1>4. IsFiniteSet(uncounted) /\ IsFiniteSet(Claims)
  BY <1>1, <1>2, FS_Subset
<1>5. /\ Cardinality(LiveBookings) \in Nat /\ Cardinality(uncounted) \in Nat
      /\ Cardinality(Claims) \in Nat /\ Cardinality(Bookings) \in Nat
  BY <1>2, <1>3, <1>4, FS_CardinalityType
<1>6. terms.limit \in Nat /\ strays \in Nat
  BY <1>2 DEF TypeOK
<1>. QED  BY <1>3, <1>4, <1>5, <1>6

\* A booking begins with a use.
LEMMA TakeCounts ==
    ASSUME TypeOK, UsesCounted, NEW b \in Bookings, NEW how \in {"VOUCHER", "CODE"}, Take(b, how)
    PROVE  used' \in 0..Cardinality(Bookings) /\ UsesCounted'
<1>1. /\ booking[b] = "NONE" /\ booking' = [booking EXCEPT ![b] = "PENDING"]
      /\ used' = used + 1 /\ (Capped => used < terms.limit) /\ status # "DELETED"
      /\ terms' = terms /\ uncounted' = uncounted /\ strays' = strays
  BY Finite DEF Take, Redeemable, AtCap, history, strayVars, TypeOK
<1>2. LiveBookings' = LiveBookings \cup {b} /\ b \notin LiveBookings
  BY <1>1 DEF LiveBookings, Live, TypeOK
<1>3. Cardinality(LiveBookings') = Cardinality(LiveBookings) + 1
  BY <1>2, Finite, FS_AddElement
<1>4. LiveBookings' \subseteq Bookings
  BY DEF LiveBookings
<1>5. Cardinality(LiveBookings') <= Cardinality(Bookings)
  BY <1>4, CouponAssumption, FS_Subset
<1>6. used \in Nat /\ (Capped' <=> Capped)
  BY <1>1 DEF TypeOK, Capped
<1>. QED  BY <1>1, <1>3, <1>5, <1>6, Finite DEF UsesCounted

\* A live booking ends and its use comes back, if there is one.
LEMMA GiveBackCounts ==
    ASSUME TypeOK, UsesCounted, NEW b \in Bookings, Live(b), NEW toDo, GiveBack(b, toDo),
           NEW x \in {"CANCELLED", "REAPED", "DELETED"}, booking' = [booking EXCEPT ![b] = x],
           UNCHANGED strayVars
    PROVE  used' \in 0..Cardinality(Bookings) /\ UsesCounted'
<1>1. /\ used' = IF UseToReturn THEN used - 1 ELSE used
      /\ terms' = terms /\ uncounted' = uncounted /\ strays' = strays
      /\ status' = "DELETED" <=> status = "DELETED"
  BY DEF GiveBack, UseToReturn, strayVars
<1>2. LiveBookings' = LiveBookings \ {b} /\ b \in LiveBookings
  BY DEF LiveBookings, Live, TypeOK
<1>3. Cardinality(LiveBookings') = Cardinality(LiveBookings) - 1 /\ Cardinality(LiveBookings) # 0
  BY <1>2, Finite, FS_RemoveElement, FS_EmptySet
<1>4. used \in 0..Cardinality(Bookings) /\ (Capped' <=> Capped)
  BY <1>1 DEF TypeOK, Capped
<1>5. CASE UseToReturn
  BY <1>1, <1>3, <1>4, <1>5, Finite DEF UsesCounted, UseToReturn
<1>6. CASE ~UseToReturn
  BY <1>1, <1>3, <1>4, <1>6, Finite DEF UsesCounted, UseToReturn
<1>. QED  BY <1>5, <1>6

\* A hard delete of a booking whose use is back, or a revival, is one stray.
LEMMA StrayCounts ==
    ASSUME TypeOK, UsesCounted, NEW b \in Bookings, (HardDelete(b) /\ ~Live(b)) \/ Revive(b)
    PROVE  used' \in 0..Cardinality(Bookings) /\ UsesCounted'
<1>1. /\ strays' = strays + 1 /\ UNCHANGED <<terms, uncounted>>
      /\ status' = "DELETED" <=> status = "DELETED"
  BY DEF HardDelete, Revive, Strays, GiveBack, UseToReturn
<1>2. used \in 0..Cardinality(Bookings) /\ (Capped' <=> Capped)
  BY <1>1 DEF TypeOK, Capped
<1>3. CASE HardDelete(b) /\ ~Live(b)
  <2>1. used' = IF used > 0 /\ status # "DELETED" THEN used - 1 ELSE used
    BY <1>3 DEF HardDelete, GiveBack, UseToReturn
  <2>2. LiveBookings' = LiveBookings
    BY <1>3 DEF HardDelete, LiveBookings, Live, TypeOK
  <2>. QED  BY <1>1, <1>2, <2>1, <2>2, Finite DEF UsesCounted
<1>4. CASE Revive(b)
  <2>1. used' = used
    BY <1>4 DEF Revive
  <2>2. LiveBookings' = LiveBookings \cup {b} /\ b \notin LiveBookings
    BY <1>4 DEF Revive, LiveBookings, Live, TypeOK
  <2>3. Cardinality(LiveBookings') = Cardinality(LiveBookings) + 1
    BY <2>2, Finite, FS_AddElement
  <2>. QED  BY <1>1, <1>2, <2>1, <2>3, Finite DEF UsesCounted
<1>. QED  BY <1>3, <1>4

\* A recovery takes a use, or is counted as one that found none.
LEMMA RecoverCounts ==
    ASSUME TypeOK, UsesCounted, NEW b \in Bookings, Recover(b)
    PROVE  used' \in 0..Cardinality(Bookings) /\ UsesCounted'
<1>1. /\ booking[b] = "REAPED" /\ booking' = [booking EXCEPT ![b] = "CONFIRMED"]
      /\ used' = IF Recounts THEN used + 1 ELSE used
      /\ uncounted' = IF Recounts THEN uncounted ELSE uncounted \cup {b}
      /\ b \notin uncounted
      /\ UNCHANGED <<terms, status, strays>>
  BY DEF Recover, strayVars, TypeOK
<1>2. LiveBookings' = LiveBookings \cup {b} /\ b \notin LiveBookings
  BY <1>1 DEF LiveBookings, Live, TypeOK
<1>3. Cardinality(LiveBookings') = Cardinality(LiveBookings) + 1
  BY <1>2, Finite, FS_AddElement
<1>4. LiveBookings' \subseteq Bookings
  BY DEF LiveBookings
<1>5. Cardinality(LiveBookings') <= Cardinality(Bookings)
  BY <1>4, CouponAssumption, FS_Subset
<1>6. used \in 0..Cardinality(Bookings) /\ (Capped' <=> Capped)
  BY <1>1 DEF TypeOK, Capped
<1>7. CASE Recounts
  <2>1. status # "DELETED" /\ (Capped => used < terms.limit)
    BY <1>6, <1>7, Finite DEF Recounts, AtCap
  <2>. QED  BY <1>1, <1>3, <1>5, <1>6, <1>7, <2>1, Finite DEF UsesCounted
<1>8. CASE ~Recounts
  <2>1. Cardinality(uncounted') = Cardinality(uncounted) + 1
    BY <1>1, <1>8, Finite, FS_AddElement
  <2>. QED  BY <1>1, <1>3, <1>5, <1>6, <1>8, <2>1, Finite DEF UsesCounted
<1>. QED  BY <1>7, <1>8

\* Everything else leaves the bookings that live and their uses alone, or
\* removes the coupon.
LEMMA RestCounts ==
    ASSUME TypeOK, UsesCounted, LiveBookings' = LiveBookings,
           UNCHANGED <<terms, uncounted, strays>>,
           \/ used' = used /\ (status' # "DELETED" => status # "DELETED")
           \/ used' = 0 /\ status' = "DELETED"
    PROVE  used' \in 0..Cardinality(Bookings) /\ UsesCounted'
  BY Finite DEF TypeOK, UsesCounted, Capped

LEMMA UsesKeep ==
    ASSUME CouponInv, [Next]_vars
    PROVE  used' \in 0..Cardinality(Bookings) /\ UsesCounted'
<1>. USE DEF CouponInv
<1>1. ASSUME NEW b \in Bookings, BookWithVoucher(b) \/ BookWithCode(b)
      PROVE  used' \in 0..Cardinality(Bookings) /\ UsesCounted'
  BY <1>1, TakeCounts DEF BookWithVoucher, BookWithCode
<1>2. ASSUME NEW b \in Bookings, Cancel(b) \/ Reap(b)
      PROVE  used' \in 0..Cardinality(Bookings) /\ UsesCounted'
  <2>1. PICK x \in {"CANCELLED", "REAPED"} : booking' = [booking EXCEPT ![b] = x]
    BY <1>2 DEF Cancel, Reap
  <2>2. Live(b) /\ GiveBack(b, refunding[b]) /\ UNCHANGED strayVars
    BY <1>2 DEF Cancel, Reap, ClaimedEnd, RowsAgree
  <2>. QED  BY <2>1, <2>2, GiveBackCounts
<1>6. ASSUME NEW b \in Bookings, HardDelete(b) \/ Revive(b)
      PROVE  used' \in 0..Cardinality(Bookings) /\ UsesCounted'
  <2>1. CASE (HardDelete(b) /\ ~Live(b)) \/ Revive(b)
    BY <2>1, StrayCounts
  <2>2. CASE HardDelete(b) /\ Live(b)
    <3>1. GiveBack(b, deleting[b]) /\ UNCHANGED strayVars
          /\ booking' = [booking EXCEPT ![b] = "DELETED"]
      BY <2>2 DEF HardDelete
    <3>. QED  BY <2>2, <3>1, GiveBackCounts
  <2>. QED  BY <1>6, <2>1, <2>2
<1>3. ASSUME NEW b \in Bookings, Recover(b)
      PROVE  used' \in 0..Cardinality(Bookings) /\ UsesCounted'
  BY <1>3, RecoverCounts
<1>4. ASSUME NEW b \in Bookings, Pay(b)
      PROVE  used' \in 0..Cardinality(Bookings) /\ UsesCounted'
  <2>1. LiveBookings' = LiveBookings
    BY <1>4 DEF Pay, LiveBookings, Live, TypeOK
  <2>. QED  BY <1>4, <2>1, RestCounts DEF Pay, history, strayVars
<1>5. CASE \/ \E c \in Customers : ClaimRead(c) \/ ClaimCommit(c)
           \/ \E b \in Bookings : EndRead(b) \/ EndAborts(b)
           \/ \E b \in Bookings : DeleteRead(b) \/ DeleteReadsCoupon(b) \/ DeleteAborts(b)
           \/ Office \/ UNCHANGED vars
  <2>1. LiveBookings' = LiveBookings /\ UNCHANGED <<terms, uncounted, strays>>
    BY <1>5 DEF ClaimRead, ClaimCommit, EndRead, EndAborts, DeleteRead, DeleteReadsCoupon,
       DeleteAborts, strayVars, Office, AdminSets, AdminDeletes,
       ValidToPasses, AutoExpire, CleanOldExpired, Gone, vars, history, LiveBookings, Live
  <2>2. \/ used' = used /\ (status' # "DELETED" => status # "DELETED")
        \/ used' = 0 /\ status' = "DELETED"
    BY <1>5 DEF ClaimRead, ClaimCommit, EndRead, EndAborts, DeleteRead, DeleteReadsCoupon,
       DeleteAborts, Office, AdminSets, AdminDeletes,
       ValidToPasses, AutoExpire, CleanOldExpired, Gone, vars, history
  <2>. QED  BY <2>1, <2>2, RestCounts
<1>. QED  BY <1>1, <1>2, <1>3, <1>4, <1>5, <1>6 DEF Next, Customer, End, Delete

-----------------------------------------------------------------------------
(* Types and rows.                                                         *)

LEMMA BookingsKeep ==
    ASSUME CouponInv, NEW b \in Bookings,
           BookWithVoucher(b) \/ BookWithCode(b) \/ Pay(b) \/ End(b) \/ Delete(b) \/ Revive(b)
           \/ Recover(b)
    PROVE  TypeOK' /\ RowsAgree'
<1>. USE DEF CouponInv
<1>1. used' \in 0..Cardinality(Bookings)
  BY UsesKeep DEF Next, Customer
<1>2. ASSUME NEW how \in {"VOUCHER", "CODE"}, Take(b, how),
             claim' \in [Customers -> {"NONE", "OPEN", "USED"}]
      PROVE  TypeOK' /\ RowsAgree'
  BY <1>1, <1>2 DEF Take, TypeOK, RowsAgree, Live, history, strayVars, CouponStatus
<1>3. CASE BookWithVoucher(b) \/ BookWithCode(b)
  <2>1. claim' \in [Customers -> {"NONE", "OPEN", "USED"}]
    BY <1>3, CouponAssumption DEF BookWithVoucher, BookWithCode, TypeOK
  <2>. QED  BY <1>2, <1>3, <2>1 DEF BookWithVoucher, BookWithCode
<1>4. CASE Pay(b)
  BY <1>4 DEF Pay, TypeOK, RowsAgree, Live, history, strayVars
<1>5. CASE EndRead(b) \/ EndAborts(b)
  BY <1>5 DEF EndRead, EndAborts, WhatToDo, TypeOK, RowsAgree, Live, history, strayVars
<1>6. ASSUME NEW toDo \in {"KEEP", "REOPEN"}, GiveBack(b, toDo),
             NEW x \in {"CANCELLED", "REAPED", "DELETED"}, booking' = [booking EXCEPT ![b] = x],
             booking[b] # "NONE",
             refunding' = [refunding EXCEPT ![b] = "IDLE"],
             deleting' = deleting \/ deleting' = [deleting EXCEPT ![b] = "IDLE"],
             strays' \in Nat, strayed' \subseteq Bookings
      PROVE  TypeOK' /\ RowsAgree'
  <2>1. claim' \in [Customers -> {"NONE", "OPEN", "USED"}]
    BY <1>6, CouponAssumption DEF GiveBack, GiveBackClaim, TypeOK
  <2>2. /\ booking' \in [Bookings -> {"NONE", "PENDING", "CONFIRMED", "CANCELLED", "REAPED", "DELETED"}]
        /\ refunding' \in [Bookings -> {"IDLE", "KEEP", "REOPEN"}]
        /\ deleting' \in [Bookings -> {"IDLE", "READ", "KEEP", "REOPEN"}]
    BY <1>6 DEF TypeOK
  <2>3. status' \in CouponStatus /\ overtaken' \in BOOLEAN
    BY <1>6 DEF GiveBack, TypeOK, CouponStatus
  <2>4. RowsAgree'
    BY <1>6 DEF GiveBack, TypeOK, RowsAgree, Live
  <2>5. UNCHANGED <<terms, valid, claiming, via, off, recovered, uncounted>>
    BY <1>6 DEF GiveBack
  <2>. QED  BY <1>1, <1>6, <2>1, <2>2, <2>3, <2>4, <2>5 DEF TypeOK
<1>7. CASE Cancel(b) \/ Reap(b)
  <2>1. PICK x \in {"CANCELLED", "REAPED"} : booking' = [booking EXCEPT ![b] = x]
    BY <1>7 DEF Cancel, Reap
  <2>2. ClaimedEnd(b)
    BY <1>7 DEF Cancel, Reap
  <2>3. refunding[b] \in {"KEEP", "REOPEN"} /\ booking[b] # "NONE"
        /\ strays' \in Nat /\ strayed' \subseteq Bookings
    BY <2>2 DEF ClaimedEnd, RowsAgree, Live, TypeOK, strayVars
  <2>. QED  BY <1>6, <2>1, <2>2, <2>3 DEF ClaimedEnd
<1>8. CASE HardDelete(b)
  <2>1. deleting[b] \in {"KEEP", "REOPEN"} /\ booking[b] # "NONE"
        /\ strays' \in Nat /\ strayed' \subseteq Bookings
        /\ refunding' = [refunding EXCEPT ![b] = "IDLE"]
    BY <1>8 DEF HardDelete, RowsAgree, Strays, TypeOK, strayVars
  <2>. QED  BY <1>6, <1>8, <2>1 DEF HardDelete
<1>9. CASE DeleteRead(b) \/ DeleteReadsCoupon(b) \/ DeleteAborts(b)
  BY <1>9 DEF DeleteRead, DeleteReadsCoupon, DeleteAborts, WhatToDo, TypeOK, RowsAgree, Live, history,
     strayVars
<1>10. CASE Revive(b)
  BY <1>1, <1>10 DEF Revive, Strays, TypeOK, RowsAgree, Live
<1>11. CASE Recover(b)
  <2>1. claim' \in [Customers -> {"NONE", "OPEN", "USED"}]
    BY <1>11, CouponAssumption DEF Recover, TypeOK
  <2>2. uncounted' \subseteq recovered'
    BY <1>11 DEF Recover, TypeOK
  <2>. QED  BY <1>1, <1>11, <2>1, <2>2 DEF Recover, TypeOK, RowsAgree, Live, strayVars
<1>. QED  BY <1>3, <1>4, <1>5, <1>7, <1>8, <1>9, <1>10, <1>11 DEF End, Delete

LEMMA ShapeKeeps ==
    ASSUME CouponInv, [Next]_vars
    PROVE  TypeOK' /\ RowsAgree'
<1>. USE DEF CouponInv
<1>1. used' \in 0..Cardinality(Bookings)
  BY UsesKeep
<1>2. CASE \/ \E c \in Customers : ClaimRead(c) \/ ClaimCommit(c)
           \/ Office \/ UNCHANGED vars
  <2>1. UNCHANGED <<booking, via, refunding, deleting, recovered, uncounted, terms, strays, strayed>>
    BY <1>2 DEF ClaimRead, ClaimCommit, Office, AdminSets, AdminDeletes, ValidToPasses, AutoExpire,
       CleanOldExpired, Gone, vars, history, strayVars
  <2>2. RowsAgree'
    BY <2>1 DEF RowsAgree, Live
  <2>3. claim' \in [Customers -> {"NONE", "OPEN", "USED"}] /\ claiming' \subseteq Customers
    BY <1>2 DEF ClaimRead, ClaimCommit, Office, AdminSets, AdminDeletes, ValidToPasses, AutoExpire,
       CleanOldExpired, Gone, vars, history, TypeOK
  <2>4. status' \in CouponStatus /\ valid' \in BOOLEAN /\ off' \in {"NO", "BELOW", "AT"}
        /\ overtaken' \in BOOLEAN
    BY <1>2 DEF ClaimRead, ClaimCommit, Office, AdminSets, AdminDeletes, ValidToPasses, AutoExpire,
       CleanOldExpired, Gone, vars, history, TypeOK, CouponStatus
  <2>. QED  BY <1>1, <2>1, <2>2, <2>3, <2>4 DEF TypeOK
<1>. QED  BY <1>2, BookingsKeep DEF Next, Customer

-----------------------------------------------------------------------------
(* The wallets.                                                            *)

LEMMA ClaimsKeep ==
    ASSUME CouponInv, [Next]_vars
    PROVE  ClaimsCapped'
<1>. USE DEF CouponInv
<1>0. terms' = terms
  BY DEF Next, Customer, Office, End, ClaimRead, ClaimCommit, BookWithVoucher, BookWithCode, Take, Pay,
     EndRead, Cancel, Reap, ClaimedEnd, GiveBack, EndAborts, Delete, DeleteRead, DeleteReadsCoupon,
     HardDelete, DeleteAborts, Revive, Recover, AdminSets, AdminDeletes, ValidToPasses,
     AutoExpire, CleanOldExpired, Gone, vars
<1>1. ASSUME NEW c \in Customers, ClaimCommit(c) PROVE ClaimsCapped'
  <2>1. CASE claim' = claim
    BY <1>0, <2>1 DEF ClaimsCapped, Capped, Claims
  <2>2. CASE claim' # claim
    <3>1. RoomToClaim /\ claim[c] = "NONE" /\ claim' = [claim EXCEPT ![c] = "OPEN"]
      BY <1>1, <2>2 DEF ClaimCommit
    <3>2. Claims' = Claims \cup {c} /\ c \notin Claims
      BY <3>1 DEF Claims, TypeOK
    <3>3. Cardinality(Claims') = Cardinality(Claims) + 1
      BY <3>2, Finite, FS_AddElement
    <3>4. Cardinality(Claims') \in Nat
      BY <3>2, Finite, FS_AddElement, FS_CardinalityType
    <3>. QED  BY <1>0, <3>1, <3>3, <3>4, Finite DEF ClaimsCapped, RoomToClaim, Capped
  <2>. QED  BY <2>1, <2>2
<1>2. CASE Gone
  <2>1. Claims' = {}
    BY <1>2 DEF Gone, Claims
  <2>2. Cardinality(Claims') = 0
    BY <2>1, FS_EmptySet
  <2>. QED  BY <1>0, <2>2, Finite DEF ClaimsCapped
<1>3. ASSUME \A c \in Customers : claim'[c] # "NONE" => claim[c] # "NONE" PROVE ClaimsCapped'
  <2>1. Claims' \subseteq Claims
    BY <1>3 DEF Claims
  <2>2. Cardinality(Claims') <= Cardinality(Claims) /\ Cardinality(Claims') \in Nat
    BY <2>1, Finite, FS_Subset, FS_CardinalityType
  <2>. QED  BY <1>0, <2>2, Finite DEF ClaimsCapped, Capped
<1>4. ASSUME NEW b \in Bookings,
             BookWithVoucher(b) \/ BookWithCode(b) \/ Pay(b) \/ End(b) \/ Delete(b) \/ Revive(b)
           \/ Recover(b)
      PROVE  \A c \in Customers : claim'[c] # "NONE" => claim[c] # "NONE"
  <2>0. Owner[b] \in Customers /\ claim \in [Customers -> {"NONE", "OPEN", "USED"}]
    BY CouponAssumption DEF TypeOK
  <2>1. CASE BookWithVoucher(b)
    BY <2>0, <2>1 DEF BookWithVoucher, InWallet
  <2>2. CASE BookWithCode(b) \/ Pay(b) \/ EndRead(b) \/ EndAborts(b) \/ DeleteRead(b)
             \/ DeleteReadsCoupon(b) \/ DeleteAborts(b) \/ Revive(b)
    BY <2>0, <2>2 DEF BookWithCode, Pay, EndRead, EndAborts, DeleteRead, DeleteReadsCoupon,
       DeleteAborts, Revive
  <2>3. CASE Cancel(b) \/ Reap(b) \/ HardDelete(b)
    BY <2>0, <2>3 DEF Cancel, Reap, ClaimedEnd, HardDelete, GiveBack, GiveBackClaim
  <2>4. CASE Recover(b)
    BY <2>0, <2>4 DEF Recover
  <2>. QED  BY <1>4, <2>1, <2>2, <2>3, <2>4 DEF End, Delete
<1>5. CASE (\E c \in Customers : ClaimRead(c)) \/ UNCHANGED vars \/ ValidToPasses \/ AutoExpire
           \/ \E to \in {"PENDING", "APPROVED", "EXPIRED"} : AdminSets(to)
  <2>1. claim' = claim
    BY <1>5 DEF ClaimRead, vars, ValidToPasses, AutoExpire, AdminSets
  <2>. QED  BY <1>3, <2>1
<1>. QED  BY <1>1, <1>2, <1>3, <1>4, <1>5 DEF Next, Customer, Office, AdminDeletes, CleanOldExpired

\* Who gives a use back late, or closes the coupon below its limit, is known.
LEMMA ClosedKeeps ==
    ASSUME CouponInv, [Next]_vars
    PROVE  ClosedForAReason'
<1>. USE DEF CouponInv
<1>0. /\ used \in Nat /\ terms.limit \in Nat /\ off \in {"NO", "BELOW", "AT"}
      /\ \A b \in Bookings : refunding[b] \in {"IDLE", "KEEP", "REOPEN"}
      /\ status \in CouponStatus
  BY Finite DEF TypeOK
<1>1. ASSUME NEW b \in Bookings, BookWithVoucher(b) \/ BookWithCode(b) PROVE ClosedForAReason'
  BY <1>0, <1>1 DEF BookWithVoucher, BookWithCode, Take, Redeemable, ClosedForAReason, AtCap, Capped
<1>2. ASSUME NEW b \in Bookings, Cancel(b) \/ Reap(b) \/ HardDelete(b) PROVE ClosedForAReason'
  <2>0. PICK toDo : GiveBack(b, toDo)
    BY <1>2 DEF Cancel, Reap, ClaimedEnd, HardDelete
  <2>1. /\ used' = IF UseToReturn THEN used - 1 ELSE used
        /\ status' = IF UseToReturn /\ toDo = "REOPEN" THEN "APPROVED" ELSE status
        /\ overtaken' = (overtaken \/ toDo # WhatToDo)
        /\ UNCHANGED <<terms, valid, off>>
    BY <2>0 DEF GiveBack
  <2>2. CASE overtaken'
    BY <2>2 DEF ClosedForAReason
  <2>3. CASE ~overtaken'
    <3>1. toDo = WhatToDo /\ ~overtaken
      BY <2>1, <2>3
    <3>2. AtCap => UseToReturn \/ status = "DELETED"
      BY <1>0 DEF AtCap, Capped, UseToReturn
    <3>. QED  BY <1>0, <2>1, <3>1, <3>2 DEF ClosedForAReason, WhatToDo, ClosedByCap, UseToReturn
  <2>. QED  BY <2>2, <2>3
<1>3. ASSUME NEW b \in Bookings, Recover(b) PROVE ClosedForAReason'
  <2>1. used' \in {used, used + 1} /\ UNCHANGED <<terms, status, valid, off, overtaken>>
    BY <1>3 DEF Recover
  <2>. QED  BY <1>0, <2>1 DEF ClosedForAReason, AtCap, Capped
<1>4. ASSUME NEW to \in {"PENDING", "APPROVED", "EXPIRED"}, AdminSets(to) PROVE ClosedForAReason'
  BY <1>4 DEF AdminSets, ClosedForAReason, AtCap
<1>5. CASE AdminDeletes \/ ValidToPasses \/ AutoExpire \/ CleanOldExpired
  BY <1>5 DEF AdminDeletes, ValidToPasses, AutoExpire, CleanOldExpired, Gone, ClosedForAReason
<1>6. CASE \/ \E c \in Customers : ClaimRead(c) \/ ClaimCommit(c)
           \/ \E b \in Bookings : Pay(b) \/ EndRead(b) \/ EndAborts(b)
           \/ \E b \in Bookings : DeleteRead(b) \/ DeleteReadsCoupon(b) \/ DeleteAborts(b)
           \/ \E b \in Bookings : Revive(b)
           \/ UNCHANGED vars
  <2>1. UNCHANGED <<terms, status, used, valid, off, overtaken>>
    BY <1>6 DEF ClaimRead, ClaimCommit, Pay, EndRead, EndAborts, DeleteRead, DeleteReadsCoupon,
       DeleteAborts, Revive, vars, history
  <2>. QED  BY <2>1 DEF ClosedForAReason, AtCap, Capped
<1>. QED  BY <1>1, <1>2, <1>3, <1>4, <1>5, <1>6 DEF Next, Customer, End, Delete, Office

-----------------------------------------------------------------------------
(* One use each.                                                           *)

\* The three parts about uses, for one booking that changes.
OneUseParts == VoucherNotLost /\ VoucherOnBooking /\ CodesApart

\* A booking with a voucher, or with a code.
LEMMA TakeKeepsUses ==
    ASSUME CouponInv, NEW b \in Bookings, BookWithVoucher(b) \/ BookWithCode(b)
    PROVE  OneUseParts'
<1>. USE DEF CouponInv
<1>. DEFINE o == Owner[b]
<1>0. o \in Customers /\ claim \in [Customers -> {"NONE", "OPEN", "USED"}]
  BY CouponAssumption DEF TypeOK
<1>1. PICK how \in {"VOUCHER", "CODE"} : Take(b, how) /\ (how = "VOUCHER" <=> BookWithVoucher(b))
                                        /\ (how = "CODE" => BookWithCode(b))
  BY DEF BookWithVoucher, BookWithCode, Take, TypeOK
<1>2. /\ booking[b] = "NONE" /\ via[b] = "NONE" /\ status # "DELETED"
      /\ LiveBookings' = LiveBookings \cup {b} /\ b \notin LiveBookings
      /\ via' = [via EXCEPT ![b] = how] /\ UNCHANGED <<recovered, strayed>>
  BY <1>1 DEF Take, Redeemable, LiveBookings, Live, TypeOK, RowsAgree, history, strayVars
<1>3. \A c \in Customers : Typed(c) => Typed(c)'
  BY <1>2 DEF Typed, TypeOK
<1>4. \A c \in Customers : /\ LiveOf(c)' = LiveOf(c) \cup {x \in {b} : Owner[x] = c}
                           /\ RestoredOf(c)' = RestoredOf(c)
  BY <1>2 DEF LiveOf, RestoredOf
<1>5. CASE how = "VOUCHER"
  <2>1. claim[o] = "OPEN" /\ claim' = [claim EXCEPT ![o] = "USED"]
    BY <1>1, <1>5 DEF BookWithVoucher, InWallet
  <2>2. VoucherNotLost'
    BY <1>0, <1>2, <2>1 DEF VoucherNotLost
  <2>3. VoucherOnBooking'
    BY <1>0, <1>2, <1>3, <1>4, <2>1 DEF VoucherOnBooking
  <2>4. CodesApart'
    BY <1>2, <1>5 DEF CodesApart, LiveBookings, TypeOK
  <2>. QED  BY <2>2, <2>3, <2>4 DEF OneUseParts
<1>6. CASE how = "CODE"
  <2>1. claim' = claim /\ ~UsedBefore(o)
    BY <1>1, <1>6 DEF BookWithCode
  <2>2. VoucherNotLost'
    BY <1>2, <2>1 DEF VoucherNotLost
  <2>3. Typed(o)'
    BY <1>2, <1>6 DEF Typed, TypeOK
  <2>4. VoucherOnBooking'
    BY <1>0, <1>2, <1>3, <1>4, <2>1, <2>3 DEF VoucherOnBooking
  <2>5. CodesApart'
    BY <1>2, <2>1 DEF CodesApart, UsedBefore, LiveBookings, TypeOK
  <2>. QED  BY <2>2, <2>4, <2>5 DEF OneUseParts
<1>. QED  BY <1>5, <1>6

\* The end of a booking, which hands the voucher back; and one that comes back.
LEMMA EndKeepsUses ==
    ASSUME CouponInv, NEW b \in Bookings,
           Cancel(b) \/ Reap(b) \/ HardDelete(b) \/ Revive(b) \/ Recover(b)
    PROVE  OneUseParts'
<1>. USE DEF CouponInv
<1>. DEFINE o == Owner[b]
<1>0. o \in Customers /\ claim \in [Customers -> {"NONE", "OPEN", "USED"}]
  BY CouponAssumption DEF TypeOK
<1>1. CASE Cancel(b) \/ Reap(b) \/ HardDelete(b)
  <2>1. /\ LiveBookings' = LiveBookings \ {b} /\ UNCHANGED <<via, recovered>>
        /\ claim' = GiveBackClaim(o) /\ (status' = "DELETED" <=> status = "DELETED")
    BY <1>1 DEF Cancel, Reap, ClaimedEnd, HardDelete, GiveBack, LiveBookings, Live, TypeOK, UseToReturn
  <2>2. /\ claim'[o] # "USED"
        /\ \A c \in Customers \ {o} : claim'[c] = claim[c]
    BY <1>0, <2>1 DEF GiveBackClaim
  <2>3. \/ strayed' = strayed /\ Live(b)
        \/ strayed' = strayed \cup {b}
    BY <1>1 DEF Cancel, Reap, ClaimedEnd, HardDelete, Strays, RowsAgree, strayVars
  <2>4. VoucherNotLost'
    BY <1>0, <2>1, <2>2 DEF VoucherNotLost
  <2>5. VoucherOnBooking'
    <3>1. \A c \in Customers \ {o} :
             LiveOf(c)' = LiveOf(c) /\ RestoredOf(c)' = RestoredOf(c) /\ Typed(c)' = Typed(c)
      BY <2>1, <2>3 DEF LiveOf, RestoredOf, Typed
    <3>2. CASE strayed' = strayed /\ Live(b)
      <4>1. /\ LiveOf(o)' = LiveOf(o) \ {b} /\ b \in LiveOf(o)
            /\ RestoredOf(o)' = RestoredOf(o) /\ Typed(o)' = Typed(o)
        BY <2>1, <3>2 DEF LiveOf, RestoredOf, Typed, LiveBookings
      <4>. QED  BY <1>0, <2>1, <2>2, <3>1, <4>1 DEF VoucherOnBooking
    <3>3. CASE strayed' = strayed \cup {b}
      <4>1. b \in RestoredOf(o)'
        BY <3>3 DEF RestoredOf
      <4>. QED  BY <1>0, <2>1, <2>2, <3>1, <4>1 DEF VoucherOnBooking
    <3>. QED  BY <2>3, <3>2, <3>3
  <2>6. CodesApart'
    BY <2>1, <2>3 DEF CodesApart
  <2>. QED  BY <2>4, <2>5, <2>6 DEF OneUseParts
<1>2. CASE Revive(b) \/ Recover(b)
  <2>1. /\ LiveBookings' = LiveBookings \cup {b} /\ UNCHANGED <<via, status>>
        /\ (recovered \cup strayed)' = recovered \cup strayed \cup {b}
    BY <1>2 DEF Revive, Strays, Recover, LiveBookings, Live, TypeOK, strayVars
  <2>2. \A c \in Customers \ {o} : claim'[c] = claim[c]
    BY <1>0, <1>2 DEF Revive, Recover
  <2>3. \A c \in Customers \ {o} : /\ LiveOf(c)' = LiveOf(c) /\ RestoredOf(c)' = RestoredOf(c)
                                   /\ Typed(c)' = Typed(c)
    BY <2>1 DEF LiveOf, RestoredOf, Typed
  <2>4. b \in RestoredOf(o)' /\ b \in LiveBookings'
    BY <2>1 DEF RestoredOf
  <2>5. VoucherNotLost'
    BY <1>0, <2>1, <2>2, <2>4 DEF VoucherNotLost
  <2>6. VoucherOnBooking'
    BY <1>0, <2>1, <2>2, <2>3, <2>4 DEF VoucherOnBooking
  <2>7. CodesApart'
    BY <2>1 DEF CodesApart
  <2>. QED  BY <2>5, <2>6, <2>7 DEF OneUseParts
<1>. QED  BY <1>1, <1>2

LEMMA UsesApart ==
    ASSUME CouponInv, [Next]_vars
    PROVE  OneUseParts'
<1>. USE DEF CouponInv
<1>1. CASE Gone
  <2>1. VoucherNotLost' /\ VoucherOnBooking'
    BY <1>1 DEF Gone, VoucherNotLost, VoucherOnBooking
  <2>2. CodesApart'
    BY <1>1 DEF Gone, CodesApart, LiveBookings, Live, history, strayVars
  <2>. QED  BY <2>1, <2>2 DEF OneUseParts
<1>2. CASE \/ \E c \in Customers : ClaimRead(c) \/ ClaimCommit(c)
           \/ \E b \in Bookings : Pay(b) \/ EndRead(b) \/ EndAborts(b)
           \/ \E b \in Bookings : DeleteRead(b) \/ DeleteReadsCoupon(b) \/ DeleteAborts(b)
           \/ ValidToPasses \/ AutoExpire \/ UNCHANGED vars
           \/ \E to \in {"PENDING", "APPROVED", "EXPIRED"} : AdminSets(to)
  <2>1. LiveBookings' = LiveBookings /\ UNCHANGED <<via, recovered, strayed>>
    BY <1>2 DEF ClaimRead, ClaimCommit, Pay, EndRead, EndAborts, DeleteRead, DeleteReadsCoupon,
       DeleteAborts, ValidToPasses, AutoExpire, AdminSets, vars, history, strayVars, LiveBookings, Live,
       TypeOK
  <2>2. \A c \in Customers : claim'[c] = "USED" <=> claim[c] = "USED"
    BY <1>2 DEF ClaimRead, ClaimCommit, Pay, EndRead, EndAborts, DeleteRead, DeleteReadsCoupon,
       DeleteAborts, ValidToPasses, AutoExpire, AdminSets, vars, TypeOK
  <2>3. status' = "DELETED" <=> status = "DELETED"
    BY <1>2 DEF ClaimRead, ClaimCommit, Pay, EndRead, EndAborts, DeleteRead, DeleteReadsCoupon,
       DeleteAborts, ValidToPasses, AutoExpire, AdminSets, vars
  <2>4. VoucherNotLost' /\ CodesApart'
    BY <2>1, <2>2 DEF VoucherNotLost, CodesApart
  <2>5. VoucherOnBooking'
    BY <2>1, <2>2, <2>3 DEF VoucherOnBooking, LiveOf, RestoredOf, Typed
  <2>. QED  BY <2>4, <2>5 DEF OneUseParts
<1>. QED  BY <1>1, <1>2, TakeKeepsUses, EndKeepsUses DEF Next, Customer, End, Delete, Office,
          AdminDeletes, CleanOldExpired

-----------------------------------------------------------------------------

LEMMA InitHolds == Init => CouponInv
<1>. SUFFICES ASSUME Init PROVE CouponInv
  OBVIOUS
<1>1. LiveBookings = {} /\ Claims = {} /\ uncounted = {}
  BY DEF Init, LiveBookings, Live, Claims
<1>2. Cardinality(LiveBookings) = 0 /\ Cardinality(Claims) = 0 /\ Cardinality(uncounted) = 0
  BY <1>1, FS_EmptySet
<1>3. Cardinality(Bookings) \in Nat /\ terms.limit \in Nat
  BY CouponAssumption, FS_CardinalityType DEF Init
<1>4. TypeOK /\ RowsAgree
  <2>1. used \in 0..Cardinality(Bookings)
    BY <1>3 DEF Init
  <2>2. status \in CouponStatus
    BY DEF Init, CouponStatus
  <2>. QED  BY <2>1, <2>2 DEF Init, TypeOK, RowsAgree
<1>5. UsesCounted /\ ClosedForAReason /\ ClaimsCapped
  BY <1>2, <1>3 DEF Init, UsesCounted, ClosedForAReason, ClaimsCapped
<1>6. VoucherNotLost /\ VoucherOnBooking /\ CodesApart
  BY <1>1 DEF Init, VoucherNotLost, VoucherOnBooking, CodesApart, LiveOf
<1>. QED  BY <1>4, <1>5, <1>6 DEF CouponInv

LEMMA StepKeeps == CouponInv /\ [Next]_vars => CouponInv'
  BY UsesKeep, ShapeKeeps, ClaimsKeep, ClosedKeeps, UsesApart DEF CouponInv, OneUseParts

\* Each variable keeps its type; a use is never counted below zero.
THEOREM TypeCorrect == Spec => []TypeOK
<1>1. CouponInv => TypeOK
  BY DEF CouponInv
<1>. QED  BY <1>1, InitHolds, StepKeeps, PTL DEF Spec

\* usedCount never passes the limit and never exceeds the bookings that live
\* with the coupon; it falls short of them by no more than the recoveries past
\* the limit and the writes on an old read of a booking: the hard delete that
\* returns a use again, the revival that takes none (createBooking,
\* refundCouponUsage, cancelBooking, updateBookingStatus,
\* attemptB2OrphanRecovery).
THEOREM UsesAreCounted == Spec => []UsesCounted
<1>1. CouponInv => UsesCounted
  BY DEF CouponInv
<1>. QED  BY <1>1, InitHolds, StepKeeps, PTL DEF Spec

\* A coupon with time left that is closed below its limit was closed by an
\* admin, or a refund worked on an old read of it (refundCouponUsage).
THEOREM ClosedHasAReason == Spec => []ClosedForAReason
<1>1. CouponInv => ClosedForAReason
  BY DEF CouponInv
<1>. QED  BY <1>1, InitHolds, StepKeeps, PTL DEF Spec

\* However many customers claim at once, no more wallets than uses
\* (claimOffer).
THEOREM ClaimsAreCapped == Spec => []ClaimsCapped
<1>1. CouponInv => ClaimsCapped
  BY DEF CouponInv
<1>. QED  BY <1>1, InitHolds, StepKeeps, PTL DEF Spec

\* A customer's right to one use is not lost, whatever a stale hard delete or a
\* revival does, and not used twice unless a booking of theirs was recovered or
\* met with one of these (createBooking, refundCouponUsage, cancelBooking).
THEOREM OneUseForEach == Spec => []OneUseEach
<1>1. ASSUME CouponInv PROVE OneUseEach
  <2>. USE <1>1 DEF CouponInv
  <2>1. ASSUME NEW S \in SUBSET LiveBookings, \A a, b \in S : a = b
        PROVE  Cardinality(S) <= 1 /\ (S = {} => Cardinality(S) = 0)
    <3>1. CASE S = {}
      BY <3>1, FS_EmptySet
    <3>2. CASE S # {}
      <4>1. PICK b : S = {b}
        BY <2>1, <3>2
      <4>2. Cardinality(S) = 1
        BY <4>1, FS_Singleton
      <4>. QED  BY <3>2, <4>2
    <3>. QED  BY <3>1, <3>2
  <2>2. VoucherSpentOnce
    <3>. SUFFICES ASSUME NEW c \in Customers, ~Typed(c), RestoredOf(c) = {}, status # "DELETED"
                  PROVE  Cardinality(LiveOf(c)) <= IF claim[c] = "USED" THEN 1 ELSE 0
      BY DEF VoucherSpentOnce, RestoredOf, LiveOf, TypeOK
    <3>1. /\ \A a, b \in LiveOf(c) : a = b
          /\ LiveOf(c) # {} => claim[c] = "USED"
          /\ LiveOf(c) \in SUBSET LiveBookings
      BY DEF VoucherOnBooking, LiveOf
    <3>2. Cardinality(LiveOf(c)) <= 1 /\ (LiveOf(c) = {} => Cardinality(LiveOf(c)) = 0)
      BY <2>1, <3>1
    <3>. QED  BY <3>1, <3>2
  <2>3. TypedOnce
    BY <2>1 DEF TypedOnce, CodesApart
  <2>. QED  BY <2>2, <2>3 DEF OneUseEach
<1>. QED  BY <1>1, InitHolds, StepKeeps, PTL DEF Spec

\* Until a recovery, a coupon that was switched off with uses left has them.
OffInv ==
    off = "BELOW" /\ ~overtaken /\ recovered = {} =>
        /\ status # "APPROVED"
        /\ status # "DELETED" => ~AtCap

\* What an admin switched off stays off: only a refund with an old read of the
\* coupon switches it on, or one after a recovery took the last use
\* (updateCouponStatus, refundCouponUsage, attemptB2OrphanRecovery).
THEOREM OffIsOff == Spec => []OffStaysOff
<1>1. Init => OffInv
  BY DEF Init, OffInv
<1>2. TypeOK /\ OffInv /\ [Next]_vars => OffInv'
  <2>. SUFFICES ASSUME TypeOK, OffInv, [Next]_vars,
                       (off = "BELOW" /\ ~overtaken /\ recovered = {})'
                PROVE  (status # "APPROVED" /\ (status # "DELETED" => ~AtCap))'
    BY DEF OffInv
  <2>0. terms.limit \in Nat /\ used \in Nat
    BY Finite DEF TypeOK
  <2>1. CASE \E c \in Customers : ClaimRead(c) \/ ClaimCommit(c)
    BY <2>1 DEF ClaimRead, ClaimCommit, history, OffInv, AtCap, Capped
  <2>2. CASE \E b \in Bookings : BookWithVoucher(b) \/ BookWithCode(b)
    BY <2>2 DEF BookWithVoucher, BookWithCode, Take, Redeemable, history, OffInv
  <2>3. CASE \E b \in Bookings : \/ Pay(b) \/ EndRead(b) \/ EndAborts(b) \/ DeleteRead(b)
                                \/ DeleteReadsCoupon(b) \/ DeleteAborts(b) \/ Revive(b)
    BY <2>3 DEF Pay, EndRead, EndAborts, DeleteRead, DeleteReadsCoupon, DeleteAborts, Revive, history,
       OffInv, AtCap, Capped
  <2>4. CASE \E b \in Bookings : Cancel(b) \/ Reap(b) \/ HardDelete(b)
    <3>1. PICK b \in Bookings, toDo \in {"KEEP", "REOPEN"} : GiveBack(b, toDo)
      BY <2>4 DEF Cancel, Reap, ClaimedEnd, HardDelete, TypeOK
    <3>2. /\ toDo = WhatToDo
          /\ UNCHANGED <<off, recovered, terms>> /\ ~overtaken
      BY <3>1 DEF GiveBack
    <3>3. toDo # "REOPEN" /\ status' = status
      BY <3>1, <3>2 DEF GiveBack, WhatToDo, ClosedByCap, OffInv
    <3>4. used' <= used /\ used' \in Int
      BY <2>0, <3>1 DEF GiveBack
    <3>. QED  BY <2>0, <3>2, <3>3, <3>4 DEF OffInv, AtCap, Capped
  <2>5. CASE \E b \in Bookings : Recover(b)
    BY <2>5 DEF Recover
  <2>6. CASE \E to \in {"PENDING", "APPROVED", "EXPIRED"} : AdminSets(to)
    BY <2>6 DEF AdminSets, AtCap, Capped
  <2>7. CASE Gone
    BY <2>7 DEF Gone
  <2>8. CASE ValidToPasses \/ AutoExpire \/ UNCHANGED vars
    BY <2>8 DEF ValidToPasses, AutoExpire, vars, history, OffInv, AtCap, Capped
  <2>. QED
    BY <2>1, <2>2, <2>3, <2>4, <2>5, <2>6, <2>7, <2>8
       DEF Next, Customer, End, Delete, Office, AdminDeletes, CleanOldExpired
<1>3. OffInv => OffStaysOff
  BY DEF OffInv, OffStaysOff
<1>. QED  BY <1>1, <1>2, <1>3, TypeCorrect, PTL DEF Spec
=============================================================================
