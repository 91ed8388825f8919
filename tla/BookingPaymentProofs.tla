------------------------ MODULE BookingPaymentProofs ------------------------
(* Theorems about BookingPayment for any number of bookings, transactions, *)
(* seats and status changes.                                               *)
EXTENDS BookingPayment, FiniteSetTheorems, TLAPS

-----------------------------------------------------------------------------
(* Types.                                                                  *)

\* The customer's and the gateway's steps keep every variable in its type.
LEMMA CustomerGatewayType ==
    ASSUME TypeOK, NEW b \in Bookings, Customer(b) \/ Gateway(b)
    PROVE  TypeOK'
<1>. USE DEF updateVars
<1>1. ASSUME NEW m \in Modes, CreateBooking(b, m) PROVE TypeOK'
  BY <1>1, ConstantsAssumption DEF CreateBooking, TypeOK, Source, BookingStatus, PaymentStatus,
     gatewayVars, payoutVars, flightVars
<1>2. ASSUME InitiatePayment(b) PROVE TypeOK'
  BY <1>2 DEF InitiatePayment, TypeOK, gatewayVars, pointVars, payoutVars, flightVars
<1>3. ASSUME CancelRead(b) PROVE TypeOK'
  <2>1. CancelBranch(b) \in Branch
    BY DEF CancelBranch, Branch
  <2>. QED  BY <1>3, <2>1 DEF CancelRead, TypeOK, rowVars, gatewayVars, pointVars, payoutVars
<1>4. ASSUME CancelAbort(b) PROVE TypeOK'
  BY <1>4 DEF CancelAbort, TypeOK, rowVars, gatewayVars, pointVars, payoutVars
<1>5. ASSUME CancelCommit(b) PROVE TypeOK'
  <2>1. /\ PointsBack(b, "CANCEL_REFUND_PAID") \subseteq Source
        /\ PointsBack(b, "CANCEL_REFUND_UNPAID") \subseteq Source
    BY DEF PointsBack, Source
  <2>2. /\ booking' \in [Bookings -> BookingStatus]
        /\ payment' \in [Bookings -> PaymentStatus]
        /\ ledger' \in [Bookings -> SUBSET Source]
        /\ cancelledBy' \in [Bookings -> {"NOBODY", "CUSTOMER", "VENDOR", "ADMIN"}]
        /\ mishaps' \in [Bookings -> SUBSET Mishap]
    <3>1. CASE \E from, pay \in PaymentStatus,
                  source \in {"CANCEL_REFUND_PAID", "CANCEL_REFUND_UNPAID"} :
                     SoftCancel(b, from, pay, source)
      BY <2>1, <3>1 DEF SoftCancel, TypeOK, BookingStatus, PaymentStatus
    <3>2. CASE HardDelete(b)
      BY <2>1, <3>2 DEF HardDelete, TypeOK, BookingStatus, PaymentStatus, Mishap
    <3>. QED  BY <1>5, <3>1, <3>2 DEF CancelCommit, PaymentStatus
  <2>3. cancelRead' \in [Bookings -> SUBSET Branch]
    BY <1>5 DEF CancelCommit, CancelEnds, TypeOK
  <2>. QED  BY <1>5, <2>2, <2>3 DEF CancelCommit, TypeOK, gatewayVars, payoutVars
<1>6. ASSUME NEW t \in Txns, Capture(b, t) PROVE TypeOK'
  BY <1>6 DEF Capture, TypeOK, rowVars, pointVars, payoutVars, flightVars
<1>7. ASSUME NEW t \in Txns, SuccessCallback(b, t) PROVE TypeOK'
  <2>1. CASE CaptureSuccess(b, t)
    BY <1>7, <2>1 DEF SuccessCallback, CaptureSuccess, BookingAfterCapture, RecoveryAfterCapture,
       TypeOK, BookingStatus, PaymentStatus, pointVars, payoutVars
  <2>2. CASE CaptureAgain(b, t)
    BY <1>7, <2>2 DEF SuccessCallback, CaptureAgain, TypeOK, pointVars, payoutVars
  <2>3. CASE CaptureIgnored(b)
    BY <1>7, <2>3 DEF SuccessCallback, CaptureIgnored, TypeOK, pointVars, payoutVars
  <2>. QED  BY <1>7, <2>1, <2>2, <2>3 DEF SuccessCallback
<1>8. ASSUME FailureCallback(b) PROVE TypeOK'
  BY <1>8 DEF FailureCallback, PointsBack, TypeOK, Source, BookingStatus, PaymentStatus,
     gatewayVars, payoutVars, flightVars
<1>9. ASSUME NapsHold(b) PROVE TypeOK'
  BY <1>9 DEF NapsHold, TypeOK, gatewayVars, pointVars, payoutVars, flightVars
<1>10. ASSUME NEW t \in Txns, CaptureRead(b, t) PROVE TypeOK'
  BY <1>10 DEF CaptureRead, TypeOK, rowVars, gatewayVars, pointVars, payoutVars
<1>11. ASSUME CaptureCommit(b) PROVE TypeOK'
  <2>1. captureRead[b] \in Txns
    BY <1>11 DEF CaptureCommit, TypeOK
  <2>2. Revival(b) \subseteq Mishap
    BY DEF Revival, Mishap
  <2>. QED
    BY <1>11, <2>1, <2>2 DEF CaptureCommit, TypeOK, BookingStatus, PaymentStatus, pointVars, payoutVars
<1>12. ASSUME CaptureAbort(b) PROVE TypeOK'
  BY <1>12 DEF CaptureAbort, TypeOK, rowVars, gatewayVars, pointVars, payoutVars
<1>. QED
  BY <1>1, <1>2, <1>3, <1>4, <1>5, <1>6, <1>7, <1>8, <1>9, <1>10, <1>11, <1>12
     DEF Customer, Gateway

\* The callback's recovery and the cron keep every variable in its type.
LEMMA RecoveryCronType ==
    ASSUME TypeOK,
           (\E b \in Bookings : Recovery(b) \/ Crash(b)) \/ Cron \/ SlotTime
    PROVE  TypeOK'
<1>. USE DEF updateVars
<1>1. ASSUME NEW b \in Bookings, B2GiveUp(b) \/ Crash(b) PROVE TypeOK'
  BY <1>1 DEF B2GiveUp, Crash, TypeOK, Mishap, rowVars, gatewayVars, pointVars, payoutVars
<1>2. ASSUME NEW b \in Bookings, B2Recreate(b) PROVE TypeOK'
  <2>1. PointsBack(b, "BOOKING_REDEEM") \subseteq Source
    BY DEF PointsBack, Source
  <2>. QED  BY <1>2, <2>1 DEF B2Recreate, TypeOK, BookingStatus, gatewayVars, payoutVars
<1>3. ASSUME NEW b \in Bookings, B2SlotConflict(b) PROVE TypeOK'
  BY <1>3 DEF B2SlotConflict, TypeOK, rowVars, gatewayVars, pointVars, payoutVars
<1>4. ASSUME NEW b \in Bookings, QueueB2Refund(b) PROVE TypeOK'
  BY <1>4 DEF QueueB2Refund, TypeOK, PaymentStatus, gatewayVars, pointVars, payoutVars
<1>5. ASSUME CronScan \/ CronAbort PROVE TypeOK'
  BY <1>5 DEF CronScan, CronAbort, TypeOK, rowVars, gatewayVars, pointVars, payoutVars
<1>6. ASSUME CronReap PROVE TypeOK'
  <2>1. \A b \in Bookings : PointsBack(b, "CANCEL_REFUND_UNPAID") \subseteq Source
    BY DEF PointsBack, Source
  <2>2. booking' \in [Bookings -> BookingStatus] /\ payment' \in [Bookings -> PaymentStatus]
    BY <1>6 DEF CronReap, TypeOK, BookingStatus, PaymentStatus
  <2>3. ledger' \in [Bookings -> SUBSET Source]
    BY <1>6, <2>1 DEF CronReap, TypeOK
  <2>. QED  BY <1>6, <2>2, <2>3 DEF CronReap, TypeOK, gatewayVars, payoutVars
<1>7. ASSUME SlotTime PROVE TypeOK'
  BY <1>7 DEF SlotTime, TypeOK, rowVars, gatewayVars, pointVars, payoutVars, flightVars
<1>. QED
  BY <1>1, <1>2, <1>3, <1>4, <1>5, <1>6, <1>7 DEF Recovery, Cron

\* The staff's status changes keep every variable in its type.
LEMMA UpdateType ==
    ASSUME TypeOK, NEW b \in Bookings,
           \/ StaffRead(b, "CONFIRMED") \/ StaffRead(b, "COMPLETED") \/ StaffCommit(b)
           \/ StaffAbort(b) \/ VendorCancel(b) \/ AdminCancel(b)
    PROVE  TypeOK'
<1>. USE DEF updateVars
<1>1. ASSUME NEW to, StaffRead(b, to) PROVE TypeOK'
  <2>1. ChangeOf(b, to) \in Change
    BY DEF ChangeOf, Change
  <2>. QED  BY <1>1, <2>1 DEF StaffRead, TypeOK, rowVars, gatewayVars, pointVars, payoutVars
<1>2. ASSUME StaffAbort(b) PROVE TypeOK'
  BY <1>2 DEF StaffAbort, TypeOK, rowVars, gatewayVars, pointVars, payoutVars
<1>3. ASSUME StaffCommit(b) PROVE TypeOK'
  <2>1. /\ booking' \in [Bookings -> BookingStatus]
        /\ ledger' \in [Bookings -> SUBSET Source]
        /\ awarded' \in [Bookings -> BOOLEAN]
        /\ mishaps' \in [Bookings -> SUBSET Mishap]
    <3>. USE DEF Revival, Haste, Mishap
    <3>1. CASE Confirm(b)
      BY <3>1 DEF Confirm, TypeOK, BookingStatus
    <3>2. CASE Complete(b, FALSE)
      BY <3>2 DEF Complete, TypeOK, BookingStatus
    <3>3. CASE Complete(b, TRUE)
      <4>1. awarded' \in [Bookings -> BOOLEAN]
        BY <3>3, Zenon DEF Complete, TypeOK
      <4>. QED  BY <3>3, <4>1 DEF Complete, TypeOK, BookingStatus, Source
    <3>. QED  BY <1>3, <3>1, <3>2, <3>3 DEF StaffCommit
  <2>2. staffRead' \in [Bookings -> SUBSET Change]
    <3>1. \E change : ChangeEnds(b, change)
      BY <1>3, Zenon DEF StaffCommit
    <3>. QED  BY <3>1 DEF ChangeEnds, TypeOK
  <2>. QED  BY <1>3, <2>1, <2>2 DEF StaffCommit, TypeOK, gatewayVars, payoutVars
<1>4. ASSUME NEW who \in {"VENDOR", "ADMIN"},
             NEW source \in RefundRows,
             CancelWithRefund(b, who, source)
      PROVE  /\ booking' \in [Bookings -> BookingStatus]
             /\ ledger' \in [Bookings -> SUBSET Source]
             /\ awarded' \in [Bookings -> BOOLEAN]
             /\ cancelledBy' \in [Bookings -> {"NOBODY", "CUSTOMER", "VENDOR", "ADMIN"}]
             /\ payment' \in [Bookings -> PaymentStatus]
             /\ clawback' \in [Bookings -> BOOLEAN]
  <2>1. /\ PointsBack(b, "CANCEL_REFUND_PAID") \subseteq Source
        /\ Reversal(b) \subseteq Source
        /\ RefundRow(b, payment[b], source) \subseteq Source
    BY DEF RefundRow, PointsBack, Reversal, Source, RefundRows
  <2>2. ledger' \in [Bookings -> SUBSET Source]
    BY <1>4, <2>1 DEF CancelWithRefund, TypeOK
  <2>3. payment' \in [Bookings -> PaymentStatus]
    BY <1>4 DEF CancelWithRefund, TypeOK, PaymentStatus
  <2>. QED  BY <1>4, <2>2, <2>3 DEF CancelWithRefund, TypeOK, BookingStatus
<1>5. ASSUME VendorCancel(b) \/ AdminCancel(b) PROVE TypeOK'
  <2>1. \E who \in {"VENDOR", "ADMIN"}, source \in RefundRows : CancelWithRefund(b, who, source)
    BY <1>5 DEF VendorCancel, AdminCancel, RefundRows
  <2>2. UNCHANGED <<mode, basket, hold, age, gatewayVars, payout, flightVars, recreated, phase, mishaps>>
    BY <1>5 DEF VendorCancel, AdminCancel
  <2>. QED  BY <1>4, <2>1, <2>2 DEF TypeOK, gatewayVars, flightVars
<1>. QED  BY <1>1, <1>2, <1>3, <1>5

\* The rest of the staff's steps, the slot crons and time keep every variable
\* in its type.
LEMMA StaffType ==
    ASSUME TypeOK, NEW b \in Bookings, Staff(b) \/ AfterSlot(b) \/ Time(b)
    PROVE  TypeOK'
<1>. USE DEF updateVars
<1>1. ASSUME \/ \E to \in {"CONFIRMED", "COMPLETED"} : StaffRead(b, to)
             \/ StaffCommit(b) \/ StaffAbort(b) \/ VendorCancel(b) \/ AdminCancel(b)
      PROVE  TypeOK'
  BY <1>1, UpdateType
<1>2. ASSUME CascadeRead(b) \/ CascadeSkip(b) PROVE TypeOK'
  BY <1>2 DEF CascadeRead, CascadeSkip, TypeOK, PaymentStatus, rowVars, gatewayVars, pointVars,
     payoutVars
<1>3. ASSUME CascadeCommit(b) PROVE TypeOK'
  <2>1. /\ PointsBack(b, "CANCEL_REFUND_PAID") \subseteq Source
        /\ RefundRow(b, cascadeRead[b], "ADMIN_REFUND_APPROVED") \subseteq Source
    BY DEF RefundRow, PointsBack, Source
  <2>2. ledger' \in [Bookings -> SUBSET Source]
    BY <1>3, <2>1 DEF CascadeCommit, TypeOK
  <2>3. payment' \in [Bookings -> PaymentStatus]
    BY <1>3 DEF CascadeCommit, TypeOK, PaymentStatus
  <2>4. cascadeRead' \in [Bookings -> PaymentStatus]
    BY <1>3 DEF CascadeCommit, TypeOK, PaymentStatus
  <2>5. mishaps' \in [Bookings -> SUBSET Mishap]
    BY <1>3 DEF CascadeCommit, TypeOK, Mishap
  <2>. QED
    BY <1>3, <2>2, <2>3, <2>4, <2>5 DEF CascadeCommit, TypeOK, BookingStatus, gatewayVars, payoutVars
<1>4. ASSUME CascadeResolve(b) \/ RecordRefundDecision(b) PROVE TypeOK'
  <2>1. PICK pay \in PaymentStatus, rows \in SUBSET Source : SettleRefund(b, pay, rows)
    <3>1. /\ {"REFUNDED", "REJECTED"} \subseteq PaymentStatus
          /\ {} \in SUBSET Source
          /\ {"ADMIN_REFUND_APPROVED"} \in SUBSET Source
          /\ {"VENDOR_REFUND_APPROVED"} \in SUBSET Source
      BY DEF PaymentStatus, Source
    <3>2. CASE CascadeResolve(b)
      BY <3>1, <3>2 DEF CascadeResolve
    <3>3. CASE RecordRefundDecision(b)
      BY <3>1, <3>3, Zenon DEF RecordRefundDecision
    <3>. QED  BY <1>4, <3>2, <3>3
  <2>2. clawback' \in [Bookings -> BOOLEAN]
    <3>1. \/ UNCHANGED clawback
          \/ clawback' = [clawback EXCEPT ![b] = @ \/ payout[b] = "PAID"]
      BY <1>4 DEF CascadeResolve, RecordRefundDecision
    <3>2. clawback \in [Bookings -> BOOLEAN] /\ (clawback[b] \/ payout[b] = "PAID") \in BOOLEAN
      BY DEF TypeOK
    <3>. QED  BY <3>1, <3>2
  <2>3. payment' \in [Bookings -> PaymentStatus] /\ ledger' \in [Bookings -> SUBSET Source]
    BY <2>1 DEF SettleRefund, TypeOK
  <2>4. UNCHANGED <<booking, cancelledBy, mode, basket, hold, age, gatewayVars, awarded,
                    payout, flightVars, recreated, phase, mishaps>>
    BY <2>1 DEF SettleRefund
  <2>. QED  BY <2>2, <2>3, <2>4 DEF TypeOK, gatewayVars, flightVars
<1>5. ASSUME MarkPayoutsPaid(b) \/ MarkPayoutUnpaid(b) PROVE TypeOK'
  BY <1>5 DEF MarkPayoutsPaid, MarkPayoutUnpaid, TypeOK, rowVars, gatewayVars, pointVars, flightVars
<1>6. ASSUME AwardLoyalty(b) PROVE TypeOK'
  BY <1>6 DEF AwardLoyalty, TypeOK, Source, rowVars, gatewayVars, payoutVars, flightVars
<1>7. ASSUME AutoComplete(b) PROVE TypeOK'
  BY <1>7 DEF AutoComplete, TypeOK, BookingStatus, gatewayVars, pointVars, payoutVars, flightVars
<1>8. ASSUME HoldExpires(b) \/ AgePasses(b) PROVE TypeOK'
  BY <1>8 DEF HoldExpires, AgePasses, TypeOK, gatewayVars, pointVars, payoutVars, flightVars
<1>. QED
  BY <1>1, <1>2, <1>3, <1>4, <1>5, <1>6, <1>7, <1>8 DEF Staff, AfterSlot, Time

\* Every variable keeps its type in every behaviour of the handlers.
THEOREM TypeCorrect == Spec => []TypeOK
<1>1. Init => TypeOK
  BY DEF Init, TypeOK, BookingStatus, PaymentStatus
<1>2. TypeOK /\ [Next]_vars => TypeOK'
  <2>1. ASSUME TypeOK, UNCHANGED vars PROVE TypeOK'
    BY <2>1 DEF TypeOK, vars, updateVars, rowVars, gatewayVars, pointVars, payoutVars, flightVars
  <2>. QED
    BY <2>1, CustomerGatewayType, RecoveryCronType, StaffType DEF Next
<1>. QED  BY <1>1, <1>2, PTL DEF Spec

-----------------------------------------------------------------------------
(* The inductive invariant.  A step touches the rows of one booking (the   *)
(* cron those of its scan), so it is enough to look at that booking.       *)

OneInv(b) == Fresh(b) /\ Ownership(b) /\ Reads(b) /\ Captures(b) /\ Redemption(b)

Rows(b) == <<booking[b], payment[b], mode[b], basket[b], captured[b], acked[b],
             recordedTxn[b], ledger[b], cancelRead[b], cascadeRead[b], recovery[b],
             staffRead[b], captureRead[b], mishaps[b]>>

OthersKept(b) == \A c \in Bookings \ {b} : Rows(c)' = Rows(c)

\* What a booking's rows satisfy depends on nothing else.
LEMMA KeptRows ==
    ASSUME NEW c, OneInv(c), Rows(c)' = Rows(c)
    PROVE  OneInv(c)'
BY DEF OneInv, Rows, Fresh, Ownership, Reads, Captures, Redemption, Cash, Redeemed, Erased,
   Revived

\* The customer's steps.
LEMMA CustomerInv ==
    ASSUME TypeOK, NEW b \in Bookings, OneInv(b), Customer(b)
    PROVE  OneInv(b)' /\ OthersKept(b)
<1>. USE DEF OneInv, Fresh, Ownership, Reads, Captures, Redemption, Cash, Redeemed, Money, Live,
         Erased, Revived, updateVars
<1>1. ASSUME NEW m \in Modes, CreateBooking(b, m) PROVE OneInv(b)' /\ OthersKept(b)
  BY <1>1, ConstantsAssumption DEF CreateBooking, TypeOK, OthersKept, Rows, gatewayVars,
     payoutVars, flightVars
<1>2. ASSUME InitiatePayment(b) PROVE OneInv(b)' /\ OthersKept(b)
  BY <1>2 DEF InitiatePayment, TypeOK, OthersKept, Rows, gatewayVars, pointVars, flightVars
<1>3. ASSUME CancelRead(b) PROVE OneInv(b)' /\ OthersKept(b)
  BY <1>3 DEF CancelRead, CancelBranch, Cancellable, TypeOK, OthersKept, Rows, rowVars,
     gatewayVars, pointVars
<1>4. ASSUME CancelAbort(b) PROVE OneInv(b)' /\ OthersKept(b)
  BY <1>4 DEF CancelAbort, TypeOK, OthersKept, Rows, rowVars, gatewayVars, pointVars
<1>5. ASSUME CancelCommit(b) PROVE OneInv(b)' /\ OthersKept(b)
  <2>0. /\ cancelRead'[b] \subseteq cancelRead[b]
        /\ \A c \in Bookings \ {b} : cancelRead'[c] = cancelRead[c]
        /\ UNCHANGED <<mode, basket, captured, acked, recordedTxn, cascadeRead, recovery,
                       staffRead, captureRead>>
    BY <1>5 DEF CancelCommit, CancelEnds, TypeOK, gatewayVars
  <2>1. ASSUME \E branch \in {"POINTS", "PAID"} : branch \in cancelRead[b],
               NEW pay \in {"REFUNDED", "REFUND_PENDING"},
               SoftCancel(b, "SUCCESS", pay, "CANCEL_REFUND_PAID")
        PROVE  OneInv(b)' /\ OthersKept(b)
    <3>1. /\ payment[b] = "SUCCESS" /\ booking'[b] = "CANCELLED" /\ payment'[b] = pay
          /\ ledger'[b] = ledger[b] \cup PointsBack(b, "CANCEL_REFUND_PAID")
          /\ Writable(b, PointsBack(b, "CANCEL_REFUND_PAID")) /\ UNCHANGED mishaps
      BY <2>1 DEF SoftCancel, TypeOK
    <3>2. OthersKept(b)
      BY <2>0, <2>1 DEF SoftCancel, TypeOK, OthersKept, Rows
    <3>3. booking[b] \notin {"NONE", "DELETED"}
      BY <1>5 DEF CancelCommit, Exists
    <3>. QED  BY <2>0, <2>1, <3>1, <3>2, <3>3 DEF PointsBack, Writable, TypeOK, BookingStatus
  <2>2. ASSUME SoftCancel(b, "PENDING", "FAILED", "CANCEL_REFUND_UNPAID")
        PROVE  OneInv(b)' /\ OthersKept(b)
    <3>1. /\ payment[b] = "PENDING" /\ booking'[b] = "CANCELLED" /\ payment'[b] = "FAILED"
          /\ ledger'[b] = ledger[b] \cup PointsBack(b, "CANCEL_REFUND_UNPAID")
          /\ UNCHANGED mishaps
      BY <2>2 DEF SoftCancel, TypeOK
    <3>2. OthersKept(b)
      BY <2>0, <2>2 DEF SoftCancel, TypeOK, OthersKept, Rows
    <3>3. booking[b] \in Live
      BY <1>5, <3>1 DEF CancelCommit, Exists, TypeOK, BookingStatus
    <3>. QED  BY <2>0, <2>2, <3>1, <3>2, <3>3 DEF PointsBack
  <2>3. ASSUME HardDelete(b)
        PROVE  OneInv(b)' /\ OthersKept(b)
    <3>1. /\ booking[b] \notin {"NONE", "DELETED"} /\ captureRead[b] = NoTxn
          /\ Writable(b, PointsBack(b, "CANCEL_REFUND_UNPAID"))
      BY <1>5, <2>3 DEF CancelCommit, Exists, HardDelete
    <3>2. /\ booking'[b] = "DELETED" /\ payment'[b] = "DELETED"
          /\ ledger'[b] = ledger[b] \cup PointsBack(b, "CANCEL_REFUND_UNPAID")
          /\ mishaps[b] \subseteq mishaps'[b]
          /\ payment[b] \in Money \/ booking[b] = "CANCELLED" => "ERASED" \in mishaps'[b]
      BY <2>3 DEF HardDelete, TypeOK
    <3>3. OthersKept(b)
      BY <2>0, <2>3 DEF HardDelete, TypeOK, OthersKept, Rows
    <3>. QED  BY <2>0, <3>1, <3>2, <3>3 DEF PointsBack, Writable, TypeOK, BookingStatus
  <2>. QED  BY <1>5, <2>1, <2>2, <2>3 DEF CancelCommit, CancelEnds
<1>. QED
  BY <1>1, <1>2, <1>3, <1>4, <1>5 DEF Customer

\* The gateway's steps.
LEMMA GatewayInv ==
    ASSUME TypeOK, NEW b \in Bookings, OneInv(b), Gateway(b)
    PROVE  OneInv(b)' /\ OthersKept(b)
<1>. USE DEF OneInv, Fresh, Ownership, Reads, Captures, Redemption, Cash, Redeemed, Money, Live,
         Erased, Revived, updateVars
<1>1. ASSUME NEW t \in Txns, Capture(b, t) PROVE OneInv(b)' /\ OthersKept(b)
  BY <1>1 DEF Capture, TypeOK, OthersKept, Rows, rowVars, pointVars, flightVars
<1>2. ASSUME NEW t \in Txns, SuccessCallback(b, t) PROVE OneInv(b)' /\ OthersKept(b)
  <2>1. /\ acked'[b] = acked[b] \cup {t} /\ t \in captured[b] /\ Cash(b)
        /\ \A c \in Bookings \ {b} : acked'[c] = acked[c]
        /\ UNCHANGED <<mode, basket, captured, ledger, cancelRead, cascadeRead, staffRead,
                       captureRead, mishaps>>
    BY <1>2 DEF SuccessCallback, TypeOK, pointVars
  <2>2. booking[b] # "NONE"
    BY <2>1
  <2>3. CASE CaptureSuccess(b, t)
    <3>1. /\ payment[b] \in {"PENDING", "FAILED"} /\ payment'[b] = "SUCCESS" /\ recordedTxn'[b] = t
          /\ captureRead[b] = NoTxn
          /\ booking'[b] = (IF booking[b] \in {"CANCELLED", "DELETED"} THEN booking[b] ELSE "CONFIRMED")
          /\ recovery'[b] = (CASE booking[b] = "CANCELLED" -> "REFUND"
                               [] booking[b] = "DELETED" -> "B2_ORPHAN"
                               [] OTHER -> "NONE")
      BY <2>3 DEF CaptureSuccess, BookingAfterCapture, RecoveryAfterCapture, TypeOK
    <3>2. OthersKept(b)
      BY <2>1, <2>3 DEF CaptureSuccess, TypeOK, OthersKept, Rows
    <3>. QED  BY <2>1, <2>2, <3>1, <3>2 DEF TypeOK, BookingStatus
  <2>4. CASE CaptureAgain(b, t)
    BY <2>1, <2>2, <2>4 DEF CaptureAgain, OthersKept, Rows
  <2>5. CASE CaptureIgnored(b)
    BY <2>1, <2>2, <2>5 DEF CaptureIgnored, OthersKept, Rows
  <2>. QED  BY <1>2, <2>3, <2>4, <2>5 DEF SuccessCallback
<1>3. ASSUME FailureCallback(b) PROVE OneInv(b)' /\ OthersKept(b)
  <2>1. /\ booking'[b] = "DELETED" /\ payment[b] = "PENDING" /\ payment'[b] = "FAILED"
        /\ ledger'[b] = ledger[b] \cup PointsBack(b, "CANCEL_REFUND_UNPAID")
        /\ UNCHANGED <<mode, basket, captured, acked, recordedTxn, cancelRead, cascadeRead, recovery,
                       staffRead, captureRead, mishaps>>
    BY <1>3 DEF FailureCallback, TypeOK, gatewayVars, flightVars
  <2>2. OthersKept(b)
    BY <1>3, <2>1 DEF FailureCallback, TypeOK, OthersKept, Rows
  <2>3. booking[b] \in Live
    BY <1>3, <2>1 DEF FailureCallback, Exists, TypeOK, BookingStatus
  <2>. QED  BY <2>1, <2>2, <2>3 DEF PointsBack
<1>4. ASSUME NapsHold(b) PROVE OneInv(b)' /\ OthersKept(b)
  BY <1>4 DEF NapsHold, OthersKept, Rows, gatewayVars, pointVars, flightVars
<1>5. ASSUME NEW t \in Txns, CaptureRead(b, t) PROVE OneInv(b)' /\ OthersKept(b)
  BY <1>5 DEF CaptureRead, TypeOK, OthersKept, Rows, rowVars, gatewayVars, pointVars
<1>6. ASSUME CaptureCommit(b) PROVE OneInv(b)' /\ OthersKept(b)
  <2>1. /\ booking[b] \notin {"NONE", "DELETED"} /\ captureRead[b] # NoTxn
        /\ booking'[b] = "CONFIRMED" /\ payment'[b] = "SUCCESS"
        /\ recordedTxn'[b] = captureRead[b] /\ acked'[b] = acked[b] \cup {captureRead[b]}
        /\ captureRead'[b] = NoTxn /\ mishaps'[b] = mishaps[b] \cup Revival(b)
        /\ UNCHANGED <<mode, basket, captured, ledger, cancelRead, cascadeRead, staffRead, recovery>>
    BY <1>6 DEF CaptureCommit, Exists, TypeOK, pointVars
  <2>2. OthersKept(b)
    BY <1>6, <2>1 DEF CaptureCommit, TypeOK, OthersKept, Rows
  <2>3. booking[b] = "CANCELLED" \/ booking[b] \in Live
    BY <2>1 DEF TypeOK, BookingStatus
  <2>. QED  BY <2>1, <2>2, <2>3 DEF Revival
<1>7. ASSUME CaptureAbort(b) PROVE OneInv(b)' /\ OthersKept(b)
  BY <1>7 DEF CaptureAbort, TypeOK, OthersKept, Rows, rowVars, gatewayVars, pointVars
<1>. QED
  BY <1>1, <1>2, <1>3, <1>4, <1>5, <1>6, <1>7 DEF Gateway

\* The callback's recovery.
LEMMA RecoveryInv ==
    ASSUME TypeOK, NEW b \in Bookings, OneInv(b), Recovery(b) \/ Crash(b)
    PROVE  OneInv(b)' /\ OthersKept(b)
<1>. USE DEF OneInv, Fresh, Ownership, Reads, Captures, Redemption, Cash, Redeemed, Money, Live,
         Erased, Revived, updateVars
<1>1. ASSUME B2GiveUp(b) \/ B2SlotConflict(b) PROVE OneInv(b)' /\ OthersKept(b)
  BY <1>1 DEF B2GiveUp, B2SlotConflict, TypeOK, OthersKept, Rows, rowVars, gatewayVars, pointVars
<1>2. ASSUME B2Recreate(b) PROVE OneInv(b)' /\ OthersKept(b)
  <2>1. ~Redeemed(b)
    BY <1>2 DEF B2Recreate, Writable, PointsBack
  <2>2. /\ booking'[b] = "CONFIRMED" /\ recovery'[b] = "NONE" /\ ledger'[b] = ledger[b]
        /\ UNCHANGED <<payment, mode, basket, captured, acked, recordedTxn, cancelRead, cascadeRead,
                       staffRead, captureRead, mishaps>>
    BY <1>2, <2>1 DEF B2Recreate, PointsBack, TypeOK, gatewayVars
  <2>3. OthersKept(b)
    BY <1>2, <2>2 DEF B2Recreate, TypeOK, OthersKept, Rows
  <2>4. booking[b] = "DELETED" /\ payment[b] = "SUCCESS"
    BY <1>2 DEF B2Recreate
  <2>. QED  BY <2>1, <2>2, <2>3, <2>4
<1>3. ASSUME QueueB2Refund(b) PROVE OneInv(b)' /\ OthersKept(b)
  BY <1>3 DEF QueueB2Refund, TypeOK, OthersKept, Rows, gatewayVars, pointVars
<1>4. ASSUME Crash(b) PROVE OneInv(b)' /\ OthersKept(b)
  BY <1>4 DEF Crash, TypeOK, OthersKept, Rows, rowVars, gatewayVars, pointVars
<1>. QED
  BY <1>1, <1>2, <1>3, <1>4 DEF Recovery

\* The stale-booking cron and the slot's time.
LEMMA CronInv ==
    ASSUME TypeOK, MoneyInv, Cron \/ SlotTime
    PROVE  \A b \in Bookings : OneInv(b)'
<1>. USE DEF OneInv, Fresh, Ownership, Reads, Captures, Redemption, Cash, Redeemed, Money, Live,
         Erased, Revived, updateVars
<1>1. ASSUME CronScan \/ CronAbort \/ SlotTime, NEW b \in Bookings PROVE OneInv(b)'
  <2>1. Rows(b)' = Rows(b)
    BY <1>1 DEF CronScan, CronAbort, SlotTime, Rows, rowVars, gatewayVars, pointVars, flightVars
  <2>. QED  BY <2>1, KeptRows DEF MoneyInv
<1>2. ASSUME CronReap, NEW b \in Bookings PROVE OneInv(b)'
  <2>1. /\ UNCHANGED <<mode, basket, captured, acked, recordedTxn, cancelRead, cascadeRead, recovery,
                       staffRead, captureRead, mishaps>>
        /\ payment'[b] = IF b \in cronScan /\ payment[b] = "PENDING" THEN "FAILED" ELSE payment[b]
        /\ IF b \in Claimed THEN /\ booking'[b] = "DELETED"
                                 /\ ledger'[b] = ledger[b] \cup PointsBack(b, "CANCEL_REFUND_UNPAID")
           ELSE booking'[b] = booking[b] /\ ledger'[b] = ledger[b]
    BY <1>2 DEF CronReap, gatewayVars
  <2>2. OneInv(b)
    BY DEF MoneyInv
  <2>3. b \in Claimed => booking[b] = "PENDING"
    BY DEF Claimed
  <2>. QED  BY <2>1, <2>2, <2>3 DEF PointsBack
<1>. QED
  BY <1>1, <1>2 DEF Cron

\* A cancel with refund, by the vendor or the admin.
LEMMA CancelWithRefundInv ==
    ASSUME TypeOK, NEW b \in Bookings, OneInv(b), Exists(b),
           NEW who, NEW source \in RefundRows, CancelWithRefund(b, who, source),
           UNCHANGED <<mode, basket, gatewayVars, flightVars, mishaps>>
    PROVE  OneInv(b)' /\ OthersKept(b)
<1>. USE DEF OneInv, Fresh, Ownership, Reads, Captures, Redemption, Cash, Redeemed, Money, Live,
         Erased, Revived, updateVars
<1>. DEFINE rows == RefundRow(b, payment[b], source) \cup PointsBack(b, "CANCEL_REFUND_PAID") \cup Reversal(b)
<1>1. /\ booking'[b] = "CANCELLED"
      /\ payment'[b] = (CASE payment[b] = "SUCCESS" -> "REFUNDED"
                          [] payment[b] = "PENDING" -> "FAILED"
                          [] OTHER -> payment[b])
      /\ ledger'[b] = ledger[b] \cup rows
      /\ UNCHANGED <<mode, basket, captured, acked, recordedTxn, cancelRead, cascadeRead, recovery,
                     staffRead, captureRead, mishaps>>
  BY DEF CancelWithRefund, TypeOK, gatewayVars, flightVars
<1>2. OthersKept(b)
  BY <1>1 DEF CancelWithRefund, TypeOK, OthersKept, Rows
<1>3. booking[b] \in Live
  BY DEF CancelWithRefund, Exists, TypeOK, BookingStatus
<1>4. /\ "CANCEL_REFUND_UNPAID" \notin rows /\ "BOOKING_REDEEM" \notin rows
      /\ "CANCEL_REFUND_PAID" \in rows <=> Redeemed(b)
  BY DEF RefundRow, PointsBack, Reversal, RefundRows
<1>5. payment'[b] \in Money <=> payment[b] \in Money
  BY <1>1
<1>. HIDE DEF rows
<1>. QED  BY <1>1, <1>2, <1>3, <1>4, <1>5

\* A change of status to CONFIRMED or COMPLETED, of whatever the booking is by
\* the commit.
LEMMA StaffCommitInv ==
    ASSUME TypeOK, NEW b \in Bookings, OneInv(b), StaffCommit(b)
    PROVE  OneInv(b)' /\ OthersKept(b)
<1>. USE DEF OneInv, Fresh, Ownership, Reads, Captures, Redemption, Cash, Redeemed, Money, Live,
         Erased, Revived, updateVars
<1>1. /\ booking[b] \notin {"NONE", "DELETED"}
      /\ UNCHANGED <<payment, mode, basket, captured, acked, recordedTxn, cancelRead,
                     cascadeRead, recovery, captureRead>>
  BY DEF StaffCommit, Exists, gatewayVars
<1>2. Confirm(b) \/ Complete(b, FALSE) \/ Complete(b, TRUE)
  BY DEF StaffCommit
<1>3. /\ booking'[b] \in {"CONFIRMED", "COMPLETED"}
      /\ ledger'[b] \in {ledger[b], ledger[b] \cup {"BOOKING_EARN"}}
      /\ mishaps[b] \subseteq mishaps'[b]
      /\ booking[b] = "CANCELLED" => "REVIVED" \in mishaps'[b]
      /\ \A c \in Bookings \ {b} : /\ booking'[c] = booking[c] /\ ledger'[c] = ledger[c]
                                   /\ mishaps'[c] = mishaps[c]
  <2>1. CASE Confirm(b)
    BY <2>1 DEF Confirm, Revival, TypeOK
  <2>2. CASE Complete(b, FALSE)
    BY <2>2 DEF Complete, Revival, TypeOK
  <2>3. CASE Complete(b, TRUE)
    BY <2>3 DEF Complete, Revival, TypeOK
  <2>. QED  BY <1>2, <2>1, <2>2, <2>3
<1>4. \A c \in Bookings \ {b} : staffRead'[c] = staffRead[c]
  <2>1. \E change : ChangeEnds(b, change)
    BY Zenon DEF StaffCommit
  <2>. QED  BY <2>1 DEF ChangeEnds, TypeOK
<1>5. OthersKept(b)
  BY <1>1, <1>3, <1>4 DEF OthersKept, Rows
<1>6. booking[b] = "CANCELLED" \/ booking[b] \in Live
  BY <1>1 DEF TypeOK, BookingStatus
<1>. QED  BY <1>1, <1>3, <1>5, <1>6

\* The staff's steps, the slot crons and time.
LEMMA StaffInv ==
    ASSUME TypeOK, NEW b \in Bookings, OneInv(b),
           Staff(b) \/ AfterSlot(b) \/ Time(b)
    PROVE  OneInv(b)' /\ OthersKept(b)
<1>1. ASSUME VendorCancel(b) \/ AdminCancel(b)
      PROVE  OneInv(b)' /\ OthersKept(b)
  <2>1. Exists(b) /\ UNCHANGED <<mode, basket, gatewayVars, flightVars, mishaps>>
    BY <1>1 DEF VendorCancel, AdminCancel, gatewayVars, flightVars, updateVars
  <2>2. \E who \in {"VENDOR", "ADMIN"}, source \in RefundRows : CancelWithRefund(b, who, source)
    BY <1>1 DEF VendorCancel, AdminCancel, RefundRows
  <2>. QED  BY <2>1, <2>2, CancelWithRefundInv
<1>9. ASSUME (\E to \in {"CONFIRMED", "COMPLETED"} : StaffRead(b, to)) \/ StaffAbort(b)
      PROVE  OneInv(b)' /\ OthersKept(b)
  <2>1. /\ UNCHANGED <<booking, payment, mode, basket, captured, acked, recordedTxn, ledger,
                       cancelRead, cascadeRead, recovery, captureRead, mishaps>>
        /\ \A c \in Bookings \ {b} : staffRead'[c] = staffRead[c]
        /\ booking[b] # "NONE" \/ staffRead'[b] = {}
    BY <1>9 DEF StaffRead, StaffAbort, Exists, TypeOK, rowVars, gatewayVars, pointVars
  <2>2. OthersKept(b)
    BY <2>1 DEF OthersKept, Rows
  <2>. QED
    BY <2>1, <2>2 DEF OneInv, Fresh, Ownership, Reads, Captures, Redemption, Cash, Redeemed,
       Erased, Revived
<1>. USE DEF OneInv, Fresh, Ownership, Reads, Captures, Redemption, Cash, Redeemed, Money, Live,
         Erased, Revived, updateVars
<1>2. ASSUME CascadeRead(b) \/ CascadeSkip(b) PROVE OneInv(b)' /\ OthersKept(b)
  BY <1>2 DEF CascadeRead, CascadeSkip, TypeOK, OthersKept, Rows, rowVars, gatewayVars, pointVars
<1>3. ASSUME CascadeCommit(b) PROVE OneInv(b)' /\ OthersKept(b)
  <2>. DEFINE rows == RefundRow(b, cascadeRead[b], "ADMIN_REFUND_APPROVED")
                      \cup PointsBack(b, "CANCEL_REFUND_PAID")
  <2>1. /\ booking'[b] = "CANCELLED" /\ cascadeRead'[b] = "NONE"
        /\ payment'[b] = (CASE cascadeRead[b] = "SUCCESS" -> "REFUNDED"
                            [] cascadeRead[b] = "PENDING" -> "FAILED"
                            [] OTHER -> payment[b])
        /\ ledger'[b] = ledger[b] \cup rows
        /\ mishaps[b] \subseteq mishaps'[b]
        /\ UNCHANGED <<mode, basket, captured, acked, recordedTxn, cancelRead, recovery, staffRead,
                       captureRead>>
    BY <1>3 DEF CascadeCommit, TypeOK, gatewayVars
  <2>2. OthersKept(b)
    BY <1>3, <2>1 DEF CascadeCommit, TypeOK, OthersKept, Rows
  <2>3. /\ booking[b] \in {"PENDING", "CONFIRMED"} /\ cascadeRead[b] # "NONE"
        /\ cascadeRead[b] = "PENDING" => payment[b] = "PENDING"
    BY <1>3 DEF CascadeCommit
  <2>4. /\ "CANCEL_REFUND_UNPAID" \notin rows /\ "BOOKING_REDEEM" \notin rows
        /\ "CANCEL_REFUND_PAID" \in rows <=> Redeemed(b)
    BY DEF RefundRow, PointsBack
  <2>5. payment'[b] \in Money <=> payment[b] \in Money
    BY <2>1, <2>3
  <2>6. payment'[b] # "PENDING"
    BY <2>1, <2>3 DEF TypeOK
  <2>. HIDE DEF rows
  <2>. QED  BY <2>1, <2>2, <2>3, <2>4, <2>5, <2>6
<1>4. ASSUME CascadeResolve(b) \/ RecordRefundDecision(b) PROVE OneInv(b)' /\ OthersKept(b)
  <2>1. PICK pay \in {"REFUNDED", "REJECTED"},
             rows \in {{}, {"VENDOR_REFUND_APPROVED"}, {"ADMIN_REFUND_APPROVED"}} :
                SettleRefund(b, pay, rows)
    <3>1. CASE CascadeResolve(b)
      BY <3>1 DEF CascadeResolve
    <3>2. CASE RecordRefundDecision(b)
      BY <3>2, Zenon DEF RecordRefundDecision
    <3>. QED  BY <1>4, <3>1, <3>2
  <2>2. /\ booking[b] = "CANCELLED" /\ payment[b] = "REFUND_PENDING" /\ payment'[b] = pay
        /\ ledger'[b] = ledger[b] \cup rows
        /\ UNCHANGED <<booking, mode, basket, captured, acked, recordedTxn, cancelRead,
                       cascadeRead, recovery, staffRead, captureRead, mishaps>>
    BY <2>1 DEF SettleRefund, TypeOK, gatewayVars, flightVars
  <2>3. OthersKept(b)
    BY <2>1, <2>2 DEF SettleRefund, TypeOK, OthersKept, Rows
  <2>. QED  BY <2>2, <2>3
<1>5. ASSUME MarkPayoutsPaid(b) \/ MarkPayoutUnpaid(b) PROVE OneInv(b)' /\ OthersKept(b)
  BY <1>5 DEF MarkPayoutsPaid, MarkPayoutUnpaid, OthersKept, Rows, rowVars, gatewayVars,
     pointVars, flightVars
<1>6. ASSUME AwardLoyalty(b) PROVE OneInv(b)' /\ OthersKept(b)
  BY <1>6 DEF AwardLoyalty, TypeOK, OthersKept, Rows, rowVars, gatewayVars, flightVars
<1>7. ASSUME AutoComplete(b) PROVE OneInv(b)' /\ OthersKept(b)
  BY <1>7 DEF AutoComplete, TypeOK, OthersKept, Rows, gatewayVars, pointVars, flightVars
<1>8. ASSUME HoldExpires(b) \/ AgePasses(b) PROVE OneInv(b)' /\ OthersKept(b)
  BY <1>8 DEF HoldExpires, AgePasses, OthersKept, Rows, gatewayVars, pointVars, flightVars
<1>. QED
  BY <1>1, <1>2, <1>3, <1>4, <1>5, <1>6, <1>7, <1>8, <1>9, StaffCommitInv
     DEF Staff, AfterSlot, Time

\* MoneyInv holds initially and every step keeps it.
LEMMA MoneyInvStep ==
    ASSUME TypeOK, MoneyInv, [Next]_vars
    PROVE  MoneyInv'
<1>1. ASSUME NEW b \in Bookings,
             \/ Customer(b) \/ Gateway(b) \/ Recovery(b) \/ Crash(b)
             \/ Staff(b) \/ AfterSlot(b) \/ Time(b)
      PROVE  MoneyInv'
  <2>1. \A c \in Bookings : OneInv(c)
    BY DEF MoneyInv, OneInv
  <2>2. OneInv(b)' /\ OthersKept(b)
    BY <1>1, <2>1, CustomerInv, GatewayInv, RecoveryInv, StaffInv
  <2>3. ASSUME NEW c \in Bookings PROVE OneInv(c)'
    BY <2>1, <2>2, KeptRows DEF OthersKept
  <2>. QED  BY <2>3 DEF MoneyInv, OneInv
<1>2. CASE Cron \/ SlotTime
  BY <1>2, CronInv DEF MoneyInv, OneInv
<1>3. CASE UNCHANGED vars
  <2>1. \A b \in Bookings : OneInv(b) /\ Rows(b)' = Rows(b)
    BY <1>3 DEF vars, rowVars, gatewayVars, pointVars, flightVars, updateVars, MoneyInv, OneInv, Rows
  <2>. QED  BY <2>1, KeptRows DEF MoneyInv, OneInv
<1>. QED  BY <1>1, <1>2, <1>3 DEF Next

\* In every behaviour, whatever accidents happen.
LEMMA MoneyInvariant == Spec => []MoneyInv
<1>1. Init => MoneyInv
  BY DEF Init, MoneyInv, Fresh, Ownership, Reads, Captures, Redemption, Cash, Redeemed, Money, Live
<1>2. TypeOK /\ MoneyInv /\ [Next]_vars => MoneyInv'
  BY MoneyInvStep
<1>. QED  BY <1>1, <1>2, TypeCorrect, PTL DEF Spec

-----------------------------------------------------------------------------
(* What follows.                                                           *)

\* Redeemed points go back when the booking is cancelled or deleted, through
\* whichever handler, and only once unless a hard delete came after another
\* cancel or the booking was revived.
THEOREM PointsAreConserved == Spec => []PointsConserved
<1>1. TypeOK /\ MoneyInv => PointsConserved
  <2>1. ASSUME TypeOK, MoneyInv, NEW b \in Bookings, "BOOKING_REDEEM" \in ledger[b]
        PROVE  LET back == ledger[b] \cap ReturnRows IN
               /\ booking[b] \in Live => back = {} \/ Revived(b)
               /\ booking[b] \notin Live => back # {}
               /\ back = ReturnRows => Erased(b) \/ Revived(b)
    <3>1. Fresh(b) /\ Redemption(b) /\ booking[b] \in BookingStatus
      BY <2>1 DEF MoneyInv, TypeOK
    <3>2. booking[b] # "NONE" /\ Redeemed(b)
      BY <2>1, <3>1 DEF Fresh, Redemption
    <3>3. booking[b] \in Live \/ booking[b] \in {"CANCELLED", "DELETED"}
      BY <3>1, <3>2 DEF BookingStatus, Live
    <3>. QED  BY <3>1, <3>2, <3>3 DEF Redemption, ReturnRows, Live
  <2>. QED  BY <2>1 DEF PointsConserved
<1>. QED  BY <1>1, MoneyInvariant, TypeCorrect, PTL

\* A capture that was acknowledged stays on the payment row, as money received
\* or as a refund, whatever cancel, decline, status change or cron raced its
\* callback: only a hard delete that had read the row before it takes it away.
THEOREM AcknowledgedIsMoney == Spec => []AckedIsMoney
<1>1. MoneyInv => AckedIsMoney
  BY DEF MoneyInv, Captures, Ownership, AckedIsMoney, Money, Cash
<1>. QED  BY <1>1, MoneyInvariant, PTL

\* One booking's part of CancelIsFinal and of PaymentMovesForward.
StaysCancelled(b) ==
    booking[b] = "CANCELLED" /\ booking'[b] \in Live
        => staffRead[b] # {} \/ captureRead[b] # NoTxn
MovesForward(b) ==
    \/ Erased(b)'
    \/ Revived(b)'
    \/ /\ payment[b] = "SUCCESS" => payment'[b] \in {"SUCCESS", "REFUND_PENDING", "REFUNDED"}
       /\ payment[b] = "REFUND_PENDING" =>
             payment'[b] \in {"REFUND_PENDING", "REFUNDED", "REJECTED"}
       /\ payment[b] \in {"REFUNDED", "REJECTED"} => payment'[b] = payment[b]

\* The customer, the gateway and the recovery: late commits find a payment row
\* that is no longer in the status they ask for, late captures a booking that
\* stays as it is, unless the callback had read the booking before.
LEMMA CustomerForward ==
    ASSUME TypeOK, NEW b \in Bookings, OneInv(b),
           Customer(b) \/ Gateway(b) \/ Recovery(b) \/ Crash(b)
    PROVE  StaysCancelled(b) /\ MovesForward(b)
<1>. USE DEF StaysCancelled, MovesForward, Live, Erased, Revived
<1>1. ASSUME NEW m \in Modes, CreateBooking(b, m) PROVE StaysCancelled(b) /\ MovesForward(b)
  BY <1>1 DEF CreateBooking, TypeOK, OneInv, Fresh
<1>2. ASSUME InitiatePayment(b) \/ CancelRead(b) \/ CancelAbort(b) \/ NapsHold(b)
             \/ B2GiveUp(b) \/ B2SlotConflict(b) \/ Crash(b) \/ CaptureAbort(b)
             \/ \E t \in Txns : Capture(b, t) \/ CaptureRead(b, t)
      PROVE  StaysCancelled(b) /\ MovesForward(b)
  <2>1. booking' = booking /\ payment' = payment
    BY <1>2 DEF InitiatePayment, CancelRead, CancelAbort, NapsHold, B2GiveUp, B2SlotConflict,
       Crash, Capture, CaptureRead, CaptureAbort, rowVars
  <2>. QED  BY <2>1
<1>3. ASSUME CancelCommit(b) PROVE StaysCancelled(b) /\ MovesForward(b)
  <2>1. CASE HardDelete(b)
    BY <2>1 DEF HardDelete, Money, TypeOK
  <2>2. CASE \/ \E pay \in {"REFUNDED", "REFUND_PENDING"} :
                   SoftCancel(b, "SUCCESS", pay, "CANCEL_REFUND_PAID")
             \/ SoftCancel(b, "PENDING", "FAILED", "CANCEL_REFUND_UNPAID")
    BY <2>2 DEF SoftCancel, TypeOK
  <2>. QED  BY <1>3, <2>1, <2>2 DEF CancelCommit
<1>4. ASSUME NEW t \in Txns, SuccessCallback(b, t) PROVE StaysCancelled(b) /\ MovesForward(b)
  BY <1>4 DEF SuccessCallback, CaptureSuccess, CaptureAgain, CaptureIgnored,
     BookingAfterCapture, TypeOK
<1>5. ASSUME FailureCallback(b) PROVE StaysCancelled(b) /\ MovesForward(b)
  BY <1>5 DEF FailureCallback, TypeOK
<1>6. ASSUME B2Recreate(b) PROVE StaysCancelled(b) /\ MovesForward(b)
  BY <1>6 DEF B2Recreate, OneInv, Ownership
<1>7. ASSUME QueueB2Refund(b) PROVE StaysCancelled(b) /\ MovesForward(b)
  BY <1>7 DEF QueueB2Refund, TypeOK
<1>8. ASSUME CaptureCommit(b) PROVE StaysCancelled(b) /\ MovesForward(b)
  BY <1>8 DEF CaptureCommit, OneInv, Reads, TypeOK
<1>. QED
  BY <1>1, <1>2, <1>3, <1>4, <1>5, <1>6, <1>7, <1>8 DEF Customer, Gateway, Recovery

\* The staff, the crons after the slot, and time.
LEMMA StaffForward ==
    ASSUME TypeOK, NEW b \in Bookings, OneInv(b),
           Staff(b) \/ AfterSlot(b) \/ Time(b)
    PROVE  StaysCancelled(b) /\ MovesForward(b)
<1>. USE DEF StaysCancelled, MovesForward, Live, Erased, Revived
<1>1. ASSUME VendorCancel(b) \/ AdminCancel(b) PROVE StaysCancelled(b) /\ MovesForward(b)
  <2>1. \E who, source : CancelWithRefund(b, who, source)
    BY <1>1 DEF VendorCancel, AdminCancel
  <2>. QED  BY <2>1 DEF CancelWithRefund, TypeOK
<1>2. ASSUME \/ CascadeRead(b) \/ CascadeSkip(b) \/ MarkPayoutsPaid(b) \/ MarkPayoutUnpaid(b)
             \/ AwardLoyalty(b) \/ AutoComplete(b) \/ HoldExpires(b) \/ AgePasses(b)
             \/ StaffAbort(b) \/ \E to \in {"CONFIRMED", "COMPLETED"} : StaffRead(b, to)
      PROVE  StaysCancelled(b) /\ MovesForward(b)
  <2>1. payment' = payment /\ (booking' = booking \/ AutoComplete(b))
    BY <1>2 DEF CascadeRead, CascadeSkip, MarkPayoutsPaid, MarkPayoutUnpaid, AwardLoyalty,
       AutoComplete, HoldExpires, AgePasses, StaffRead, StaffAbort, rowVars
  <2>. QED  BY <2>1 DEF AutoComplete
<1>5. ASSUME StaffCommit(b) PROVE StaysCancelled(b) /\ MovesForward(b)
  <2>1. payment' = payment
    BY <1>5 DEF StaffCommit
  <2>2. staffRead[b] # {}
    <3>1. \E change : ChangeEnds(b, change)
      BY <1>5, Zenon DEF StaffCommit
    <3>. QED  BY <3>1 DEF ChangeEnds
  <2>. QED  BY <2>1, <2>2
<1>3. ASSUME CascadeCommit(b) PROVE StaysCancelled(b) /\ MovesForward(b)
  <2>1. payment[b] \notin Money \ {"SUCCESS"} \/ Revived(b)
    BY <1>3 DEF CascadeCommit, OneInv, Ownership
  <2>2. Revived(b) => Revived(b)'
    BY <1>3 DEF CascadeCommit, TypeOK
  <2>. QED  BY <1>3, <2>1, <2>2 DEF CascadeCommit, TypeOK, Money
<1>4. ASSUME CascadeResolve(b) \/ RecordRefundDecision(b)
      PROVE  StaysCancelled(b) /\ MovesForward(b)
  <2>1. PICK pay \in {"REFUNDED", "REJECTED"},
             rows \in {{}, {"VENDOR_REFUND_APPROVED"}, {"ADMIN_REFUND_APPROVED"}} :
                SettleRefund(b, pay, rows)
    <3>1. CASE CascadeResolve(b)
      BY <3>1 DEF CascadeResolve
    <3>2. CASE RecordRefundDecision(b)
      BY <3>2, Zenon DEF RecordRefundDecision
    <3>. QED  BY <1>4, <3>1, <3>2
  <2>. QED  BY <2>1 DEF SettleRefund, TypeOK
<1>. QED
  BY <1>1, <1>2, <1>3, <1>4, <1>5 DEF Staff, AfterSlot, Time

\* What another booking's step, the cron or time does to this one.
LEMMA EveryoneForward ==
    ASSUME TypeOK, MoneyInv, [Next]_vars, NEW b \in Bookings
    PROVE  StaysCancelled(b) /\ MovesForward(b)
<1>. USE DEF StaysCancelled, MovesForward, Live, Erased, Revived
<1>1. OneInv(b)
  BY DEF MoneyInv, OneInv
<1>2. ASSUME NEW c \in Bookings,
             \/ Customer(c) \/ Gateway(c) \/ Recovery(c) \/ Crash(c)
             \/ Staff(c) \/ AfterSlot(c) \/ Time(c)
      PROVE  StaysCancelled(b) /\ MovesForward(b)
  <2>1. CASE b = c
    BY <1>1, <1>2, <2>1, CustomerForward, StaffForward
  <2>2. CASE b # c
    <3>1. OneInv(c)
      BY DEF MoneyInv, OneInv
    <3>2. OthersKept(c)
      BY <1>2, <3>1, CustomerInv, GatewayInv, RecoveryInv, StaffInv
    <3>3. booking'[b] = booking[b] /\ payment'[b] = payment[b]
      BY <2>2, <3>2 DEF OthersKept, Rows
    <3>. QED  BY <3>3
  <2>. QED  BY <2>1, <2>2
<1>3. CASE Cron
  <2>1. CASE CronReap
    BY <2>1 DEF CronReap, Claimed, TypeOK
  <2>2. CASE CronScan \/ CronAbort
    BY <2>2 DEF CronScan, CronAbort, rowVars
  <2>. QED  BY <1>3, <2>1, <2>2 DEF Cron
<1>4. CASE SlotTime \/ UNCHANGED vars
  BY <1>4 DEF SlotTime, vars, rowVars
<1>. QED  BY <1>2, <1>3, <1>4 DEF Next

\* A cancelled booking comes back to life only by a status change of the staff or
\* by a capture whose request had read it before: the late capture, the cron's
\* claim, the cascade and the recovery all leave it cancelled.
THEOREM CancelledStaysCancelled == Spec => CancelIsFinal
<1>1. TypeOK /\ MoneyInv /\ [Next]_vars
         => [\A b \in Bookings : booking[b] = "CANCELLED" /\ booking'[b] \in Live
                => staffRead[b] # {} \/ captureRead[b] # NoTxn]_vars
  BY EveryoneForward DEF StaysCancelled
<1>. QED  BY <1>1, MoneyInvariant, TypeCorrect, PTL DEF Spec, CancelIsFinal

\* Received money only moves towards a refund, and a decided refund is final,
\* although five handlers and a cron write the payment row, until a hard delete
\* that had read the row before the money takes it, or on a revived booking.
THEOREM MoneyMovesForward == Spec => PaymentMovesForward
<1>1. TypeOK /\ MoneyInv /\ [Next]_vars => [\A b \in Bookings : MovesForward(b)]_vars
  BY EveryoneForward
<1>2. TypeOK /\ MoneyInv /\ [Next]_vars
         => [\A b \in Bookings :
                Erased(b)' \/ Revived(b)' \/
                /\ payment[b] = "SUCCESS" =>
                      payment'[b] \in {"SUCCESS", "REFUND_PENDING", "REFUNDED"}
                /\ payment[b] = "REFUND_PENDING" =>
                      payment'[b] \in {"REFUND_PENDING", "REFUNDED", "REJECTED"}
                /\ payment[b] \in {"REFUNDED", "REJECTED"} => payment'[b] = payment[b]]_vars
  BY <1>1 DEF MovesForward
<1>. QED  BY <1>2, MoneyInvariant, TypeCorrect, PTL DEF Spec, PaymentMovesForward

-----------------------------------------------------------------------------
(* The rows of a booking agree.                                            *)

\* A mishap that voids what the customer was promised.
Marred(b) == Erased(b) \/ Revived(b) \/ Overlooked(b)

\* A refund of the booking's money is in the ledger.
Refunded(b) == \E row \in RefundRows : row \in ledger[b]

\* What holds besides MoneyInv: a cancel that saw money still knows how it was
\* paid, only cash is refunded, money without a booking is being recovered, and,
\* but for mishaps, no cancel that saw money is left when its booking is gone
\* and a refund is in one row, on a cancelled booking.
PaidInv(b) ==
    /\ booking[b] = "PENDING" => payment[b] = "PENDING"
    /\ "POINTS" \in cancelRead[b] => ~Cash(b)
    /\ "PAID" \in cancelRead[b] => Cash(b)
    /\ payment[b] = "REFUND_PENDING" \/ recovery[b] # "NONE" => Cash(b)
    /\ (payment[b] = "SUCCESS" /\ booking[b] \notin Live =>
          /\ cancelRead[b] \cap {"POINTS", "PAID"} = {} \/ Marred(b)
          /\ recovery[b] # "NONE" \/ Crashed(b) \/ Overlooked(b))
    /\ (~Erased(b) /\ ~Revived(b) =>
          /\ payment[b] = "REFUNDED" => booking[b] = "CANCELLED"
          /\ Refunded(b) => Cash(b) /\ payment[b] = "REFUNDED"
          /\ \A r, s \in RefundRows : r \in ledger[b] /\ s \in ledger[b] => r = s)

\* What these facts say about one booking depends on its rows alone.
LEMMA KeptPaid ==
    ASSUME NEW c, PaidInv(c), Rows(c)' = Rows(c)
    PROVE  PaidInv(c)'
BY DEF PaidInv, Rows, Cash, Refunded, Marred, Erased, Revived, Overlooked, Crashed

-----------------------------------------------------------------------------
(* The steps of the promise to one booking, in the terms of the rows.      *)

PointsStay(b) == PointsOf(b)' = PointsOf(b)
PointsReturn(b) == PointsOf(b)' = IF PointsOf(b) = "SPENT" THEN "BACK" ELSE PointsOf(b)
Deals(b, from, to) == DealOf(b) = from /\ DealOf(b)' = to
Credits(b, n) == CreditsOf(b)' = CreditsOf(b) + n

Booked(b) ==
    /\ DealOf(b) = "NONE" /\ DealOf(b)' = IF Cash(b)' THEN "OPEN" ELSE "SERVED"
    /\ PointsOf(b)' \in {"NONE", "SPENT"}
    /\ Credits(b, 0)

Lost(b) ==
    /\ \/ Deals(b, "OPEN", "CLOSED") /\ Credits(b, 0)
       \/ Deals(b, "SERVED", "OWED") /\ Cash(b) /\ Credits(b, 0)
       \/ Deals(b, "SERVED", "RETURNED") /\ Credits(b, IF Cash(b) THEN 1 ELSE 0)
    /\ PointsReturn(b)

Settled(b) ==
    /\ \/ /\ \/ Cash(b) /\ (Deals(b, "OPEN", "SERVED") \/ Deals(b, "CLOSED", "ORPHAN"))
             \/ Deals(b, "ORPHAN", "SERVED") /\ PointsOf(b) = "NONE"
             \/ Deals(b, "ORPHAN", "OWED")
             \/ Deals(b, "OWED", "RETURNED") \/ Deals(b, "OWED", "KEPT")
             \/ DealOf(b)' = DealOf(b)
          /\ Credits(b, 0)
       \/ Deals(b, "OWED", "RETURNED") /\ Credits(b, 1)
    /\ PointsStay(b)

Voided(b) ==
    /\ DealOf(b) # "NONE" /\ DealOf(b)' = "VOID"
    /\ PointsStay(b) \/ PointsReturn(b)
    /\ CreditsOf(b)' >= CreditsOf(b)

Promised(b) ==
    Booked(b) \/ (Cash(b)' = Cash(b) /\ (Lost(b) \/ Settled(b) \/ Voided(b)))

\* What is left to show of a step: the promise, unless it is void afterwards.
Honoured(b) == Marred(b)' \/ Promised(b)

\* Two ledgers with the same rows of a kind tell the same of it.
Alike(b, kind) == \A row \in kind : row \in ledger'[b] <=> row \in ledger[b]

LEMMA SamePoints ==
    ASSUME NEW b, Alike(b, {"BOOKING_REDEEM"} \cup ReturnRows)
    PROVE  PointsStay(b)
BY DEF Alike, PointsStay, PointsOf, ReturnRows

LEMMA SameCredits ==
    ASSUME NEW b, Alike(b, RefundRows)
    PROVE  Credits(b, 0)
<1>1. CreditsOf(b)' = CreditsOf(b)
  BY DEF Alike, CreditsOf, RefundRows
<1>2. CreditsOf(b) \in Nat
  BY DEF CreditsOf
<1>. QED  BY <1>1, <1>2 DEF Credits

LEMMA SameRefunds ==
    ASSUME NEW b, Alike(b, RefundRows)
    PROVE  Refunded(b)' <=> Refunded(b)
BY DEF Alike, Refunded

\* A refund row that was not there is one more credit.
LEMMA OneCredit ==
    ASSUME NEW b, NEW source \in RefundRows, source \notin ledger[b], source \in ledger'[b],
           Alike(b, RefundRows \ {source})
    PROVE  Credits(b, 1)
BY DEF Alike, Credits, CreditsOf, RefundRows

\* A live booking that is lost with a return row for what it redeemed.
LEMMA ReturnedPoints ==
    ASSUME NEW b, booking[b] \in Live, Redemption(b), ~Revived(b), Alike(b, {"BOOKING_REDEEM"}),
           Redeemed(b) => \E row \in ReturnRows : row \in ledger'[b]
    PROVE  PointsReturn(b)
<1>1. booking[b] # "NONE" /\ ledger[b] \cap ReturnRows = {}
  BY DEF Live, Redemption, ReturnRows
<1>2. Redeemed(b) <=> "BOOKING_REDEEM" \in ledger[b]
  BY <1>1 DEF Redemption
<1>3. "BOOKING_REDEEM" \in ledger'[b] <=> "BOOKING_REDEEM" \in ledger[b]
  BY DEF Alike
<1>4. CASE Redeemed(b)
  <2>1. ledger'[b] \cap ReturnRows # {}
    BY <1>4
  <2>. QED  BY <1>1, <1>2, <1>3, <1>4, <2>1 DEF PointsReturn, PointsOf
<1>5. CASE ~Redeemed(b)
  BY <1>2, <1>3, <1>5 DEF PointsReturn, PointsOf
<1>. QED  BY <1>4, <1>5

\* Nothing is promised of a step that leaves the rows of the booking alone.
LEMMA Unmoved ==
    ASSUME NEW b, DealOf(b)' = DealOf(b), mode'[b] = mode[b],
           Alike(b, {"BOOKING_REDEEM"} \cup ReturnRows \cup RefundRows)
    PROVE  Promised(b)
<1>1. PointsStay(b)
  BY SamePoints DEF Alike
<1>2. Credits(b, 0)
  BY SameCredits DEF Alike
<1>. QED  BY <1>1, <1>2 DEF Promised, Settled, Cash

\* A promise is void after a mishap; the ledger has only grown, and what was
\* redeemed is what was redeemed.
LEMMA VoidPromised ==
    ASSUME NEW b, Marred(b)', booking'[b] # "NONE", booking[b] # "NONE", mode'[b] = mode[b],
           ledger[b] \subseteq ledger'[b], Alike(b, {"BOOKING_REDEEM"})
    PROVE  Promised(b)
<1>1. DealOf(b) # "NONE"
  BY DEF DealOf
<1>2. DealOf(b)' = "VOID"
  BY DEF DealOf, Marred
<1>3. PointsStay(b) \/ PointsReturn(b)
  BY DEF Alike, PointsStay, PointsReturn, PointsOf
<1>4. CreditsOf(b)' >= CreditsOf(b)
  BY DEF CreditsOf
<1>. QED  BY <1>1, <1>2, <1>3, <1>4 DEF Promised, Voided, Cash

\* What every step for a booking does to its rows, mishap or not.
Grows(b) ==
    /\ mishaps[b] \subseteq mishaps'[b]
    /\ Marred(b)' => booking[b] # "NONE"
    /\ (booking[b] # "NONE" =>
          /\ booking'[b] # "NONE" /\ mode'[b] = mode[b]
          /\ ledger[b] \subseteq ledger'[b] /\ Alike(b, {"BOOKING_REDEEM"}))

\* So a step of a booking has only to be looked at when nothing has gone wrong.
LEMMA HonouredIsPromised ==
    ASSUME NEW b, Grows(b), Honoured(b)
    PROVE  Promised(b)
BY VoidPromised DEF Honoured, Grows

\* The customer, the gateway and the recovery.
LEMMA CustomerGrows ==
    ASSUME TypeOK, NEW b \in Bookings, OneInv(b),
           Customer(b) \/ Gateway(b) \/ Recovery(b) \/ Crash(b)
    PROVE  Grows(b)
<1>. USE DEF Grows, Marred, Erased, Revived, Overlooked
<1>1. ASSUME mishaps'[b] = mishaps[b],
             booking[b] # "NONE" => /\ booking'[b] # "NONE" /\ mode'[b] = mode[b]
                                    /\ ledger[b] \subseteq ledger'[b]
                                    /\ Alike(b, {"BOOKING_REDEEM"})
      PROVE  Grows(b)
  BY <1>1 DEF OneInv, Fresh
<1>2. ASSUME NEW m \in Modes, CreateBooking(b, m) PROVE Grows(b)
  BY <1>1, <1>2 DEF CreateBooking
<1>3. ASSUME InitiatePayment(b) \/ CancelRead(b) \/ CancelAbort(b) \/ NapsHold(b)
             \/ B2GiveUp(b) \/ B2SlotConflict(b) \/ QueueB2Refund(b) \/ CaptureAbort(b)
             \/ \E t \in Txns : Capture(b, t) \/ CaptureRead(b, t)
      PROVE  Grows(b)
  <2>1. UNCHANGED <<booking, mode, ledger, mishaps>>
    BY <1>3 DEF InitiatePayment, CancelRead, CancelAbort, NapsHold, B2GiveUp, B2SlotConflict,
       QueueB2Refund, Capture, CaptureRead, CaptureAbort, rowVars, pointVars
  <2>. QED  BY <1>1, <2>1 DEF Alike
<1>4. ASSUME CancelCommit(b) PROVE Grows(b)
  <2>1. /\ booking[b] # "NONE" /\ booking'[b] # "NONE" /\ mode' = mode
        /\ \E source \in ReturnRows : ledger'[b] = ledger[b] \cup PointsBack(b, source)
        /\ mishaps[b] \subseteq mishaps'[b]
    BY <1>4 DEF CancelCommit, SoftCancel, HardDelete, Exists, ReturnRows, TypeOK
  <2>. QED  BY <2>1 DEF Alike, PointsBack, ReturnRows
<1>5. ASSUME NEW t \in Txns, SuccessCallback(b, t) PROVE Grows(b)
  <2>1. UNCHANGED <<mode, ledger, mishaps>> /\ (booking[b] # "NONE" => booking'[b] # "NONE")
    BY <1>5 DEF SuccessCallback, CaptureSuccess, CaptureAgain, CaptureIgnored,
       BookingAfterCapture, pointVars, TypeOK
  <2>. QED  BY <1>1, <2>1 DEF Alike
<1>6. ASSUME FailureCallback(b) PROVE Grows(b)
  BY <1>1, <1>6 DEF FailureCallback, PointsBack, Alike, TypeOK
<1>7. ASSUME CaptureCommit(b) PROVE Grows(b)
  BY <1>7 DEF CaptureCommit, Exists, Alike, TypeOK, pointVars
<1>8. ASSUME B2Recreate(b) PROVE Grows(b)
  <2>1. ~Redeemed(b)
    BY <1>8 DEF B2Recreate, OneInv, Ownership, Redemption, Redeemed, Writable, PointsBack
  <2>2. booking'[b] = "CONFIRMED" /\ UNCHANGED <<mode, mishaps>> /\ ledger'[b] = ledger[b]
    BY <1>8, <2>1 DEF B2Recreate, PointsBack, TypeOK
  <2>. QED  BY <1>1, <2>2 DEF Alike
<1>9. ASSUME Crash(b) PROVE Grows(b)
  <2>1. /\ UNCHANGED <<booking, mode, ledger>> /\ mishaps'[b] = mishaps[b] \cup {"CRASHED"}
        /\ booking[b] # "NONE"
    BY <1>9 DEF Crash, OneInv, Fresh, TypeOK, rowVars, pointVars
  <2>. QED  BY <2>1 DEF Alike
<1>. QED
  BY <1>2, <1>3, <1>4, <1>5, <1>6, <1>7, <1>8, <1>9 DEF Customer, Gateway, Recovery

\* The staff, the crons after the slot, and time.
LEMMA StaffGrows ==
    ASSUME TypeOK, NEW b \in Bookings, OneInv(b), Staff(b) \/ AfterSlot(b) \/ Time(b)
    PROVE  Grows(b)
<1>. USE DEF Grows, Marred, Erased, Revived, Overlooked
<1>1. ASSUME mishaps'[b] = mishaps[b],
             booking[b] # "NONE" => /\ booking'[b] # "NONE" /\ mode'[b] = mode[b]
                                    /\ ledger[b] \subseteq ledger'[b]
                                    /\ Alike(b, {"BOOKING_REDEEM"})
      PROVE  Grows(b)
  BY <1>1 DEF OneInv, Fresh
<1>2. ASSUME \/ CascadeRead(b) \/ CascadeSkip(b) \/ MarkPayoutsPaid(b) \/ MarkPayoutUnpaid(b)
             \/ HoldExpires(b) \/ AgePasses(b) \/ StaffAbort(b)
             \/ \E to \in {"CONFIRMED", "COMPLETED"} : StaffRead(b, to)
      PROVE  Grows(b)
  <2>1. UNCHANGED <<booking, mode, ledger, mishaps>>
    BY <1>2 DEF CascadeRead, CascadeSkip, MarkPayoutsPaid, MarkPayoutUnpaid, HoldExpires,
       AgePasses, StaffRead, StaffAbort, rowVars, pointVars
  <2>. QED  BY <1>1, <2>1 DEF Alike
<1>3. ASSUME StaffCommit(b) PROVE Grows(b)
  <2>1. Confirm(b) \/ Complete(b, FALSE) \/ Complete(b, TRUE)
    BY <1>3 DEF StaffCommit
  <2>2. booking[b] # "NONE" /\ mode' = mode
    BY <1>3 DEF StaffCommit, Exists
  <2>3. /\ booking'[b] # "NONE" /\ mishaps[b] \subseteq mishaps'[b]
        /\ ledger'[b] \in {ledger[b], ledger[b] \cup {"BOOKING_EARN"}}
    <3>1. CASE Confirm(b)
      BY <3>1 DEF Confirm, TypeOK
    <3>2. CASE Complete(b, FALSE)
      BY <3>2 DEF Complete, TypeOK
    <3>3. CASE Complete(b, TRUE)
      BY <3>3 DEF Complete, TypeOK
    <3>. QED  BY <2>1, <3>1, <3>2, <3>3
  <2>. QED  BY <2>2, <2>3 DEF Alike
<1>4. ASSUME VendorCancel(b) \/ AdminCancel(b) PROVE Grows(b)
  <2>1. UNCHANGED <<mode, mishaps>>
    BY <1>4 DEF VendorCancel, AdminCancel
  <2>2. PICK who \in {"VENDOR", "ADMIN"}, source \in RefundRows : CancelWithRefund(b, who, source)
    BY <1>4 DEF VendorCancel, AdminCancel, RefundRows
  <2>3. /\ booking'[b] = "CANCELLED"
        /\ ledger'[b] = ledger[b] \cup (RefundRow(b, payment[b], source)
                           \cup PointsBack(b, "CANCEL_REFUND_PAID") \cup Reversal(b))
    BY <2>2 DEF CancelWithRefund, TypeOK
  <2>4. Alike(b, {"BOOKING_REDEEM"})
    BY <2>3 DEF Alike, RefundRow, PointsBack, Reversal, RefundRows
  <2>. QED  BY <1>1, <2>1, <2>3, <2>4
<1>5. ASSUME CascadeCommit(b) PROVE Grows(b)
  <2>1. /\ booking[b] # "NONE" /\ booking'[b] = "CANCELLED" /\ mode' = mode
        /\ ledger'[b] = ledger[b] \cup (RefundRow(b, cascadeRead[b], "ADMIN_REFUND_APPROVED")
                                        \cup PointsBack(b, "CANCEL_REFUND_PAID"))
        /\ mishaps[b] \subseteq mishaps'[b]
    BY <1>5 DEF CascadeCommit, TypeOK
  <2>2. Alike(b, {"BOOKING_REDEEM"})
    BY <2>1 DEF Alike, RefundRow, PointsBack
  <2>. QED  BY <2>1, <2>2
<1>6. ASSUME CascadeResolve(b) \/ RecordRefundDecision(b) PROVE Grows(b)
  <2>1. PICK pay \in {"REFUNDED", "REJECTED"},
             rows \in {{}, {"VENDOR_REFUND_APPROVED"}, {"ADMIN_REFUND_APPROVED"}} :
                SettleRefund(b, pay, rows)
    <3>1. CASE CascadeResolve(b)
      BY <3>1 DEF CascadeResolve
    <3>2. CASE RecordRefundDecision(b)
      BY <3>2, Zenon DEF RecordRefundDecision
    <3>. QED  BY <1>6, <3>1, <3>2
  <2>2. UNCHANGED <<booking, mode, mishaps>> /\ ledger'[b] = ledger[b] \cup rows
    BY <2>1 DEF SettleRefund, TypeOK
  <2>. QED  BY <1>1, <2>2 DEF Alike
<1>7. ASSUME AwardLoyalty(b) \/ AutoComplete(b) PROVE Grows(b)
  <2>1. /\ UNCHANGED <<mode, mishaps>> /\ (booking[b] # "NONE" => booking'[b] # "NONE")
        /\ ledger'[b] \in {ledger[b], ledger[b] \cup {"BOOKING_EARN"}}
    BY <1>7 DEF AwardLoyalty, AutoComplete, TypeOK, rowVars, pointVars
  <2>. QED  BY <1>1, <2>1 DEF Alike
<1>. QED
  BY <1>2, <1>3, <1>4, <1>5, <1>6, <1>7 DEF Staff, AfterSlot, Time

-----------------------------------------------------------------------------
(* Each step keeps PaidInv and honours the promise.                        *)

\* The customer's cancel, in each of its branches.
LEMMA CancelPromised ==
    ASSUME TypeOK, NEW b \in Bookings, OneInv(b), PaidInv(b), CancelCommit(b)
    PROVE  PaidInv(b)' /\ Honoured(b)
<1>. USE DEF Cash, Redeemed, Marred, Erased, Revived, Overlooked, Crashed
<1>1. /\ cancelRead'[b] \subseteq cancelRead[b]
      /\ UNCHANGED <<mode, recovery>>
  BY DEF CancelCommit, CancelEnds, TypeOK
<1>2. booking[b] \notin {"NONE", "DELETED"} /\ Redemption(b)
  BY DEF CancelCommit, Exists, OneInv
<1>3. ASSUME NEW branch \in {"POINTS", "PAID"}, branch \in cancelRead[b],
             NEW pay, pay = IF branch = "POINTS" THEN "REFUNDED" ELSE "REFUND_PENDING",
             SoftCancel(b, "SUCCESS", pay, "CANCEL_REFUND_PAID")
      PROVE  PaidInv(b)' /\ Honoured(b)
  <2>1. /\ payment[b] = "SUCCESS" /\ booking'[b] = "CANCELLED" /\ payment'[b] = pay
        /\ ledger'[b] = ledger[b] \cup PointsBack(b, "CANCEL_REFUND_PAID")
        /\ UNCHANGED mishaps
    BY <1>3 DEF SoftCancel, TypeOK
  <2>3. Alike(b, {"BOOKING_REDEEM"} \cup RefundRows)
    BY <2>1 DEF Alike, PointsBack, RefundRows
  <2>6. branch = "PAID" <=> Cash(b)
    BY <1>3 DEF PaidInv
  <2>7. Refunded(b)' <=> Refunded(b)
    BY <2>3, SameRefunds DEF Alike
  <2>8. PaidInv(b)'
    BY <1>1, <1>3, <2>1, <2>3, <2>6, <2>7 DEF PaidInv, Alike
  <2>9. ASSUME ~Marred(b) PROVE Promised(b)
    <3>1. booking[b] \in Live
      BY <1>2, <1>3, <2>1, <2>9 DEF PaidInv, TypeOK, BookingStatus
    <3>2. PointsReturn(b)
      BY <1>2, <2>1, <2>3, <2>9, <3>1, ReturnedPoints DEF Alike, PointsBack, ReturnRows
    <3>3. Credits(b, 0)
      BY <2>3, SameCredits DEF Alike
    <3>4. Lost(b)
      BY <1>3, <2>1, <2>6, <2>9, <3>1, <3>2, <3>3 DEF Lost, Deals, DealOf, Live
    <3>. QED  BY <1>1, <3>4 DEF Promised
  <2>. QED  BY <2>1, <2>8, <2>9 DEF Honoured
<1>4. ASSUME \/ SoftCancel(b, "PENDING", "FAILED", "CANCEL_REFUND_UNPAID")
             \/ HardDelete(b)
      PROVE  PaidInv(b)' /\ Honoured(b)
  <2>1. /\ ledger'[b] = ledger[b] \cup PointsBack(b, "CANCEL_REFUND_UNPAID")
        /\ booking'[b] \in {"CANCELLED", "DELETED"} /\ payment'[b] \in {"FAILED", "DELETED"}
        /\ mishaps[b] \subseteq mishaps'[b]
        /\ Marred(b)' \/ (payment[b] \notin Money /\ booking[b] # "CANCELLED")
    BY <1>4 DEF SoftCancel, HardDelete, TypeOK, Money, OneInv, Ownership
  <2>2. Alike(b, {"BOOKING_REDEEM"} \cup RefundRows)
    BY <2>1 DEF Alike, PointsBack, RefundRows
  <2>3. Refunded(b)' <=> Refunded(b)
    BY <2>2, SameRefunds DEF Alike
  <2>4. ~Erased(b)' /\ ~Revived(b)' => payment[b] \notin Money
    BY <1>4 DEF SoftCancel, HardDelete, TypeOK, Money
  <2>5. PaidInv(b)'
    BY <1>1, <2>1, <2>2, <2>3, <2>4 DEF PaidInv, Alike, Money
  <2>6. ASSUME ~Marred(b)' PROVE Promised(b)
    <3>1. booking[b] \in Live /\ ~Marred(b)
      BY <1>2, <2>1, <2>6 DEF TypeOK, BookingStatus, Live
    <3>2. PointsReturn(b)
      BY <1>2, <2>1, <2>2, <3>1, ReturnedPoints DEF Alike, PointsBack, ReturnRows
    <3>3. Credits(b, 0)
      BY <2>2, SameCredits DEF Alike
    <3>4. Deals(b, "OPEN", "CLOSED")
      BY <2>1, <2>6, <3>1 DEF Deals, DealOf, Live, Money
    <3>. QED  BY <1>1, <3>2, <3>3, <3>4 DEF Promised, Lost
  <2>. QED  BY <2>5, <2>6 DEF Honoured
<1>. QED
  BY <1>3, <1>4 DEF CancelCommit, CancelEnds

\* The customer's other steps.
LEMMA CustomerPromised ==
    ASSUME TypeOK, NEW b \in Bookings, OneInv(b), PaidInv(b), Customer(b)
    PROVE  PaidInv(b)' /\ Honoured(b)
<1>. USE DEF Marred, Erased, Revived, Overlooked, Crashed
<1>1. ASSUME NEW m \in Modes, CreateBooking(b, m) PROVE PaidInv(b)' /\ Honoured(b)
  <2>1. /\ booking[b] = "NONE" /\ payment[b] = "NONE" /\ ledger[b] = {} /\ mishaps[b] = {}
        /\ cancelRead[b] = {} /\ recovery[b] = "NONE"
        /\ m \in {"CARD", "MIXED", "POINTS"}
    BY <1>1, ConstantsAssumption DEF CreateBooking, OneInv, Fresh
  <2>2. /\ mode'[b] = m /\ booking'[b] = IF m = "POINTS" THEN "CONFIRMED" ELSE "PENDING"
        /\ payment'[b] = IF m = "POINTS" THEN "SUCCESS" ELSE "PENDING"
        /\ ledger'[b] = IF m = "CARD" THEN {} ELSE {"BOOKING_REDEEM"}
        /\ UNCHANGED <<cancelRead, recovery, mishaps>>
    BY <1>1 DEF CreateBooking, TypeOK, flightVars
  <2>3. Credits(b, 0)
    BY <2>1, <2>2, SameCredits DEF Alike, RefundRows
  <2>4. PointsOf(b)' \in {"NONE", "SPENT"}
    BY <2>2 DEF PointsOf, ReturnRows
  <2>5. DealOf(b) = "NONE" /\ DealOf(b)' = IF Cash(b)' THEN "OPEN" ELSE "SERVED"
    BY <2>1, <2>2 DEF DealOf, Cash, Live
  <2>6. PaidInv(b)'
    BY <2>1, <2>2 DEF PaidInv, Refunded, RefundRows, Live
  <2>. QED  BY <2>3, <2>4, <2>5, <2>6 DEF Honoured, Promised, Booked
<1>2. ASSUME InitiatePayment(b) \/ CancelRead(b) \/ CancelAbort(b)
      PROVE  PaidInv(b)' /\ Honoured(b)
  <2>1. UNCHANGED <<booking, payment, mode, ledger, recovery, mishaps>>
    BY <1>2 DEF InitiatePayment, CancelRead, CancelAbort, rowVars, pointVars, flightVars
  <2>2. Promised(b)
    BY <2>1, Unmoved DEF Alike, DealOf
  <2>3. PaidInv(b)'
    BY <1>2, <2>1 DEF InitiatePayment, CancelRead, CancelAbort, Cancellable, CancelBranch,
       PaidInv, Refunded, Cash, flightVars, TypeOK, Live
  <2>. QED  BY <2>2, <2>3 DEF Honoured
<1>. QED  BY <1>1, <1>2, CancelPromised DEF Customer

\* The gateway's steps: money comes in for a booking or for a lost one.
LEMMA GatewayPromised ==
    ASSUME TypeOK, NEW b \in Bookings, OneInv(b), PaidInv(b), Gateway(b)
    PROVE  PaidInv(b)' /\ Honoured(b)
<1>. USE DEF Marred, Erased, Revived, Overlooked, Crashed
<1>1. ASSUME NapsHold(b) \/ CaptureAbort(b) \/ \E t \in Txns : Capture(b, t) \/ CaptureRead(b, t)
      PROVE  PaidInv(b)' /\ Honoured(b)
  <2>1. UNCHANGED <<booking, payment, mode, ledger, cancelRead, recovery, mishaps>>
    BY <1>1 DEF NapsHold, Capture, CaptureRead, CaptureAbort, rowVars, pointVars, flightVars
  <2>. QED  BY <2>1, Unmoved DEF Alike, DealOf, PaidInv, Refunded, Cash, Honoured
<1>2. ASSUME NEW t \in Txns, SuccessCallback(b, t) PROVE PaidInv(b)' /\ Honoured(b)
  <2>1. UNCHANGED <<mode, ledger, cancelRead, mishaps>>
    BY <1>2 DEF SuccessCallback, pointVars
  <2>2. CASE CaptureAgain(b, t) \/ CaptureIgnored(b)
    <3>1. UNCHANGED <<booking, payment, recovery>>
      BY <2>2 DEF CaptureAgain, CaptureIgnored
    <3>. QED  BY <2>1, <3>1, Unmoved DEF Alike, DealOf, PaidInv, Refunded, Cash, Honoured
  <2>3. CASE CaptureSuccess(b, t)
    <3>1. /\ payment[b] \in {"PENDING", "FAILED"} /\ payment'[b] = "SUCCESS"
          /\ booking'[b] = IF booking[b] \in {"CANCELLED", "DELETED"} THEN booking[b]
                           ELSE "CONFIRMED"
          /\ booking[b] \in {"CANCELLED", "DELETED"} => recovery'[b] # "NONE"
      BY <2>3 DEF CaptureSuccess, BookingAfterCapture, RecoveryAfterCapture, TypeOK
    <3>2. booking[b] \in Live \cup {"CANCELLED", "DELETED"} /\ Cash(b)
      BY <3>1 DEF OneInv, Fresh, Captures, TypeOK, BookingStatus, Live
    <3>3. PointsStay(b) /\ Credits(b, 0)
      BY <2>1, SamePoints, SameCredits DEF Alike
    <3>4. Marred(b)' \/ Deals(b, "OPEN", "SERVED") \/ Deals(b, "CLOSED", "ORPHAN")
      BY <2>1, <3>1, <3>2 DEF Deals, DealOf, Live
    <3>5. cancelRead[b] \cap {"POINTS", "PAID"} = {}
      BY <3>1 DEF OneInv, Reads, Money
    <3>6. PaidInv(b)'
      BY <2>1, <3>1, <3>2, <3>5 DEF PaidInv, Refunded, Cash, Live
    <3>. QED  BY <2>1, <3>2, <3>3, <3>4, <3>6 DEF Honoured, Promised, Settled, Cash
  <2>. QED  BY <1>2, <2>2, <2>3 DEF SuccessCallback
<1>3. ASSUME FailureCallback(b) PROVE PaidInv(b)' /\ Honoured(b)
  <2>1. /\ booking'[b] = "DELETED" /\ payment[b] = "PENDING" /\ payment'[b] = "FAILED"
        /\ ledger'[b] = ledger[b] \cup PointsBack(b, "CANCEL_REFUND_UNPAID")
        /\ UNCHANGED <<mode, cancelRead, recovery, mishaps>>
    BY <1>3 DEF FailureCallback, TypeOK, flightVars
  <2>2. booking[b] \in Live /\ Redemption(b)
    BY <1>3, <2>1 DEF FailureCallback, Exists, OneInv, Ownership, TypeOK, BookingStatus, Live
  <2>3. Alike(b, {"BOOKING_REDEEM"} \cup RefundRows)
    BY <2>1 DEF Alike, PointsBack, RefundRows
  <2>4. ~Revived(b) => PointsReturn(b)
    BY <2>1, <2>2, <2>3, ReturnedPoints DEF Alike, PointsBack, ReturnRows
  <2>5. Credits(b, 0)
    BY <2>3, SameCredits DEF Alike
  <2>6. Marred(b)' \/ Lost(b)
    BY <2>1, <2>2, <2>4, <2>5 DEF Lost, Deals, DealOf, Live
  <2>7. PaidInv(b)'
    BY <2>1, <2>3, SameRefunds DEF PaidInv, Alike, Cash
  <2>. QED  BY <2>1, <2>6, <2>7 DEF Honoured, Promised, Cash
<1>4. ASSUME CaptureCommit(b) PROVE PaidInv(b)' /\ Honoured(b)
  <2>1. /\ payment[b] = "FAILED" /\ payment'[b] = "SUCCESS" /\ booking'[b] = "CONFIRMED"
        /\ booking[b] \notin {"NONE", "DELETED"}
        /\ mishaps'[b] = mishaps[b] \cup Revival(b)
        /\ UNCHANGED <<mode, ledger, cancelRead, recovery>>
    BY <1>4 DEF CaptureCommit, Exists, OneInv, Reads, TypeOK, pointVars
  <2>2. Cash(b)
    BY <2>1 DEF OneInv, Captures
  <2>3. PointsStay(b) /\ Credits(b, 0)
    BY <2>1, SamePoints, SameCredits DEF Alike
  <2>4. PaidInv(b)'
    BY <2>1 DEF PaidInv, Refunded, Cash, Live
  <2>5. Marred(b)' \/ (~Marred(b) /\ booking[b] \in Live)
    BY <2>1 DEF Revival, TypeOK, BookingStatus, Live
  <2>6. Marred(b)' \/ Deals(b, "OPEN", "SERVED")
    BY <2>1, <2>5 DEF Deals, DealOf, Live
  <2>. QED  BY <2>1, <2>2, <2>3, <2>4, <2>6 DEF Honoured, Promised, Settled, Cash
<1>. QED  BY <1>1, <1>2, <1>3, <1>4 DEF Gateway

\* The recovery gives the booking again or queues the refund.
LEMMA RecoveryPromised ==
    ASSUME TypeOK, NEW b \in Bookings, OneInv(b), PaidInv(b), Recovery(b) \/ Crash(b)
    PROVE  PaidInv(b)' /\ Honoured(b)
<1>. USE DEF Marred, Erased, Revived, Overlooked, Crashed
<1>1. ASSUME B2GiveUp(b) \/ B2SlotConflict(b) \/ Crash(b) PROVE PaidInv(b)' /\ Honoured(b)
  <2>1. /\ UNCHANGED <<booking, payment, mode, ledger, cancelRead>>
        /\ recovery[b] # "NONE"
        /\ \/ mishaps'[b] = mishaps[b] /\ recovery'[b] # "NONE"
           \/ mishaps'[b] = mishaps[b] \cup {"CRASHED"}
    BY <1>1 DEF B2GiveUp, B2SlotConflict, Crash, TypeOK, rowVars, pointVars
  <2>2. DealOf(b)' = DealOf(b)
    BY <2>1 DEF DealOf
  <2>. QED  BY <2>1, <2>2, Unmoved DEF Alike, PaidInv, Refunded, Cash, Honoured
<1>2. ASSUME B2Recreate(b) PROVE PaidInv(b)' /\ Honoured(b)
  <2>1. booking[b] = "DELETED" /\ payment[b] = "SUCCESS" /\ ~Redeemed(b)
    BY <1>2 DEF B2Recreate, OneInv, Ownership, Redemption, Redeemed, Writable, PointsBack
  <2>2. /\ booking'[b] = "CONFIRMED" /\ ledger'[b] = ledger[b] /\ recovery'[b] = "NONE"
        /\ UNCHANGED <<payment, mode, cancelRead, mishaps>>
    BY <1>2, <2>1 DEF B2Recreate, PointsBack, TypeOK
  <2>3. (Marred(b)' \/ Deals(b, "ORPHAN", "SERVED")) /\ PointsOf(b) = "NONE"
    BY <2>1, <2>2 DEF Deals, DealOf, PointsOf, OneInv, Redemption, Live
  <2>4. PointsStay(b) /\ Credits(b, 0)
    BY <2>2, SamePoints, SameCredits DEF Alike
  <2>. QED  BY <2>1, <2>2, <2>3, <2>4 DEF Honoured, Promised, Settled, PaidInv, Refunded, Cash, Live
<1>3. ASSUME QueueB2Refund(b) PROVE PaidInv(b)' /\ Honoured(b)
  <2>1. /\ booking[b] \in {"CANCELLED", "DELETED"} \/ Revived(b)
        /\ payment'[b] = IF payment[b] = "SUCCESS" THEN "REFUND_PENDING" ELSE payment[b]
        /\ recovery[b] # "NONE" /\ recovery'[b] = "NONE"
        /\ UNCHANGED <<booking, mode, ledger, cancelRead, mishaps>>
    BY <1>3 DEF QueueB2Refund, OneInv, Ownership, TypeOK, pointVars
  <2>2. Marred(b)' \/ Deals(b, "ORPHAN", "OWED") \/ DealOf(b)' = DealOf(b)
    BY <2>1 DEF Deals, DealOf, Live
  <2>3. PointsStay(b) /\ Credits(b, 0)
    BY <2>1, SamePoints, SameCredits DEF Alike
  <2>. QED  BY <2>1, <2>2, <2>3 DEF Honoured, Promised, Settled, PaidInv, Refunded, Cash
<1>. QED  BY <1>1, <1>2, <1>3 DEF Recovery

\* A cancel by the vendor or the admin, of whatever is not cancelled.
LEMMA StaffCancelPromised ==
    ASSUME TypeOK, NEW b \in Bookings, OneInv(b), PaidInv(b), VendorCancel(b) \/ AdminCancel(b)
    PROVE  PaidInv(b)' /\ Honoured(b)
<1>. USE DEF Marred, Erased, Revived, Overlooked, Crashed
<1>1. PICK who \in {"VENDOR", "ADMIN"}, source \in RefundRows : CancelWithRefund(b, who, source)
  BY DEF VendorCancel, AdminCancel, RefundRows
<1>. DEFINE rows == RefundRow(b, payment[b], source) \cup PointsBack(b, "CANCEL_REFUND_PAID")
                    \cup Reversal(b)
<1>2. UNCHANGED <<mode, cancelRead, recovery, mishaps>>
  BY DEF VendorCancel, AdminCancel, flightVars
<1>3. booking[b] \in Live /\ Redemption(b) /\ (payment[b] \notin Money \ {"SUCCESS"} \/ Revived(b))
  <2>1. Exists(b) /\ booking[b] # "CANCELLED"
    BY <1>1 DEF VendorCancel, AdminCancel, CancelWithRefund
  <2>. QED  BY <2>1 DEF Exists, OneInv, Ownership, TypeOK, BookingStatus, Live
<1>4. /\ booking'[b] = "CANCELLED" /\ ledger'[b] = ledger[b] \cup rows
      /\ rows \cap ledger[b] = {}
      /\ payment'[b] = (CASE payment[b] = "SUCCESS" -> "REFUNDED"
                          [] payment[b] = "PENDING" -> "FAILED"
                          [] OTHER -> payment[b])
  BY <1>1 DEF CancelWithRefund, Writable, TypeOK
<1>5. /\ "BOOKING_REDEEM" \notin rows
      /\ Redeemed(b) => "CANCEL_REFUND_PAID" \in rows
      /\ source \in rows <=> payment[b] = "SUCCESS" /\ Cash(b)
      /\ \A row \in RefundRows \ {source} : row \notin rows
  BY DEF RefundRow, PointsBack, Reversal, RefundRows
<1>. HIDE DEF rows
<1>6. ~Revived(b) => PointsReturn(b)
  BY <1>3, <1>4, <1>5, ReturnedPoints DEF Alike, ReturnRows
<1>7. Credits(b, IF payment[b] = "SUCCESS" /\ Cash(b) THEN 1 ELSE 0)
  <2>1. CASE payment[b] = "SUCCESS" /\ Cash(b)
    <3>1. source \notin ledger[b] /\ source \in ledger'[b] /\ Alike(b, RefundRows \ {source})
      BY <1>4, <1>5, <2>1 DEF Alike
    <3>. QED  BY <2>1, <3>1, OneCredit
  <2>2. CASE ~(payment[b] = "SUCCESS" /\ Cash(b))
    <3>1. Alike(b, RefundRows)
      BY <1>4, <1>5, <2>2 DEF Alike
    <3>. QED  BY <2>2, <3>1, SameCredits
  <2>. QED  BY <2>1, <2>2
<1>8. Marred(b)' \/ Lost(b)
  <2>1. CASE payment[b] = "SUCCESS"
    BY <1>2, <1>3, <1>4, <1>6, <1>7, <2>1 DEF Lost, Deals, DealOf, Live
  <2>2. CASE payment[b] # "SUCCESS"
    <3>1. Marred(b)' \/ Deals(b, "OPEN", "CLOSED")
      BY <1>2, <1>3, <1>4, <2>2 DEF Deals, DealOf, Live, Money, TypeOK, PaymentStatus
    <3>. QED  BY <1>2, <1>6, <1>7, <2>2, <3>1 DEF Lost
  <2>. QED  BY <2>1, <2>2
<1>9. PaidInv(b)'
  <2>1. payment'[b] # "SUCCESS"
    BY <1>4
  <2>2. payment'[b] = "REFUND_PENDING" => payment[b] = "REFUND_PENDING"
    BY <1>4
  <2>3. ASSUME ~Erased(b), ~Revived(b)
        PROVE  /\ ~Refunded(b)
               /\ Refunded(b)' => Cash(b) /\ payment'[b] = "REFUNDED"
               /\ \A r, s \in RefundRows : r \in ledger'[b] /\ s \in ledger'[b] => r = s
    <3>1. ~Refunded(b)
      BY <1>3, <2>3 DEF PaidInv, Live
    <3>. QED  BY <1>4, <1>5, <3>1 DEF Refunded
  <2>. QED  BY <1>2, <1>4, <2>1, <2>2, <2>3 DEF PaidInv, Cash
<1>. QED  BY <1>2, <1>8, <1>9 DEF Honoured, Promised, Cash

\* A change to CONFIRMED or COMPLETED, whose checks are as old as its read.
LEMMA StaffChangePromised ==
    ASSUME TypeOK, NEW b \in Bookings, OneInv(b), PaidInv(b), StaffCommit(b)
    PROVE  PaidInv(b)' /\ Honoured(b)
<1>. USE DEF Marred, Erased, Revived, Overlooked, Crashed
<1>1. booking[b] \notin {"NONE", "DELETED"} /\ UNCHANGED <<payment, mode, cancelRead, recovery>>
  BY DEF StaffCommit, Exists
<1>2. Confirm(b) \/ Complete(b, FALSE) \/ Complete(b, TRUE)
  BY DEF StaffCommit
<1>3. /\ booking'[b] \in {"CONFIRMED", "COMPLETED"}
      /\ ledger'[b] \in {ledger[b], ledger[b] \cup {"BOOKING_EARN"}}
      /\ mishaps'[b] \in {mishaps[b] \cup Revival(b), mishaps[b] \cup Revival(b) \cup Haste}
  <2>1. CASE Confirm(b)
    BY <2>1 DEF Confirm, TypeOK
  <2>2. CASE Complete(b, FALSE)
    BY <2>2 DEF Complete, TypeOK
  <2>3. CASE Complete(b, TRUE)
    BY <2>3 DEF Complete, TypeOK
  <2>. QED  BY <1>2, <2>1, <2>2, <2>3
<1>4. Alike(b, {"BOOKING_REDEEM"} \cup ReturnRows \cup RefundRows)
  BY <1>3 DEF Alike, ReturnRows, RefundRows
<1>5. Refunded(b)' <=> Refunded(b)
  BY <1>4, SameRefunds DEF Alike
<1>6. booking[b] \in Live \/ Revived(b)'
  BY <1>1, <1>3 DEF Revival, TypeOK, BookingStatus, Live
<1>7. PaidInv(b)'
  BY <1>1, <1>3, <1>4, <1>5, <1>6 DEF PaidInv, Alike, Cash, Live
<1>8. Marred(b)' \/ DealOf(b)' = DealOf(b)
  BY <1>1, <1>3, <1>6 DEF DealOf, Live
<1>. QED  BY <1>1, <1>4, <1>7, <1>8, Unmoved DEF Honoured

\* The cascade's commit: what it read tells what it refunds.
LEMMA CascadePromised ==
    ASSUME TypeOK, NEW b \in Bookings, OneInv(b), PaidInv(b), CascadeCommit(b)
    PROVE  PaidInv(b)' /\ Honoured(b)
<1>. USE DEF Marred, Erased, Revived, Overlooked, Crashed
<1>. DEFINE rows == RefundRow(b, cascadeRead[b], "ADMIN_REFUND_APPROVED")
                    \cup PointsBack(b, "CANCEL_REFUND_PAID")
<1>1. /\ booking[b] \in {"PENDING", "CONFIRMED"} /\ Redemption(b)
      /\ cascadeRead[b] # "NONE"
      /\ cascadeRead[b] = "PENDING" => payment[b] = "PENDING"
      /\ ~Revived(b) => payment[b] \notin (Money \cup {"DELETED"}) \ {"SUCCESS"}
      /\ cascadeRead[b] = "SUCCESS" => payment[b] \in Money \cup {"DELETED"}
  BY DEF CascadeCommit, OneInv, Ownership, Reads
<1>2. /\ booking'[b] = "CANCELLED" /\ ledger'[b] = ledger[b] \cup rows
      /\ rows \cap ledger[b] = {}
      /\ payment'[b] = (CASE cascadeRead[b] = "SUCCESS" -> "REFUNDED"
                          [] cascadeRead[b] = "PENDING" -> "FAILED"
                          [] OTHER -> payment[b])
      /\ mishaps[b] \subseteq mishaps'[b] /\ mishaps'[b] \subseteq mishaps[b] \cup {"OVERLOOKED"}
      /\ payment[b] = "SUCCESS" /\ cascadeRead[b] # "SUCCESS" => Overlooked(b)'
      /\ UNCHANGED <<mode, cancelRead, recovery>>
  BY DEF CascadeCommit, Writable, TypeOK
<1>3. /\ "BOOKING_REDEEM" \notin rows
      /\ Redeemed(b) => "CANCEL_REFUND_PAID" \in rows
      /\ "ADMIN_REFUND_APPROVED" \in rows <=> cascadeRead[b] = "SUCCESS" /\ Cash(b)
      /\ "VENDOR_REFUND_APPROVED" \notin rows
  BY DEF RefundRow, PointsBack
<1>. HIDE DEF rows
<1>4. PaidInv(b)'
  <2>1. payment'[b] = "SUCCESS" => Overlooked(b)'
    BY <1>2
  <2>2. payment'[b] = "REFUND_PENDING" => payment[b] = "REFUND_PENDING"
    BY <1>2
  <2>3. ASSUME ~Erased(b), ~Revived(b)
        PROVE  /\ Refunded(b)' => Cash(b) /\ payment'[b] = "REFUNDED"
               /\ \A r, s \in RefundRows : r \in ledger'[b] /\ s \in ledger'[b] => r = s
    <3>1. ~Refunded(b)
      BY <1>1, <2>3 DEF PaidInv
    <3>. QED  BY <1>2, <1>3, <3>1 DEF Refunded, RefundRows
  <2>. QED  BY <1>2, <2>1, <2>2, <2>3 DEF PaidInv, Cash
<1>5. ASSUME ~Marred(b)' PROVE Promised(b)
  <2>1. ~Marred(b)
    BY <1>2, <1>5
  <2>2. PointsReturn(b)
    BY <1>1, <1>2, <1>3, <2>1, ReturnedPoints DEF Alike, ReturnRows, Live
  <2>3. payment[b] = "SUCCESS" <=> cascadeRead[b] = "SUCCESS"
    BY <1>1, <1>2, <1>5, <2>1
  <2>4. CASE payment[b] = "SUCCESS" /\ Cash(b)
    <3>1. Credits(b, 1)
      BY <1>2, <1>3, <2>3, <2>4, OneCredit DEF Alike, RefundRows
    <3>. QED
      BY <1>1, <1>2, <1>5, <2>1, <2>2, <2>3, <2>4, <3>1 DEF Promised, Lost, Deals, DealOf, Live, Cash
  <2>5. CASE ~(payment[b] = "SUCCESS" /\ Cash(b))
    <3>1. Credits(b, 0)
      BY <1>2, <1>3, <2>3, <2>5, SameCredits DEF Alike, RefundRows
    <3>2. CASE payment[b] = "SUCCESS"
      BY <1>1, <1>2, <1>5, <2>1, <2>2, <2>3, <2>5, <3>1, <3>2
         DEF Promised, Lost, Deals, DealOf, Live, Cash
    <3>3. CASE payment[b] # "SUCCESS"
      <4>1. Deals(b, "OPEN", "CLOSED")
        BY <1>1, <1>2, <1>5, <2>1, <2>3, <3>3 DEF Deals, DealOf, Live, Money
      <4>. QED  BY <1>2, <2>2, <3>1, <4>1 DEF Promised, Lost, Cash
    <3>. QED  BY <3>2, <3>3
  <2>. QED  BY <2>4, <2>5
<1>. QED  BY <1>4, <1>5 DEF Honoured

\* The staff's steps, the crons after the slot, and time.
LEMMA StaffPromised ==
    ASSUME TypeOK, NEW b \in Bookings, OneInv(b), PaidInv(b),
           Staff(b) \/ AfterSlot(b) \/ Time(b)
    PROVE  PaidInv(b)' /\ Honoured(b)
<1>. USE DEF Marred, Erased, Revived, Overlooked, Crashed
<1>2. ASSUME CascadeResolve(b) \/ RecordRefundDecision(b) PROVE PaidInv(b)' /\ Honoured(b)
  <2>1. PICK pay \in {"REFUNDED", "REJECTED"},
             rows \in {{}, {"VENDOR_REFUND_APPROVED"}, {"ADMIN_REFUND_APPROVED"}} :
                SettleRefund(b, pay, rows) /\ (rows # {} => pay = "REFUNDED")
    <3>1. CASE CascadeResolve(b)
      BY <3>1 DEF CascadeResolve
    <3>2. CASE RecordRefundDecision(b)
      BY <3>2, Zenon DEF RecordRefundDecision
    <3>. QED  BY <1>2, <3>1, <3>2
  <2>2. /\ booking[b] = "CANCELLED" /\ payment[b] = "REFUND_PENDING" /\ payment'[b] = pay
        /\ ledger'[b] = ledger[b] \cup rows /\ rows \cap ledger[b] = {}
        /\ UNCHANGED <<booking, mode, cancelRead, recovery, mishaps>>
    BY <2>1 DEF SettleRefund, Writable, TypeOK, flightVars
  <2>3. PointsStay(b)
    BY <2>2, SamePoints DEF Alike, ReturnRows
  <2>4. Marred(b)' \/ Deals(b, "OWED", IF pay = "REFUNDED" THEN "RETURNED" ELSE "KEPT")
    BY <2>2 DEF Deals, DealOf
  <2>5. IF rows = {} THEN Credits(b, 0) ELSE Credits(b, 1)
    <3>1. CASE rows = {}
      BY <2>2, <3>1, SameCredits DEF Alike
    <3>2. ASSUME NEW source \in RefundRows, rows = {source} PROVE Credits(b, 1)
      BY <2>2, <3>2, OneCredit DEF Alike
    <3>. QED  BY <3>1, <3>2 DEF RefundRows
  <2>6. PaidInv(b)'
    BY <2>1, <2>2 DEF PaidInv, Refunded, Cash
  <2>. QED  BY <2>1, <2>2, <2>3, <2>4, <2>5, <2>6 DEF Honoured, Promised, Settled, Cash
<1>3. ASSUME \/ CascadeRead(b) \/ CascadeSkip(b) \/ MarkPayoutsPaid(b) \/ MarkPayoutUnpaid(b)
             \/ HoldExpires(b) \/ AgePasses(b) \/ StaffAbort(b)
             \/ \E to \in {"CONFIRMED", "COMPLETED"} : StaffRead(b, to)
      PROVE  PaidInv(b)' /\ Honoured(b)
  <2>1. UNCHANGED <<booking, payment, mode, ledger, cancelRead, recovery, mishaps>>
    BY <1>3 DEF CascadeRead, CascadeSkip, MarkPayoutsPaid, MarkPayoutUnpaid, HoldExpires,
       AgePasses, StaffRead, StaffAbort, rowVars, pointVars, flightVars
  <2>. QED  BY <2>1, Unmoved DEF Alike, DealOf, PaidInv, Refunded, Cash, Honoured
<1>4. ASSUME AwardLoyalty(b) PROVE PaidInv(b)' /\ Honoured(b)
  <2>1. /\ ledger'[b] = ledger[b] \cup {"BOOKING_EARN"}
        /\ UNCHANGED <<booking, payment, mode, cancelRead, recovery, mishaps>>
    BY <1>4 DEF AwardLoyalty, TypeOK, rowVars, flightVars
  <2>2. Alike(b, {"BOOKING_REDEEM"} \cup ReturnRows \cup RefundRows)
    BY <2>1 DEF Alike, ReturnRows, RefundRows
  <2>. QED  BY <2>1, <2>2, Unmoved, SameRefunds DEF DealOf, PaidInv, Alike, Cash, Honoured
<1>5. ASSUME AutoComplete(b) PROVE PaidInv(b)' /\ Honoured(b)
  <2>1. /\ booking[b] = "CONFIRMED" /\ booking'[b] = "COMPLETED"
        /\ UNCHANGED <<payment, mode, ledger, cancelRead, recovery, mishaps>>
    BY <1>5 DEF AutoComplete, TypeOK, pointVars, flightVars
  <2>2. DealOf(b)' = DealOf(b)
    BY <2>1 DEF DealOf, Live
  <2>. QED  BY <2>1, <2>2, Unmoved DEF Alike, PaidInv, Refunded, Cash, Live, Honoured
<1>. QED
  BY <1>2, <1>3, <1>4, <1>5, StaffCancelPromised, StaffChangePromised, CascadePromised
     DEF Staff, AfterSlot, Time

\* The cron closes the unpaid bookings of its scan.
LEMMA CronPromised ==
    ASSUME TypeOK, NEW b \in Bookings, OneInv(b), PaidInv(b), Cron \/ SlotTime
    PROVE  PaidInv(b)' /\ Promised(b)
<1>. USE DEF Marred, Erased, Revived, Overlooked, Crashed
<1>1. ASSUME CronScan \/ CronAbort \/ SlotTime PROVE PaidInv(b)' /\ Promised(b)
  <2>1. UNCHANGED <<booking, payment, mode, ledger, cancelRead, recovery, mishaps>>
    BY <1>1 DEF CronScan, CronAbort, SlotTime, rowVars, pointVars, flightVars
  <2>. QED  BY <2>1, Unmoved DEF Alike, DealOf, PaidInv, Refunded, Cash
<1>2. ASSUME CronReap PROVE PaidInv(b)' /\ Promised(b)
  <2>1. /\ UNCHANGED <<mode, cancelRead, recovery, mishaps>>
        /\ payment'[b] = IF b \in cronScan /\ payment[b] = "PENDING" THEN "FAILED" ELSE payment[b]
        /\ IF b \in Claimed THEN /\ booking'[b] = "DELETED"
                                 /\ ledger'[b] = ledger[b] \cup PointsBack(b, "CANCEL_REFUND_UNPAID")
           ELSE booking'[b] = booking[b] /\ ledger'[b] = ledger[b]
    BY <1>2 DEF CronReap
  <2>2. CASE b \in Claimed
    <3>1. /\ b \in cronScan /\ booking[b] = "PENDING" /\ payment[b] = "PENDING" /\ Redemption(b)
          /\ booking[b] \in Live
      BY <2>2 DEF Claimed, PaidInv, OneInv, Live
    <3>2. Alike(b, {"BOOKING_REDEEM"} \cup RefundRows)
      BY <2>1, <2>2 DEF Alike, PointsBack, RefundRows
    <3>3. ~Revived(b) => PointsReturn(b)
      BY <2>1, <2>2, <3>1, <3>2, ReturnedPoints DEF Alike, PointsBack, ReturnRows
    <3>4. Credits(b, 0)
      BY <3>2, SameCredits DEF Alike
    <3>5. Marred(b)' \/ Lost(b)
      BY <2>1, <2>2, <3>1, <3>3, <3>4 DEF Lost, Deals, DealOf, Live
    <3>6. Promised(b)
      <4>1. ASSUME Marred(b)' PROVE Promised(b)
        BY <2>1, <2>2, <3>1, <3>2, <4>1, VoidPromised DEF Alike
      <4>. QED  BY <2>1, <3>5, <4>1 DEF Promised, Cash
    <3>7. PaidInv(b)'
      BY <2>1, <2>2, <3>1, <3>2, SameRefunds DEF PaidInv, Alike, Cash
    <3>. QED  BY <3>6, <3>7
  <2>3. CASE b \notin Claimed
    <3>1. payment[b] = "PENDING" /\ b \in cronScan => booking[b] # "PENDING"
      BY <2>3 DEF Claimed
    <3>2. DealOf(b)' = DealOf(b)
      BY <2>1, <2>3 DEF DealOf, Live
    <3>3. PaidInv(b)'
      BY <2>1, <2>3, <3>1 DEF PaidInv, Refunded, Cash
    <3>. QED  BY <2>1, <2>3, <3>2, <3>3, Unmoved DEF Alike
  <2>. QED  BY <2>2, <2>3
<1>. QED  BY <1>1, <1>2 DEF Cron

AllPaid == \A b \in Bookings : PaidInv(b)

\* Every step keeps PaidInv and the promise, for the bookings it is about and
\* for the others.
LEMMA EveryonePromised ==
    ASSUME TypeOK, MoneyInv, AllPaid, [Next]_vars, NEW b \in Bookings
    PROVE  PaidInv(b)' /\ Promised(b)
<1>1. \A c \in Bookings : OneInv(c) /\ PaidInv(c)
  BY DEF MoneyInv, OneInv, AllPaid
<1>2. ASSUME Rows(b)' = Rows(b) PROVE PaidInv(b)' /\ Promised(b)
  <2>1. PaidInv(b)'
    BY <1>1, <1>2, KeptPaid
  <2>2. DealOf(b)' = DealOf(b) /\ mode'[b] = mode[b] /\ ledger'[b] = ledger[b]
    BY <1>2 DEF Rows, DealOf, Erased, Revived, Overlooked
  <2>. QED  BY <2>1, <2>2, Unmoved DEF Alike
<1>3. ASSUME NEW c \in Bookings,
             \/ Customer(c) \/ Gateway(c) \/ Recovery(c) \/ Crash(c)
             \/ Staff(c) \/ AfterSlot(c) \/ Time(c)
      PROVE  PaidInv(b)' /\ Promised(b)
  <2>1. CASE b = c
    <3>1. PaidInv(b)' /\ Honoured(b)
      BY <1>1, <1>3, <2>1, CustomerPromised, GatewayPromised, RecoveryPromised, StaffPromised
    <3>2. Grows(b)
      BY <1>1, <1>3, <2>1, CustomerGrows, StaffGrows
    <3>. QED  BY <3>1, <3>2, HonouredIsPromised
  <2>2. CASE b # c
    <3>1. OthersKept(c)
      BY <1>1, <1>3, CustomerInv, GatewayInv, RecoveryInv, StaffInv
    <3>. QED  BY <1>2, <2>2, <3>1 DEF OthersKept
  <2>. QED  BY <2>1, <2>2
<1>4. CASE Cron \/ SlotTime
  BY <1>1, <1>4, CronPromised
<1>5. CASE UNCHANGED vars
  BY <1>2, <1>5 DEF vars, rowVars, gatewayVars, pointVars, flightVars, updateVars, Rows
<1>. QED  BY <1>3, <1>4, <1>5 DEF Next

\* The rows of every booking agree in every behaviour.
LEMMA AllPaidInvariant == Spec => []AllPaid
<1>1. Init => AllPaid
  BY DEF Init, AllPaid, PaidInv, Refunded, Cash, Live
<1>2. TypeOK /\ MoneyInv /\ AllPaid /\ [Next]_vars => AllPaid'
  BY EveryonePromised DEF AllPaid
<1>. QED  BY <1>1, <1>2, MoneyInvariant, TypeCorrect, PTL DEF Spec

\* Money that came in belongs to a booking the customer still has, or its
\* recovery is running: no cancel, hard delete, status change or cron run strands
\* a capture, but a crash between the callback's two commits and a cascade that
\* had read the payment before the capture.
THEOREM CaptureIsNeverStranded == Spec => []NoStrandedCapture
<1>1. AllPaid => NoStrandedCapture
  BY DEF AllPaid, PaidInv, NoStrandedCapture
<1>. QED  BY <1>1, AllPaidInvariant, PTL

\* What is promised of every booking is a step of MoneyPromise.
LEMMA PromisedIsNext ==
    ASSUME \A b \in Bookings : Promised(b)
    PROVE  Promise!Next
<1>1. ASSUME NEW b \in Bookings
      PROVE  \/ Promise!Book(b)
             \/ /\ Cash(b)' = Cash(b)
                /\ \/ Promise!Receive(b) \/ Promise!Close(b) \/ Promise!Cancel(b)
                   \/ Promise!Restore(b) \/ Promise!Owe(b) \/ Promise!Decide(b)
                   \/ Promise!Same(b) \/ Promise!Void(b)
  <2>. USE DEF Deals, Credits, PointsStay, PointsReturn, Promise!Credited, Promise!SamePoints,
       Promise!GiveBack
  <2>1. CASE Booked(b)
    BY <2>1 DEF Booked, Promise!Book
  <2>2. CASE Cash(b)' = Cash(b) /\ Lost(b)
    <3>1. CASE Deals(b, "OPEN", "CLOSED")
      BY <2>2, <3>1 DEF Lost, Promise!Close
    <3>2. CASE Deals(b, "SERVED", "OWED")
      BY <2>2, <3>2 DEF Lost, Promise!Cancel
    <3>3. CASE Deals(b, "SERVED", "RETURNED")
      BY <2>2, <3>3 DEF Lost, Promise!Cancel
    <3>. QED  BY <2>2, <3>1, <3>2, <3>3 DEF Lost
  <2>3. CASE Cash(b)' = Cash(b) /\ Settled(b)
    <3>1. CASE Cash(b) /\ (Deals(b, "OPEN", "SERVED") \/ Deals(b, "CLOSED", "ORPHAN"))
      BY <2>3, <3>1 DEF Settled, Promise!Receive
    <3>2. CASE Deals(b, "ORPHAN", "SERVED") /\ PointsOf(b) = "NONE"
      BY <2>3, <3>2 DEF Settled, Promise!Restore
    <3>3. CASE Deals(b, "ORPHAN", "OWED")
      BY <2>3, <3>3 DEF Settled, Promise!Owe
    <3>4. CASE Deals(b, "OWED", "RETURNED") \/ Deals(b, "OWED", "KEPT")
      BY <2>3, <3>4 DEF Settled, Promise!Decide
    <3>5. CASE DealOf(b)' = DealOf(b) /\ Credits(b, 0)
      BY <2>3, <3>5 DEF Settled, Promise!Same
    <3>. QED  BY <2>3, <3>1, <3>2, <3>3, <3>4, <3>5 DEF Settled
  <2>4. CASE Cash(b)' = Cash(b) /\ Voided(b)
    BY <2>4 DEF Voided, Promise!Void
  <2>. QED  BY <2>1, <2>2, <2>3, <2>4 DEF Promised
<1>. QED  BY <1>1 DEF Promise!Next

\* The handlers, the callbacks, the crons and the staff keep the promise of
\* MoneyPromise to every customer; it is void for a booking only from the step
\* of one of its mishaps on.
THEOREM PromiseIsKept == Spec => KeepsPromise
<1>1. Init => Promise!Init
  <2>1. ASSUME Init, NEW b \in Bookings
        PROVE  /\ DealOf(b) = "NONE" /\ Cash(b) = TRUE
               /\ PointsOf(b) = "NONE" /\ CreditsOf(b) = 0
    BY <2>1 DEF Init, DealOf, Cash, PointsOf, CreditsOf
  <2>. QED  BY <2>1 DEF Promise!Init
<1>2. TypeOK /\ MoneyInv /\ AllPaid /\ [Next]_vars => [Promise!Next]_(Promise!vars)
  BY EveryonePromised, PromisedIsNext
<1>. QED
  BY <1>1, <1>2, AllPaidInvariant, MoneyInvariant, TypeCorrect, PTL
     DEF Spec, KeepsPromise, Promise!Spec

\* A refund is credited at most once, on a cancelled booking, and only for money
\* that the gateway took: staff, cascade and refund decision never pay twice,
\* unless the booking was brought back or its rows were erased.
THEOREM RefundsAreBacked == Spec => []RefundBacked
<1>1. MoneyInv /\ AllPaid => RefundBacked
  <2>1. ASSUME MoneyInv, AllPaid, NEW b \in Bookings, ledger[b] \cap RefundRows # {},
               ~Erased(b), ~Revived(b)
        PROVE  /\ \E r \in RefundRows : ledger[b] \cap RefundRows = {r}
               /\ captured[b] # {} /\ payment[b] = "REFUNDED" /\ booking[b] = "CANCELLED"
    <3>1. Cash(b) /\ payment[b] = "REFUNDED" /\ booking[b] = "CANCELLED"
      BY <2>1 DEF AllPaid, PaidInv, Refunded
    <3>2. captured[b] # {}
      BY <2>1, <3>1 DEF MoneyInv, Captures, Money
    <3>3. \A r, s \in RefundRows : r \in ledger[b] /\ s \in ledger[b] => r = s
      BY <2>1 DEF AllPaid, PaidInv
    <3>. QED  BY <2>1, <3>1, <3>2, <3>3
  <2>. QED  BY <2>1 DEF RefundBacked
<1>. QED  BY <1>1, AllPaidInvariant, MoneyInvariant, PTL

-----------------------------------------------------------------------------
(* Earned points.                                                          *)

\* No cancel of a customer or of the cascade is still running when the slot
\* starts and points can be earned; a booking that has earned is flagged so,
\* until the cancel that reverses it, which it does once.  Points earned before
\* the slot, and those of a booking that was inserted again, are not counted.
EarnInv(b) ==
    /\ phase # "FUTURE" => cancelRead[b] = {} /\ cascadeRead[b] = "NONE"
    /\ ("BOOKING_EARN" \in ledger[b] /\ ~Early(b) /\ ~recreated[b] =>
          /\ phase # "FUTURE" /\ booking[b] \notin {"NONE", "PENDING"}
          /\ booking[b] \in Live => awarded[b] \/ "CANCEL_REVERSE_AWARDED" \in ledger[b]
          /\ booking[b] = "CANCELLED" => "CANCEL_REVERSE_AWARDED" \in ledger[b] /\ ~awarded[b])

\* A step for one booking does not move the slot in time, starts a cancel only
\* before it, and awards nothing to the other bookings.
LEMMA AwardsKept ==
    ASSUME TypeOK, NEW b \in Bookings,
           \/ Customer(b) \/ Gateway(b) \/ Recovery(b) \/ Crash(b)
           \/ Staff(b) \/ AfterSlot(b) \/ Time(b)
    PROVE  /\ phase' = phase
           /\ phase = "FUTURE" \/ (/\ cancelRead'[b] \subseteq cancelRead[b]
                                   /\ cascadeRead'[b] \in {cascadeRead[b], "NONE"})
           /\ recreated[b] => recreated'[b]
           /\ \A c \in Bookings \ {b} : awarded'[c] = awarded[c] /\ recreated'[c] = recreated[c]
<1>. USE DEF TypeOK, rowVars, gatewayVars, pointVars, payoutVars, flightVars, updateVars
<1>1. CASE Customer(b)
  BY <1>1 DEF Customer, CreateBooking, InitiatePayment, CancelRead, Cancellable, CancelCommit,
     CancelEnds, CancelAbort
<1>2. CASE Gateway(b) \/ Recovery(b) \/ Crash(b)
  BY <1>2 DEF Gateway, Capture, SuccessCallback, FailureCallback, NapsHold, CaptureRead,
     CaptureCommit, CaptureAbort,
     Recovery, B2GiveUp, B2Recreate, B2SlotConflict, QueueB2Refund, Crash
<1>3. CASE Staff(b)
  <2>1. CASE StaffCommit(b)
    <3>1. UNCHANGED <<phase, cancelRead, cascadeRead, recreated>>
      BY <2>1 DEF StaffCommit
    <3>2. Confirm(b) \/ Complete(b, FALSE) \/ Complete(b, TRUE)
      BY <2>1 DEF StaffCommit
    <3>3. CASE Confirm(b)
      BY <3>1, <3>3 DEF Confirm
    <3>4. CASE Complete(b, FALSE)
      BY <3>1, <3>4 DEF Complete
    <3>5. CASE Complete(b, TRUE)
      BY <3>1, <3>5 DEF Complete
    <3>. QED  BY <3>2, <3>3, <3>4, <3>5
  <2>2. CASE CascadeResolve(b) \/ RecordRefundDecision(b)
    BY <2>2 DEF CascadeResolve, RecordRefundDecision, SettleRefund
  <2>3. CASE CascadeRead(b) \/ CascadeCommit(b) \/ CascadeSkip(b)
    BY <2>3 DEF CascadeRead, CascadeCommit, CascadeSkip
  <2>4. CASE MarkPayoutsPaid(b) \/ MarkPayoutUnpaid(b)
    BY <2>4 DEF MarkPayoutsPaid, MarkPayoutUnpaid
  <2>5. CASE VendorCancel(b) \/ AdminCancel(b)
    BY <2>5 DEF VendorCancel, AdminCancel, CancelWithRefund
  <2>6. CASE StaffAbort(b) \/ \E to \in {"CONFIRMED", "COMPLETED"} : StaffRead(b, to)
    BY <2>6 DEF StaffRead, StaffAbort
  <2>. QED  BY <1>3, <2>1, <2>2, <2>3, <2>4, <2>5, <2>6 DEF Staff
<1>4. CASE AfterSlot(b) \/ Time(b)
  BY <1>4 DEF AfterSlot, AwardLoyalty, AutoComplete, Time, HoldExpires, AgePasses
<1>. QED  BY <1>1, <1>2, <1>3, <1>4

\* The steps that are not about the award leave it as it is, or there is none.
LEMMA NothingEarned ==
    ASSUME TypeOK, NEW b \in Bookings, OneInv(b), EarnInv(b),
           \/ Customer(b) \/ Gateway(b) \/ Recovery(b) \/ Crash(b)
           \/ Staff(b) \/ AfterSlot(b) \/ Time(b),
           \/ "BOOKING_EARN" \notin ledger'[b]
           \/ recreated'[b]
           \/ Early(b)'
           \/ /\ Alike(b, {"BOOKING_EARN", "CANCEL_REVERSE_AWARDED"})
              /\ booking'[b] = booking[b] /\ awarded'[b] = awarded[b]
    PROVE  EarnInv(b)'
<1>1. /\ phase' = phase
      /\ phase = "FUTURE" \/ (/\ cancelRead'[b] \subseteq cancelRead[b]
                              /\ cascadeRead'[b] \in {cascadeRead[b], "NONE"})
      /\ recreated[b] => recreated'[b]
  BY AwardsKept
<1>2. Early(b) => Early(b)'
  BY CustomerGrows, StaffGrows DEF Grows, Early
<1>3. phase' # "FUTURE" => cancelRead'[b] = {} /\ cascadeRead'[b] = "NONE"
  BY <1>1 DEF EarnInv
<1>. QED  BY <1>1, <1>2, <1>3 DEF EarnInv, Alike

\* The customer, the gateway and the recovery: no award is lost.
LEMMA CustomerEarn ==
    ASSUME TypeOK, NEW b \in Bookings, OneInv(b), EarnInv(b),
           Customer(b) \/ Gateway(b) \/ Recovery(b) \/ Crash(b)
    PROVE  EarnInv(b)'
<1>2. ASSUME NEW m \in Modes, CreateBooking(b, m) PROVE EarnInv(b)'
  BY <1>2, NothingEarned DEF CreateBooking, TypeOK
<1>3. ASSUME \/ InitiatePayment(b) \/ CancelRead(b) \/ CancelAbort(b) \/ NapsHold(b)
             \/ B2GiveUp(b) \/ B2SlotConflict(b) \/ QueueB2Refund(b) \/ Crash(b)
             \/ CaptureAbort(b) \/ \E t \in Txns : Capture(b, t) \/ CaptureRead(b, t)
      PROVE  EarnInv(b)'
  <2>1. UNCHANGED <<booking, ledger, awarded>>
    BY <1>3 DEF InitiatePayment, CancelRead, CancelAbort, NapsHold, B2GiveUp, B2SlotConflict,
       QueueB2Refund, Crash, Capture, CaptureRead, CaptureAbort, rowVars, pointVars
  <2>. QED  BY <2>1, NothingEarned DEF Alike
<1>4. ASSUME CancelCommit(b) PROVE EarnInv(b)'
  <2>1. phase = "FUTURE" /\ phase' = phase /\ UNCHANGED recreated
    BY <1>4 DEF CancelCommit, CancelEnds, EarnInv
  <2>2. "BOOKING_EARN" \notin ledger[b] \/ Early(b) \/ recreated[b]
    BY <2>1 DEF EarnInv
  <2>3. \E source \in ReturnRows : ledger'[b] = ledger[b] \cup PointsBack(b, source)
    BY <1>4 DEF CancelCommit, SoftCancel, HardDelete, ReturnRows, TypeOK
  <2>4. Early(b) => Early(b)'
    BY CustomerGrows DEF Grows, Early
  <2>5. "BOOKING_EARN" \in ledger'[b] <=> "BOOKING_EARN" \in ledger[b]
    BY <2>3 DEF PointsBack, ReturnRows
  <2>. QED  BY <2>1, <2>2, <2>4, <2>5, NothingEarned
<1>5. ASSUME CaptureCommit(b) \/ \E t \in Txns : SuccessCallback(b, t)
      PROVE  EarnInv(b)'
  <2>1. UNCHANGED <<ledger, awarded, phase, cancelRead, cascadeRead, recreated>>
    BY <1>5 DEF SuccessCallback, CaptureCommit, pointVars
  <2>2. \/ booking'[b] = booking[b]
        \/ booking'[b] = "CONFIRMED" /\ booking[b] # "DELETED"
    BY <1>5 DEF SuccessCallback, CaptureSuccess, CaptureAgain, CaptureIgnored, CaptureCommit,
       BookingAfterCapture, Exists, TypeOK
  <2>3. Early(b) => Early(b)'
    BY CustomerGrows DEF Grows, Early
  <2>4. booking[b] \in BookingStatus
    BY DEF TypeOK
  <2>. QED  BY <2>1, <2>2, <2>3, <2>4 DEF EarnInv, Live, BookingStatus
<1>6. ASSUME FailureCallback(b) PROVE EarnInv(b)'
  <2>1. /\ booking'[b] = "DELETED" /\ UNCHANGED <<phase, cancelRead, cascadeRead, recreated, mishaps>>
        /\ ledger'[b] = ledger[b] \cup PointsBack(b, "CANCEL_REFUND_UNPAID")
    BY <1>6 DEF FailureCallback, TypeOK, flightVars
  <2>2. "BOOKING_EARN" \in ledger'[b] <=> "BOOKING_EARN" \in ledger[b]
    BY <2>1 DEF PointsBack
  <2>. QED  BY <2>1, <2>2 DEF EarnInv, Live, Early
<1>7. ASSUME B2Recreate(b) PROVE EarnInv(b)'
  <2>1. recreated'[b]
    BY <1>7 DEF B2Recreate, TypeOK
  <2>. QED  BY <1>7, <2>1, NothingEarned DEF Recovery
<1>. QED
  BY <1>2, <1>3, <1>4, <1>5, <1>6, <1>7 DEF Customer, Gateway, Recovery

\* The staff and the award: what cancels a booking that has earned reverses it.
LEMMA StaffEarn ==
    ASSUME TypeOK, NEW b \in Bookings, OneInv(b), EarnInv(b),
           Staff(b) \/ AfterSlot(b) \/ Time(b)
    PROVE  EarnInv(b)'
<1>2. ASSUME StaffCommit(b) PROVE EarnInv(b)'
  <2>1. UNCHANGED <<phase, cancelRead, cascadeRead, recreated>>
    BY <1>2 DEF StaffCommit
  <2>2. Confirm(b) \/ Complete(b, FALSE) \/ Complete(b, TRUE)
    BY <1>2 DEF StaffCommit
  <2>3. booking[b] \in Live \cup {"CANCELLED"}
    BY <1>2 DEF StaffCommit, Exists, TypeOK, BookingStatus, Live
  <2>4. Early(b) => Early(b)'
    BY StaffGrows DEF Grows, Early
  <2>5. CASE Confirm(b)
    BY <2>1, <2>3, <2>4, <2>5 DEF Confirm, EarnInv, TypeOK, Live
  <2>6. CASE Complete(b, FALSE)
    BY <2>1, <2>3, <2>4, <2>6 DEF Complete, EarnInv, TypeOK, Live
  <2>7. CASE Complete(b, TRUE)
    <3>1. /\ booking'[b] = "COMPLETED" /\ awarded'[b]
          /\ ledger'[b] \in {ledger[b], ledger[b] \cup {"BOOKING_EARN"}}
      BY <2>7 DEF Complete, TypeOK
    <3>2. phase = "FUTURE" => Early(b)'
      BY <2>7 DEF Complete, TypeOK, Early, Haste
    <3>. QED  BY <2>1, <2>3, <2>4, <3>1, <3>2 DEF EarnInv, Live
  <2>. QED  BY <2>2, <2>5, <2>6, <2>7
<1>3. ASSUME CascadeRead(b) \/ CascadeSkip(b) \/ MarkPayoutsPaid(b) \/ MarkPayoutUnpaid(b)
             \/ HoldExpires(b) \/ AgePasses(b) \/ StaffAbort(b)
             \/ \E to \in {"CONFIRMED", "COMPLETED"} : StaffRead(b, to)
      PROVE  EarnInv(b)'
  <2>1. UNCHANGED <<booking, ledger, awarded>>
    BY <1>3 DEF CascadeRead, CascadeSkip, MarkPayoutsPaid, MarkPayoutUnpaid, HoldExpires,
       AgePasses, StaffRead, StaffAbort, rowVars, pointVars
  <2>. QED  BY <2>1, NothingEarned DEF Alike
<1>4. ASSUME CascadeCommit(b) PROVE EarnInv(b)'
  <2>1. phase = "FUTURE" /\ UNCHANGED <<phase, recreated>>
    BY <1>4 DEF CascadeCommit, EarnInv
  <2>2. ledger'[b] = ledger[b] \cup (RefundRow(b, cascadeRead[b], "ADMIN_REFUND_APPROVED")
                                     \cup PointsBack(b, "CANCEL_REFUND_PAID"))
    BY <1>4 DEF CascadeCommit, TypeOK
  <2>3. "BOOKING_EARN" \in ledger'[b] <=> "BOOKING_EARN" \in ledger[b]
    BY <2>2 DEF RefundRow, PointsBack
  <2>4. Early(b) => Early(b)'
    BY StaffGrows DEF Grows, Early
  <2>5. "BOOKING_EARN" \notin ledger'[b] \/ Early(b)' \/ recreated'[b]
    BY <2>1, <2>3, <2>4 DEF EarnInv
  <2>. QED  BY <2>5, NothingEarned
<1>5. ASSUME CascadeResolve(b) \/ RecordRefundDecision(b) PROVE EarnInv(b)'
  <2>1. /\ UNCHANGED <<booking, awarded>>
        /\ \E rows \in {{}, {"VENDOR_REFUND_APPROVED"}, {"ADMIN_REFUND_APPROVED"}} :
              ledger'[b] = ledger[b] \cup rows
    BY <1>5 DEF CascadeResolve, RecordRefundDecision, SettleRefund, TypeOK
  <2>. QED  BY <2>1, NothingEarned DEF Alike
<1>6. ASSUME AwardLoyalty(b) PROVE EarnInv(b)'
  BY <1>6 DEF AwardLoyalty, EarnInv, TypeOK, rowVars, flightVars, Live
<1>7. ASSUME AutoComplete(b) PROVE EarnInv(b)'
  BY <1>7 DEF AutoComplete, EarnInv, TypeOK, pointVars, flightVars, Early, Live
<1>8. ASSUME VendorCancel(b) \/ AdminCancel(b) PROVE EarnInv(b)'
  <2>1. PICK who \in {"VENDOR", "ADMIN"}, source \in RefundRows : CancelWithRefund(b, who, source)
    BY <1>8 DEF VendorCancel, AdminCancel, RefundRows
  <2>2. UNCHANGED <<phase, cancelRead, cascadeRead, recreated, mishaps>>
    BY <1>8 DEF VendorCancel, AdminCancel, flightVars
  <2>3. booking[b] \in Live
    BY <1>8, <2>1 DEF VendorCancel, AdminCancel, CancelWithRefund, Exists, TypeOK, BookingStatus, Live
  <2>. DEFINE rows == RefundRow(b, payment[b], source)
                      \cup PointsBack(b, "CANCEL_REFUND_PAID") \cup Reversal(b)
  <2>4. /\ booking'[b] = "CANCELLED" /\ ledger'[b] = ledger[b] \cup rows
        /\ rows \cap ledger[b] = {}
        /\ awarded'[b] = (awarded[b] /\ Reversal(b) = {})
    BY <2>1 DEF CancelWithRefund, Writable, TypeOK
  <2>5. "BOOKING_EARN" \notin rows
    BY DEF RefundRow, PointsBack, Reversal, RefundRows
  <2>6. Reversal(b) \subseteq rows
    OBVIOUS
  <2>. HIDE DEF rows
  <2>7. ASSUME "BOOKING_EARN" \in ledger[b], ~Early(b), ~recreated[b]
        PROVE  "CANCEL_REVERSE_AWARDED" \in ledger'[b] /\ ~awarded'[b]
    <3>1. CASE awarded[b]
      <4>1. Reversal(b) = {"CANCEL_REVERSE_AWARDED"}
        BY <2>7, <3>1 DEF Reversal
      <4>. QED  BY <2>4, <2>6, <4>1
    <3>2. CASE ~awarded[b]
      BY <2>3, <2>4, <2>7, <3>2 DEF EarnInv
    <3>. QED  BY <3>1, <3>2
  <2>. QED  BY <2>2, <2>3, <2>4, <2>5, <2>7 DEF EarnInv, Early, Live
<1>. QED
  BY <1>2, <1>3, <1>4, <1>5, <1>6, <1>7, <1>8 DEF Staff, AfterSlot, Time

\* The cron deletes nothing that has earned, and the slot starts when no cancel
\* is running.
LEMMA CronEarn ==
    ASSUME TypeOK, NEW b \in Bookings, EarnInv(b), Cron \/ SlotTime
    PROVE  EarnInv(b)'
<1>1. CASE CronScan \/ CronAbort
  BY <1>1 DEF CronScan, CronAbort, EarnInv, rowVars, pointVars, Early
<1>2. CASE CronReap
  <2>1. /\ UNCHANGED <<phase, cancelRead, cascadeRead, awarded, recreated, mishaps>>
        /\ IF b \in Claimed THEN /\ booking[b] = "PENDING"
                                 /\ ledger'[b] = ledger[b] \cup PointsBack(b, "CANCEL_REFUND_UNPAID")
           ELSE booking'[b] = booking[b] /\ ledger'[b] = ledger[b]
    BY <1>2 DEF CronReap, Claimed
  <2>. QED  BY <2>1 DEF EarnInv, PointsBack, Early
<1>3. CASE SlotTime
  BY <1>3 DEF SlotTime, EarnInv, rowVars, pointVars, flightVars, Early
<1>. QED  BY <1>1, <1>2, <1>3 DEF Cron

\* A cancelled booking keeps no earned points: each cancel that can follow the
\* award reverses it, and the others are over before the slot starts.  Only an
\* award before the slot and one to a booking inserted again are kept.
THEOREM EarnedPointsAreReversed == Spec => []EarnReversed
<1>. DEFINE AllEarn == \A b \in Bookings : EarnInv(b)
<1>1. Init => AllEarn
  BY DEF Init, EarnInv
<1>2. TypeOK /\ MoneyInv /\ AllEarn /\ [Next]_vars => AllEarn'
  <2>1. ASSUME TypeOK, MoneyInv, AllEarn, Next, NEW b \in Bookings
        PROVE  EarnInv(b)'
    <3>1. \A c \in Bookings : OneInv(c) /\ EarnInv(c)
      BY <2>1 DEF MoneyInv, OneInv
    <3>2. ASSUME NEW c \in Bookings,
                 \/ Customer(c) \/ Gateway(c) \/ Recovery(c) \/ Crash(c)
                 \/ Staff(c) \/ AfterSlot(c) \/ Time(c)
          PROVE  EarnInv(b)'
      <4>1. CASE b = c
        BY <2>1, <3>1, <3>2, <4>1, CustomerEarn, StaffEarn
      <4>2. CASE b # c
        <5>1. phase' = phase /\ awarded'[b] = awarded[b] /\ recreated'[b] = recreated[b]
          BY <2>1, <3>2, <4>2, AwardsKept
        <5>2. Rows(b)' = Rows(b)
          BY <2>1, <3>1, <3>2, <4>2, CustomerInv, GatewayInv, RecoveryInv, StaffInv
             DEF OthersKept
        <5>. QED  BY <3>1, <5>1, <5>2 DEF EarnInv, Rows, Early
      <4>. QED  BY <4>1, <4>2
    <3>3. CASE Cron \/ SlotTime
      BY <2>1, <3>1, <3>3, CronEarn
    <3>. QED  BY <2>1, <3>2, <3>3 DEF Next
  <2>2. ASSUME AllEarn, UNCHANGED vars PROVE AllEarn'
    BY <2>2 DEF vars, rowVars, pointVars, flightVars, EarnInv, Early
  <2>. QED  BY <2>1, <2>2
<1>3. AllEarn => EarnReversed
  BY DEF EarnInv, EarnReversed
<1>. HIDE DEF AllEarn
<1>. QED  BY <1>1, <1>2, <1>3, MoneyInvariant, TypeCorrect, PTL DEF Spec

-----------------------------------------------------------------------------
(* Seats.                                                                  *)

\* The booking had lost its seat, to time or to a cancel that a request under way
\* did not see, and takes one again.
Regained(b) ==
    /\ \/ booking[b] = "PENDING" /\ hold[b] = "LAPSED"
       \/ booking[b] = "CANCELLED" /\ (staffRead[b] # {} \/ captureRead[b] # NoTxn)
    /\ Active(b)'

\* A step for one booking leaves the seats of the others alone, and takes a seat
\* that is free unless the booking has one, or had one and gets it back.
LEMMA SeatTaken ==
    ASSUME TypeOK, NEW b \in Bookings, OneInv(b),
           \/ Customer(b) \/ Gateway(b) \/ Recovery(b) \/ Crash(b)
           \/ Staff(b) \/ AfterSlot(b) \/ Time(b)
    PROVE  /\ \A c \in Bookings \ {b} : booking'[c] = booking[c] /\ hold'[c] = hold[c]
           /\ Active(b)' => Active(b) \/ SlotFree(b) \/ Regained(b)
<1>. DEFINE Others == \A c \in Bookings \ {b} : booking'[c] = booking[c] /\ hold'[c] = hold[c]
<1>. USE DEF TypeOK, Active
<1>1. ASSUME UNCHANGED <<booking, hold>>
      PROVE  Others /\ (Active(b)' => Active(b))
  BY <1>1
<1>2. CASE Customer(b)
  <2>1. ASSUME NEW m \in Modes, CreateBooking(b, m) PROVE Others /\ SlotFree(b)
    BY <2>1 DEF CreateBooking
  <2>2. CASE InitiatePayment(b) \/ CancelRead(b) \/ CancelAbort(b)
    BY <1>1, <2>2 DEF InitiatePayment, CancelRead, CancelAbort, rowVars
  <2>3. ASSUME CancelCommit(b) PROVE Others /\ ~Active(b)'
    BY <2>3 DEF CancelCommit, SoftCancel, HardDelete
  <2>. QED  BY <1>1, <1>2, <2>1, <2>2, <2>3 DEF Customer
<1>3. CASE Gateway(b)
  <2>1. ASSUME CaptureAbort(b) \/ \E t \in Txns : Capture(b, t) \/ CaptureRead(b, t)
        PROVE  Others /\ (Active(b)' => Active(b))
    BY <1>1, <2>1 DEF Capture, CaptureRead, CaptureAbort, rowVars
  <2>2. ASSUME NEW t \in Txns, SuccessCallback(b, t)
        PROVE  Others /\ (Active(b)' => Active(b) \/ Regained(b))
    <3>1. booking[b] # "NONE" /\ hold' = hold
      BY <2>2 DEF SuccessCallback, OneInv, Fresh
    <3>2. CASE CaptureSuccess(b, t)
      BY <3>1, <3>2 DEF CaptureSuccess, BookingAfterCapture, BookingStatus, Regained
    <3>3. CASE CaptureAgain(b, t) \/ CaptureIgnored(b)
      BY <1>1, <3>1, <3>3 DEF CaptureAgain, CaptureIgnored
    <3>. QED  BY <2>2, <3>2, <3>3 DEF SuccessCallback
  <2>3. ASSUME FailureCallback(b) PROVE Others /\ ~Active(b)'
    BY <2>3 DEF FailureCallback
  <2>4. ASSUME NapsHold(b) PROVE Others /\ (Active(b)' => Active(b) \/ Regained(b))
    BY <2>4 DEF NapsHold, Regained
  <2>5. ASSUME CaptureCommit(b) PROVE Others /\ (Active(b)' => Active(b) \/ Regained(b))
    <3>1. booking[b] \in {"PENDING", "CONFIRMED", "COMPLETED", "CANCELLED"} /\ hold' = hold
      BY <2>5 DEF CaptureCommit, Exists, BookingStatus
    <3>2. captureRead[b] # NoTxn /\ Others
      BY <2>5 DEF CaptureCommit
    <3>. QED  BY <3>1, <3>2 DEF Regained
  <2>. QED  BY <1>3, <2>1, <2>2, <2>3, <2>4, <2>5 DEF Gateway
<1>4. CASE Recovery(b) \/ Crash(b)
  <2>1. CASE B2GiveUp(b) \/ B2SlotConflict(b) \/ QueueB2Refund(b) \/ Crash(b)
    BY <1>1, <2>1 DEF B2GiveUp, B2SlotConflict, QueueB2Refund, Crash, rowVars
  <2>2. ASSUME B2Recreate(b) PROVE Others /\ SlotFree(b)
    BY <2>2 DEF B2Recreate
  <2>. QED  BY <1>4, <2>1, <2>2 DEF Recovery
<1>5. CASE Staff(b)
  <2>1. ASSUME StaffCommit(b) PROVE Others /\ (Active(b)' => Active(b) \/ Regained(b))
    <3>1. booking[b] \in {"PENDING", "CONFIRMED", "COMPLETED", "CANCELLED"} /\ hold' = hold
      BY <2>1 DEF StaffCommit, Exists, BookingStatus
    <3>2. staffRead[b] # {}
      <4>1. \E change : ChangeEnds(b, change)
        BY <2>1, Zenon DEF StaffCommit
      <4>. QED  BY <4>1 DEF ChangeEnds
    <3>3. Others
      <4>1. Confirm(b) \/ Complete(b, FALSE) \/ Complete(b, TRUE)
        BY <2>1 DEF StaffCommit
      <4>2. CASE Confirm(b)
        BY <3>1, <4>2 DEF Confirm
      <4>3. CASE Complete(b, FALSE)
        BY <3>1, <4>3 DEF Complete
      <4>4. CASE Complete(b, TRUE)
        BY <3>1, <4>4 DEF Complete
      <4>. QED  BY <4>1, <4>2, <4>3, <4>4
    <3>. QED  BY <3>1, <3>2, <3>3 DEF Regained
  <2>2. CASE \/ CascadeRead(b) \/ CascadeSkip(b) \/ MarkPayoutsPaid(b) \/ MarkPayoutUnpaid(b)
             \/ CascadeResolve(b) \/ RecordRefundDecision(b) \/ StaffAbort(b)
             \/ \E to \in {"CONFIRMED", "COMPLETED"} : StaffRead(b, to)
    BY <1>1, <2>2 DEF CascadeRead, CascadeSkip, MarkPayoutsPaid, MarkPayoutUnpaid,
       CascadeResolve, RecordRefundDecision, SettleRefund, StaffRead, StaffAbort, rowVars
  <2>3. ASSUME CascadeCommit(b) PROVE Others /\ ~Active(b)'
    BY <2>3 DEF CascadeCommit
  <2>4. ASSUME VendorCancel(b) \/ AdminCancel(b) PROVE Others /\ ~Active(b)'
    BY <2>4 DEF VendorCancel, AdminCancel, CancelWithRefund
  <2>. QED  BY <1>5, <2>1, <2>2, <2>3, <2>4 DEF Staff
<1>6. CASE AfterSlot(b)
  BY <1>6 DEF AfterSlot, AwardLoyalty, AutoComplete, rowVars
<1>7. CASE Time(b)
  BY <1>7 DEF Time, HoldExpires, AgePasses
<1>. QED  BY <1>2, <1>3, <1>4, <1>5, <1>6, <1>7

\* The slot keeps to its capacity in a step that takes at most one free seat.
LEMMA SeatsFit ==
    ASSUME IsFiniteSet(Bookings), NotOversold,
           \/ Seated' \subseteq Seated
           \/ \E b \in Bookings : SlotFree(b) /\ Seated' \subseteq Seated \cup {b}
    PROVE  NotOversold'
<1>. USE ConstantsAssumption
<1>1. IsFiniteSet(Seated)
  BY FS_Subset DEF Seated
<1>2. CASE Seated' \subseteq Seated
  <2>1. Cardinality(Seated') <= Cardinality(Seated)
    BY <1>1, <1>2, FS_Subset
  <2>2. IsFiniteSet(Seated')
    BY <1>1, <1>2, FS_Subset
  <2>3. Cardinality(Seated) \in Nat /\ Cardinality(Seated') \in Nat
    BY <1>1, <2>2, FS_CardinalityType
  <2>. QED  BY <2>1, <2>3 DEF NotOversold
<1>3. ASSUME NEW b \in Bookings, SlotFree(b), Seated' \subseteq Seated \cup {b}
      PROVE  NotOversold'
  <2>. DEFINE others == {c \in Bookings \ {b} : Active(c)}
  <2>1. IsFiniteSet(others)
    BY FS_Subset
  <2>2. Cardinality(others) \in Nat /\ Cardinality(others) < Capacity
    BY <1>3, <2>1, FS_CardinalityType DEF SlotFree
  <2>3. /\ IsFiniteSet(others \cup {b})
        /\ Cardinality(others \cup {b}) = Cardinality(others) + 1
    <3>1. b \notin others
      OBVIOUS
    <3>. HIDE DEF others
    <3>. QED  BY <2>1, <3>1, FS_AddElement
  <2>4. Seated' \subseteq others \cup {b}
    BY <1>3 DEF Seated
  <2>. HIDE DEF others
  <2>5. /\ IsFiniteSet(Seated')
        /\ Cardinality(Seated') <= Cardinality(others \cup {b})
    BY <2>3, <2>4, FS_Subset
  <2>6. Cardinality(Seated') \in Nat
    BY <2>5, FS_CardinalityType
  <2>. QED  BY <2>2, <2>3, <2>5, <2>6 DEF NotOversold
<1>. QED  BY <1>2, <1>3

\* More guests than seats come only from a booking that lost its seat, to time
\* or to a cancel, and got it back: by its late capture, a NAPS success or a
\* confirmation.
THEOREM OnlyLapsedOversell ==
    ASSUME IsFiniteSet(Bookings)
    PROVE  Spec => OversoldOnlyByLapsed
<1>1. TypeOK /\ MoneyInv /\ [Next]_vars
         => [NotOversold /\ ~NotOversold' =>
                \E b \in Bookings :
                   /\ \/ booking[b] = "PENDING" /\ hold[b] = "LAPSED"
                      \/ booking[b] = "CANCELLED" /\ (staffRead[b] # {} \/ captureRead[b] # NoTxn)
                   /\ Active(b)']_vars
  <2>1. ASSUME TypeOK, MoneyInv, NotOversold, Next, ~ \E b \in Bookings : Regained(b)
        PROVE  NotOversold'
    <3>1. ASSUME NEW b \in Bookings,
                 \/ Customer(b) \/ Gateway(b) \/ Recovery(b) \/ Crash(b)
                 \/ Staff(b) \/ AfterSlot(b) \/ Time(b)
          PROVE  NotOversold'
      <4>1. /\ \A c \in Bookings \ {b} : booking'[c] = booking[c] /\ hold'[c] = hold[c]
            /\ Active(b)' => Active(b) \/ SlotFree(b)
        <5>1. OneInv(b)
          BY <2>1 DEF MoneyInv, OneInv
        <5>. QED  BY <2>1, <3>1, <5>1, SeatTaken
      <4>2. \A c \in Bookings \ {b} : Active(c)' <=> Active(c)
        BY <4>1 DEF Active
      <4>3. \/ Seated' \subseteq Seated
            \/ SlotFree(b) /\ Seated' \subseteq Seated \cup {b}
        BY <4>1, <4>2 DEF Seated
      <4>. QED  BY <2>1, <4>3, SeatsFit
    <3>2. CASE Cron \/ SlotTime
      <4>1. \A c \in Bookings : Active(c)' => Active(c)
        <5>1. CASE CronReap
          BY <5>1 DEF CronReap, Active
        <5>2. CASE CronScan \/ CronAbort \/ SlotTime
          BY <5>2 DEF CronScan, CronAbort, SlotTime, Active, rowVars
        <5>. QED  BY <3>2, <5>1, <5>2 DEF Cron
      <4>2. Seated' \subseteq Seated
        BY <4>1 DEF Seated
      <4>. QED  BY <2>1, <4>2, SeatsFit
    <3>. QED  BY <2>1, <3>1, <3>2 DEF Next
  <2>. QED  BY <2>1 DEF Regained
<1>. QED  BY <1>1, MoneyInvariant, TypeCorrect, PTL DEF Spec, OversoldOnlyByLapsed
=============================================================================
