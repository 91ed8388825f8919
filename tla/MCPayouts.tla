------------------------------ MODULE MCPayouts ------------------------------
(* Amounts of the payments, for the runs of TLC.                           *)
EXTENDS Payouts, TLC

\* The older payment is worth more than the newer one.
TwoPayments == <<2, 1>>
=============================================================================
