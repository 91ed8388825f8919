----------------------------- MODULE MCCoupons -----------------------------
(* Ali books twice and Sara once where there is a b3; else she only claims. *)
EXTENDS Coupons, TLC

CONSTANTS ali, sara, b1, b2, b3

AliTwice == [b \in Bookings |-> IF b = b3 THEN sara ELSE ali]
EitherOfAli == Permutations({b1, b2})

\* The part of a state that actions and invariants tell apart: of the histories
\* how many, whose and why, not which.
Distinguished ==
    <<terms, status, used, valid, claim, claiming, booking, refunding, deleting, recovered,
      [b \in Bookings |-> IF Live(b) THEN via[b] ELSE "NONE"], {c \in Customers : Typed(c)},
      Cardinality(uncounted), IF overtaken THEN "READ" ELSE IF off = "NO" THEN "NO" ELSE "OFF",
      strays, LiveBookings \cap strayed, {Owner[b] : b \in strayed}>>
=============================================================================
