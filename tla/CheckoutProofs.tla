---------------------------- MODULE CheckoutProofs ----------------------------
(* Theorems about the booking page (Checkout), whatever the activity, the  *)
(* coupon and the calendar, and about the hand-off of the booking's        *)
(* payment (PaymentInitiation), for any number of calls and baskets.       *)
EXTENDS Checkout, PaymentInitiation, Sums, TLAPS

-----------------------------------------------------------------------------
(* Rounding.                                                               *)

\* Math.round, and what pins it down.
LEMMA RoundIs ==
    ASSUME NEW n \in Int, NEW d \in Nat, d > 0
    PROVE  /\ RoundDiv(n, d) \in Int
           /\ 2 * (d * RoundDiv(n, d)) <= 2 * n + d
           /\ 2 * n < 2 * (d * RoundDiv(n, d)) + d
<1>. DEFINE a == 2 * n + d
            b == 2 * d
            q == a \div b
<1>1. a \in Int /\ b \in Nat /\ b > 0
  OBVIOUS
<1>2. q \in Int /\ b * q <= a /\ a < b * q + b
  <2>. HIDE DEF a, b
  <2>. QED  BY <1>1
<1>. HIDE DEF q
<1>3. b * q = 2 * (d * q)
  BY <1>2
<1>. QED  BY <1>2, <1>3 DEF RoundDiv, q

LEMMA RoundOnly ==
    ASSUME NEW n \in Int, NEW d \in Nat, d > 0, NEW q \in Int,
           2 * (d * q) <= 2 * n + d, 2 * n < 2 * (d * q) + d
    PROVE  RoundDiv(n, d) = q
<1>. DEFINE a == 2 * n + d
            b == 2 * d
<1>1. a \in Int /\ b \in Nat /\ b > 0
  OBVIOUS
<1>2. b * q = 2 * (d * q) /\ d * q \in Int
  OBVIOUS
<1>3. b * q <= a /\ a < b * q + b
  BY <1>2
<1>4. a \div b = q
  <2>. HIDE DEF a, b
  <2>. QED  BY <1>1, <1>3
<1>. QED  BY <1>4 DEF RoundDiv

\* Larger quotients round to larger numbers.
LEMMA RoundGrows ==
    ASSUME NEW n \in Int, NEW m \in Int, NEW d \in Nat, d > 0, n <= m
    PROVE  RoundDiv(n, d) <= RoundDiv(m, d)
<1>. DEFINE p == RoundDiv(n, d)
            q == RoundDiv(m, d)
<1>1. p \in Int /\ q \in Int /\ 2 * (d * p) <= 2 * n + d /\ 2 * m < 2 * (d * q) + d
  BY RoundIs
<1>. HIDE DEF p, q
<1>2. SUFFICES ASSUME p >= q + 1 PROVE FALSE
  BY <1>1 DEF p, q
<1>3. d * p >= d * (q + 1) /\ d * (q + 1) = d * q + d
  BY <1>1, <1>2
<1>4. d * p \in Int /\ d * q \in Int
  BY <1>1
<1>. QED  BY <1>1, <1>3, <1>4

\* Whole numbers may be added before or after.
LEMMA RoundAdds ==
    ASSUME NEW n \in Int, NEW k \in Int, NEW d \in Nat, d > 0
    PROVE  RoundDiv(n + k * d, d) = RoundDiv(n, d) + k
<1>. DEFINE p == RoundDiv(n, d)
<1>1. p \in Int /\ 2 * (d * p) <= 2 * n + d /\ 2 * n < 2 * (d * p) + d
  BY RoundIs
<1>. HIDE DEF p
<1>2. d * (p + k) = d * p + k * d /\ d * p \in Int /\ k * d \in Int
  BY <1>1
<1>3. /\ n + k * d \in Int /\ p + k \in Int
      /\ 2 * (d * (p + k)) <= 2 * (n + k * d) + d
      /\ 2 * (n + k * d) < 2 * (d * (p + k)) + d
  BY <1>1, <1>2
<1>. QED  BY <1>3, RoundOnly DEF p

LEMMA RoundWhole ==
    ASSUME NEW k \in Int, NEW d \in Nat, d > 0
    PROVE  RoundDiv(k * d, d) = k
<1>1. k * d \in Int /\ 2 * (d * k) = 2 * (k * d)
  OBVIOUS
<1>. QED  BY <1>1, RoundOnly

LEMMA RoundIsNat ==
    ASSUME NEW n \in Nat, NEW d \in Nat, d > 0
    PROVE  RoundDiv(n, d) \in Nat
<1>1. RoundDiv(0, d) = 0
  BY RoundOnly
<1>2. 0 \in Int /\ n \in Int /\ 0 <= n
  OBVIOUS
<1>3. RoundDiv(0, d) <= RoundDiv(n, d)
  BY <1>2, RoundGrows
<1>4. RoundDiv(n, d) \in Int
  BY <1>2, RoundIs
<1>. QED  BY <1>1, <1>3, <1>4

\* A common factor cancels.
LEMMA RoundCancels ==
    ASSUME NEW n \in Int, NEW d \in Nat, NEW k \in Nat, d > 0, k > 0
    PROVE  RoundDiv(n * k, d * k) = RoundDiv(n, d)
<1>. DEFINE p == RoundDiv(n, d)
<1>1. p \in Int /\ 2 * (d * p) <= 2 * n + d /\ 2 * n < 2 * (d * p) + d
  BY RoundIs
<1>. HIDE DEF p
<1>2. d * p \in Int /\ d * k \in Nat /\ d * k > 0 /\ n * k \in Int
  BY <1>1
<1>3. (d * k) * p = (d * p) * k
  BY <1>1
<1>4. (2 * (d * p)) * k <= (2 * n + d) * k /\ (2 * n) * k < (2 * (d * p) + d) * k
  BY <1>1, <1>2
<1>5. /\ (2 * (d * p)) * k = 2 * ((d * p) * k)
      /\ (2 * n + d) * k = 2 * (n * k) + d * k
      /\ (2 * n) * k = 2 * (n * k)
      /\ (2 * (d * p) + d) * k = 2 * ((d * p) * k) + d * k
  BY <1>2
<1>. QED  BY <1>1, <1>2, <1>3, <1>4, <1>5, RoundOnly DEF p

\* q is within a half of n / d, as either rounding is.
Near(q, n, d) == q \in Int /\ 2 * (d * q) <= 2 * n + d /\ 2 * n <= 2 * (d * q) + d

LEMMA RoundingsAreNear ==
    ASSUME NEW n \in Int, NEW d \in Nat, d > 0, NEW q \in Roundings(n, d)
    PROVE  Near(q, n, d)
<1>1. CASE q = RoundDiv(n, d)
  <2>1. /\ q \in Int
        /\ 2 * (d * q) <= 2 * n + d
        /\ 2 * n < 2 * (d * q) + d
    BY <1>1, RoundIs
  <2>2. d * q \in Int
    BY <2>1
  <2>. QED  BY <2>1, <2>2 DEF Near
<1>2. CASE q = RoundDown(n, d)
  <2>. DEFINE a == 2 * n + d - 1
              b == 2 * d
              p == a \div b
  <2>1. a \in Int /\ b \in Nat /\ b > 0
    OBVIOUS
  <2>2. p \in Int /\ b * p <= a /\ a < b * p + b
    <3>. HIDE DEF a, b
    <3>. QED  BY <2>1
  <2>. HIDE DEF p
  <2>3. b * p = 2 * (d * p) /\ d * p \in Int
    BY <2>2
  <2>4. q = p
    BY <1>2 DEF RoundDown, p
  <2>. QED  BY <2>2, <2>3, <2>4 DEF Near
<1>. QED  BY <1>1, <1>2 DEF Roundings

LEMMA NearIsNat ==
    ASSUME NEW n \in Nat, NEW d \in Nat, d > 0, NEW q, Near(q, n, d)
    PROVE  q \in Nat
<1>1. q \in Int /\ 2 * n <= 2 * (d * q) + d
  BY DEF Near
<1>2. SUFFICES ASSUME q <= -1 PROVE FALSE
  BY <1>1
<1>3. d * q <= d * (-1) /\ d * (-1) = -d /\ d * q \in Int
  BY <1>1, <1>2
<1>. QED  BY <1>1, <1>3

\* Of a whole number there is one rounding, by whole numbers either adds.
LEMMA NearWhole ==
    ASSUME NEW k \in Int, NEW d \in Nat, d > 0, NEW q, Near(q, k * d, d)
    PROVE  q = k
<1>1. q \in Int /\ 2 * (d * q) <= 2 * (k * d) + d /\ 2 * (k * d) <= 2 * (d * q) + d
  BY DEF Near
<1>2. d * q \in Int /\ k * d \in Int
  BY <1>1
<1>3. ASSUME q >= k + 1 PROVE FALSE
  <2>1. d * q >= d * (k + 1) /\ d * (k + 1) = k * d + d
    BY <1>1, <1>3
  <2>. QED  BY <1>1, <1>2, <2>1
<1>4. ASSUME k >= q + 1 PROVE FALSE
  <2>1. d * k >= d * (q + 1) /\ d * (q + 1) = d * q + d /\ d * k = k * d
    BY <1>1, <1>4
  <2>. QED  BY <1>1, <1>2, <2>1
<1>. QED  BY <1>1, <1>3, <1>4

LEMMA NearAdds ==
    ASSUME NEW n \in Int, NEW k \in Int, NEW d \in Nat, d > 0, NEW q, Near(q, n + k * d, d)
    PROVE  Near(q - k, n, d)
<1>1. /\ q \in Int /\ k * d \in Int
      /\ 2 * (d * q) <= 2 * (n + k * d) + d
      /\ 2 * (n + k * d) <= 2 * (d * q) + d
  BY DEF Near
<1>2. d * (q - k) = d * q - k * d /\ d * q \in Int
  BY <1>1
<1>. QED  BY <1>1, <1>2 DEF Near

\* The other rounding is one less, of a half.
LEMMA NearRound ==
    ASSUME NEW n \in Int, NEW d \in Nat, d > 0, NEW q, Near(q, n, d)
    PROVE  LET t == RoundDiv(n, d) IN q = t \/ (q = t - 1 /\ n < t * d)
<1>. DEFINE t == RoundDiv(n, d)
<1>1. t \in Int /\ 2 * (d * t) <= 2 * n + d /\ 2 * n < 2 * (d * t) + d
  BY RoundIs
<1>. HIDE DEF t
<1>2. q \in Int /\ 2 * (d * q) <= 2 * n + d /\ 2 * n <= 2 * (d * q) + d
  BY DEF Near
<1>3. d * q \in Int /\ d * t \in Int /\ t * d = d * t
  BY <1>1, <1>2
<1>4. ASSUME q >= t + 1 PROVE FALSE
  <2>1. d * q >= d * (t + 1) /\ d * (t + 1) = d * t + d
    BY <1>1, <1>2, <1>4
  <2>. QED  BY <1>1, <1>2, <1>3, <2>1
<1>5. ASSUME t >= q + 2 PROVE FALSE
  <2>1. d * t >= d * (q + 2) /\ d * (q + 2) = d * q + 2 * d
    BY <1>1, <1>2, <1>5
  <2>. QED  BY <1>1, <1>2, <1>3, <2>1
<1>6. ASSUME q = t - 1 PROVE n < t * d
  <2>1. d * q = d * t - d
    BY <1>1, <1>6
  <2>. QED  BY <1>2, <1>3, <2>1
<1>7. q = t \/ q = t - 1
  BY <1>1, <1>2, <1>4, <1>5
<1>. QED  BY <1>6, <1>7 DEF t

\* Both ways of rounding see no common factor.
LEMMA RoundDownOnly ==
    ASSUME NEW n \in Int, NEW d \in Nat, d > 0, NEW q \in Int,
           2 * (d * q) < 2 * n + d, 2 * n <= 2 * (d * q) + d
    PROVE  RoundDown(n, d) = q
<1>. DEFINE a == 2 * n + d - 1
            b == 2 * d
<1>1. a \in Int /\ b \in Nat /\ b > 0
  OBVIOUS
<1>2. b * q = 2 * (d * q) /\ d * q \in Int
  OBVIOUS
<1>3. b * q <= a /\ a < b * q + b
  BY <1>2
<1>4. a \div b = q
  <2>. HIDE DEF a, b
  <2>. QED  BY <1>1, <1>3
<1>. QED  BY <1>4 DEF RoundDown

LEMMA RoundDownIs ==
    ASSUME NEW n \in Int, NEW d \in Nat, d > 0
    PROVE  /\ RoundDown(n, d) \in Int
           /\ 2 * (d * RoundDown(n, d)) < 2 * n + d
           /\ 2 * n <= 2 * (d * RoundDown(n, d)) + d
<1>. DEFINE a == 2 * n + d - 1
            b == 2 * d
            q == a \div b
<1>1. a \in Int /\ b \in Nat /\ b > 0
  OBVIOUS
<1>2. q \in Int /\ b * q <= a /\ a < b * q + b
  <2>. HIDE DEF a, b
  <2>. QED  BY <1>1
<1>. HIDE DEF q
<1>3. b * q = 2 * (d * q) /\ d * q \in Int
  BY <1>2
<1>. QED  BY <1>2, <1>3 DEF RoundDown, q

LEMMA RoundingsCancel ==
    ASSUME NEW n \in Int, NEW d \in Nat, NEW k \in Nat, d > 0, k > 0
    PROVE  Roundings(n * k, d * k) = Roundings(n, d)
<1>. DEFINE p == RoundDown(n, d)
<1>1. p \in Int /\ 2 * (d * p) < 2 * n + d /\ 2 * n <= 2 * (d * p) + d
  BY RoundDownIs
<1>. HIDE DEF p
<1>2. d * p \in Int /\ d * k \in Nat /\ d * k > 0 /\ n * k \in Int
  BY <1>1
<1>3. (d * k) * p = (d * p) * k
  BY <1>1
<1>4. (2 * (d * p)) * k < (2 * n + d) * k /\ (2 * n) * k <= (2 * (d * p) + d) * k
  BY <1>1, <1>2
<1>5. /\ (2 * (d * p)) * k = 2 * ((d * p) * k)
      /\ (2 * n + d) * k = 2 * (n * k) + d * k
      /\ (2 * n) * k = 2 * (n * k)
      /\ (2 * (d * p) + d) * k = 2 * ((d * p) * k) + d * k
  BY <1>2
<1>6. RoundDown(n * k, d * k) = p
  BY <1>1, <1>2, <1>3, <1>4, <1>5, RoundDownOnly
<1>7. RoundDiv(n * k, d * k) = RoundDiv(n, d)
  BY RoundCancels
<1>. QED  BY <1>6, <1>7 DEF Roundings, p

-----------------------------------------------------------------------------
(* Prices and discounts.                                                   *)

\* The page is open on one of the offers.
OfferOK == <<activity, deal>> \in Offers

LEMMA OfferTypes ==
    ASSUME OfferOK
    PROVE  activity \in Activities /\ deal \in Deals /\ Den \in Nat /\ Den > 0
<1>1. <<activity, deal>> \in Activities \X Deals /\ (~activity.daily => activity.dur > 0)
  BY CheckoutAssumption DEF OfferOK
<1>2. activity \in Activities /\ deal \in Deals
  BY <1>1
<1>3. activity.dur \in Nat
  BY <1>2 DEF Activities
<1>. QED  BY <1>1, <1>2, <1>3 DEF Den

Prices == [Dates -> Nat]

LEMMA PriceIsNat ==
    ASSUME OfferOK, NEW prices \in Prices, NEW d \in Dates \cup {None}
    PROVE  PriceOn(d, prices) \in Nat
<1>1. activity.price \in Nat
  BY OfferTypes DEF Activities
<1>. QED  BY <1>1 DEF PriceOn, Prices

\* The price of the nights is a sum of natural numbers.
LEMMA NightsAddUp ==
    ASSUME OfferOK, NEW prices \in Prices, NEW f \in Forms
    PROVE  LET price == [d \in Nights(f) |-> PriceOn(d, prices)]
           IN MapThenSumSet(LAMBDA d : price[d], Nights(f)) \in Nat
<1>. DEFINE price == [d \in Nights(f) |-> PriceOn(d, prices)]
<1>1. Nights(f) \subseteq Dates /\ IsFiniteSet(Nights(f))
  BY CheckoutAssumption, FS_Subset DEF Nights
<1>2. price \in [Nights(f) -> Nat]
  BY <1>1, PriceIsNat
<1>3. SumOf(price, Nights(f)) \in Nat
  <2>. HIDE DEF price
  <2>1. Nights(f) \in SUBSET Nights(f)
    OBVIOUS
  <2>. QED  BY <1>1, <1>2, <2>1, SumIsNat
<1>. QED  BY <1>3 DEF SumOf

LEMMA BaseIsNat ==
    ASSUME OfferOK, NEW prices \in Prices, NEW f \in Forms
    PROVE  Base(f, prices) \in Nat
<1>1. /\ f.from \in Dates \cup {None} /\ f.to \in Nat \cup {None}
      /\ f.guests \in 1 .. activity.capacity
  BY DEF Forms
<1>2. PriceOn(f.from, prices) \in Nat
  BY <1>1, PriceIsNat
<1>3. activity.dur \in Nat /\ activity.capacity \in Nat
  BY OfferTypes DEF Activities
<1>4. Persons(f.guests) \in Nat /\ Max2(activity.dur, f.to) \in Nat
  BY <1>1, <1>3 DEF Persons, Max2, None
<1>5. PriceOn(f.from, prices) * Max2(activity.dur, f.to) * Persons(f.guests) \in Nat
  BY <1>2, <1>4
<1>. QED  BY <1>2, <1>5, NightsAddUp DEF Base

LEMMA CostIsNat ==
    ASSUME OfferOK, NEW f \in Forms
    PROVE  Cost(f) \in Nat
<1>1. SeenPrices(f) \in Prices
  BY CheckoutAssumption DEF SeenPrices, Forms, Prices
<1>2. Base(f, SeenPrices(f)) \in Nat
  BY <1>1, BaseIsNat
<1>3. activity.extra \in Nat /\ f.extra \in Nat /\ Den \in Nat
  BY OfferTypes DEF Activities, Forms
<1>4. activity.extra * f.extra * Den \in Nat
  BY <1>3
<1>. QED  BY <1>2, <1>4 DEF Cost

LEMMA WholeIs == Whole \in Nat /\ Whole > 0
  BY DEF Whole

LEMMA DealHas ==
    ASSUME OfferOK
    PROVE  deal.pct \in Nat /\ deal.pct <= Whole /\ deal.cap \in Nat /\ deal.off \in Nat
  BY WholeIs, OfferTypes DEF Deals

\* A discount comes of a rounding.
LEMMA PercentHas ==
    ASSUME OfferOK, NEW n \in Nat, NEW d \in Nat, d > 0, deal.pct > 0,
           NEW c \in Discounts(n, d)
    PROVE  /\ n * deal.pct \in Nat /\ Whole * d \in Nat /\ Whole * d > 0
           /\ \E x \in Nat : c = Capped(x) /\ Near(x, n * deal.pct, Whole * d)
<1>1. Whole \in Nat /\ Whole > 0 /\ deal.pct \in Nat
  BY WholeIs, DealHas
<1>. DEFINE a == n * deal.pct
            b == Whole * d
<1>2. a \in Nat /\ a \in Int /\ b \in Nat /\ b > 0
  BY <1>1
<1>3. PICK x \in Roundings(a, b) : c = Capped(x)
  BY DEF Discounts
<1>4. Near(x, a, b) /\ x \in Nat
  <2>. HIDE DEF a, b
  <2>. QED  BY <1>2, RoundingsAreNear, NearIsNat
<1>. QED  BY <1>2, <1>3, <1>4

LEMMA AmountHas ==
    ASSUME OfferOK, NEW n \in Nat, NEW d \in Nat, d > 0, ~(deal.pct > 0),
           NEW c \in Discounts(n, d)
    PROVE  LET t == RoundDiv(n, d)
           IN /\ t \in Nat /\ c \in Nat
              /\ (deal.off <= t /\ c = deal.off) \/ (t <= deal.off /\ Near(c, n, d))
<1>. DEFINE t == RoundDiv(n, d)
            off == deal.off
<1>1. off \in Nat /\ off * d \in Nat /\ off * d \in Int /\ off \in Int
  BY DealHas
<1>2. t \in Nat /\ RoundDiv(off * d, d) = off
  BY <1>1, RoundIsNat, RoundWhole
<1>3. c \in Roundings(Min2(off * d, n), d)
  BY DEF Discounts
<1>4. CASE off * d <= n
  <2>1. Near(c, off * d, d)
    BY <1>1, <1>3, <1>4, RoundingsAreNear DEF Min2
  <2>2. c = off
    BY <1>1, <2>1, NearWhole
  <2>3. off <= t
    BY <1>1, <1>2, <1>4, RoundGrows
  <2>. QED  BY <1>1, <1>2, <2>2, <2>3
<1>5. CASE n < off * d
  <2>1. Near(c, n, d) /\ c \in Nat
    BY <1>1, <1>3, <1>5, RoundingsAreNear, NearIsNat DEF Min2
  <2>2. t <= off
    BY <1>1, <1>2, <1>5, RoundGrows
  <2>. QED  BY <1>2, <2>1, <2>2
<1>. QED  BY <1>1, <1>4, <1>5

LEMMA DiscountIsNat ==
    ASSUME OfferOK, NEW n \in Nat, NEW d \in Nat, d > 0
    PROVE  Discounts(n, d) \subseteq Nat
<1>. SUFFICES ASSUME NEW c \in Discounts(n, d) PROVE c \in Nat
  OBVIOUS
<1>1. CASE deal.pct > 0
  <2>1. PICK x \in Nat : c = Capped(x)
    BY <1>1, PercentHas
  <2>. QED  BY <2>1, DealHas DEF Capped, Min2
<1>2. CASE ~(deal.pct > 0)
  BY <1>2, AmountHas
<1>. QED  BY <1>1, <1>2

\* A discount on whole cents is at most all of them.
LEMMA DiscountIsPart ==
    ASSUME OfferOK, NEW t \in Nat, NEW c \in Discounts(t, 1)
    PROVE  c <= t
<1>0. 1 \in Nat /\ 1 > 0
  OBVIOUS
<1>1. CASE deal.pct > 0
  <2>1. PICK x \in Nat : c = Capped(x) /\ Near(x, t * deal.pct, Whole * 1)
    BY <1>0, <1>1, PercentHas
  <2>2. Whole \in Nat /\ Whole > 0 /\ deal.pct \in Nat /\ deal.pct <= Whole
    BY WholeIs, DealHas
  <2>3. t * deal.pct <= t * Whole /\ t * deal.pct \in Nat /\ t * Whole \in Nat
    BY <2>2
  <2>4. 2 * (Whole * x) <= 2 * (t * deal.pct) + Whole
    BY <2>1, <2>2 DEF Near
  <2>5. ASSUME x >= t + 1 PROVE FALSE
    <3>1. Whole * x >= Whole * (t + 1) /\ Whole * (t + 1) = t * Whole + Whole
      BY <2>1, <2>2, <2>5
    <3>2. Whole * x \in Nat
      BY <2>1, <2>2
    <3>. HIDE DEF Whole
    <3>. QED  BY <2>2, <2>3, <2>4, <3>1, <3>2
  <2>6. x <= t
    BY <2>1, <2>5
  <2>. QED  BY <2>1, <2>6, DealHas DEF Capped, Min2
<1>2. CASE ~(deal.pct > 0)
  <2>1. RoundDiv(t * 1, 1) = t /\ t * 1 = t /\ t \in Int
    BY RoundWhole
  <2>2. (deal.off <= t /\ c = deal.off) \/ Near(c, t * 1, 1)
    BY <1>0, <1>2, <2>1, AmountHas
  <2>. QED  BY <1>0, <2>1, <2>2, NearWhole, DealHas
<1>. QED  BY <1>1, <1>2

-----------------------------------------------------------------------------
(* The page takes the discount off the cost, the server off the rounded    *)
(* total.                                                                  *)

\* A percentage of either differs by a cent at most, however it is rounded,
\* and that of the smaller is not the larger.
LEMMA PercentsAreNear ==
    ASSUME NEW n \in Nat, NEW d \in Nat, d > 0, NEW w \in Nat, w > 0,
           NEW p \in Nat, p <= w, NEW x \in Nat, NEW y \in Nat,
           Near(x, n * p, w * d), Near(y, RoundDiv(n, d) * p, w)
    PROVE  /\ x <= y + 1 /\ y <= x + 1
           /\ p > 0 /\ n < RoundDiv(n, d) * d => x <= y
<1>. DEFINE t == RoundDiv(n, d)
<1>1. t \in Nat /\ 2 * (d * t) <= 2 * n + d /\ 2 * n < 2 * (d * t) + d
  BY RoundIs, RoundIsNat
<1>. HIDE DEF t
<1>2. n * p \in Nat /\ w * d \in Nat /\ w * d > 0 /\ t * p \in Nat
  BY <1>1
<1>3. /\ 2 * ((w * d) * x) <= 2 * (n * p) + w * d
      /\ 2 * (n * p) <= 2 * ((w * d) * x) + w * d
  BY DEF Near
<1>4. /\ 2 * (w * y) <= 2 * (t * p) + w
      /\ 2 * (t * p) <= 2 * (w * y) + w
  BY DEF Near, t
<1>. DEFINE dt == d * t
            np == n * p
            dtp == dt * p
            dx == d * x
            dy == d * y
            dp == d * p
<1>5. dt \in Nat /\ np \in Nat /\ dtp \in Nat /\ dx \in Int /\ dy \in Int /\ dp \in Nat
  BY <1>1
<1>6. dp <= w * d /\ w * d \in Nat /\ w * d >= 1
  OBVIOUS
<1>7. 2 * dtp <= 2 * np + dp /\ 2 * np <= 2 * dtp + dp
  <2>1. (2 * dt) * p <= (2 * n + d) * p /\ (2 * n) * p <= (2 * dt + d) * p
    BY <1>1, <1>5
  <2>2. /\ (2 * dt) * p = 2 * dtp
        /\ (2 * n + d) * p = 2 * np + dp
        /\ (2 * n) * p = 2 * np
        /\ (2 * dt + d) * p = 2 * dtp + dp
    BY <1>5
  <2>. QED  BY <2>1, <2>2
<1>8. 2 * (w * dx) <= 2 * np + w * d /\ 2 * np <= 2 * (w * dx) + w * d
  BY <1>3
<1>9. 2 * (w * dy) <= 2 * dtp + w * d /\ 2 * dtp <= 2 * (w * dy) + w * d
  <2>1. d * (2 * (w * y)) <= d * (2 * (t * p) + w) /\ d * (2 * (t * p)) <= d * (2 * (w * y) + w)
    BY <1>1, <1>2, <1>4
  <2>2. /\ d * (2 * (w * y)) = 2 * (w * dy)
        /\ d * (2 * (t * p) + w) = 2 * (d * (t * p)) + w * d
        /\ d * (2 * (t * p)) = 2 * (d * (t * p))
        /\ d * (2 * (w * y) + w) = 2 * (w * dy) + w * d
    BY <1>2, <1>4
  <2>3. d * (t * p) = dtp
    BY <1>1
  <2>. QED  BY <2>1, <2>2, <2>3
<1>10. ASSUME x >= y + 2 PROVE FALSE
  <2>1. dx >= d * (y + 2) /\ d * (y + 2) = dy + 2 * d
    BY <1>10
  <2>. HIDE DEF dt, np, dtp, dx, dy, dp
  <2>2. w * dx >= w * (dy + 2 * d) /\ w * (dy + 2 * d) = w * dy + 2 * (w * d)
    BY <1>5, <2>1
  <2>3. w * dx \in Int /\ w * dy \in Int
    BY <1>5
  <2>. QED  BY <1>5, <1>6, <1>7, <1>8, <1>9, <2>2, <2>3
<1>11. ASSUME y >= x + 2 PROVE FALSE
  <2>1. dy >= d * (x + 2) /\ d * (x + 2) = dx + 2 * d
    BY <1>11
  <2>. HIDE DEF dt, np, dtp, dx, dy, dp
  <2>2. w * dy >= w * (dx + 2 * d) /\ w * (dx + 2 * d) = w * dx + 2 * (w * d)
    BY <1>5, <2>1
  <2>3. w * dx \in Int /\ w * dy \in Int
    BY <1>5
  <2>. QED  BY <1>5, <1>6, <1>7, <1>8, <1>9, <2>2, <2>3
<1>12. ASSUME p > 0, n < t * d, x >= y + 1 PROVE FALSE
  <2>1. dx >= d * (y + 1) /\ d * (y + 1) = dy + d
    BY <1>12
  <2>2. np < dtp
    <3>1. t * d = dt
      BY <1>1
    <3>. HIDE DEF dt
    <3>. QED  BY <1>5, <1>12, <3>1
  <2>. HIDE DEF dt, np, dtp, dx, dy, dp
  <2>3. w * dx >= w * (dy + d) /\ w * (dy + d) = w * dy + w * d
    BY <1>5, <2>1
  <2>4. w * dx \in Int /\ w * dy \in Int
    BY <1>5
  <2>. QED  BY <1>5, <1>6, <1>8, <1>9, <2>2, <2>3, <2>4
<1>13. x <= y + 1 /\ y <= x + 1
  BY <1>10, <1>11
<1>14. p > 0 /\ n < t * d => x <= y
  BY <1>12
<1>. QED  BY <1>13, <1>14 DEF t

\* So does a discount; on whole cents it is the same.
LEMMA DiscountsAreNear ==
    ASSUME OfferOK, NEW n \in Nat, NEW d \in Nat, d > 0,
           NEW c \in Discounts(n, d), NEW e \in Discounts(RoundDiv(n, d), 1)
    PROVE  /\ c \in Nat /\ e \in Nat
           /\ c <= e + 1 /\ e <= c + 1
           /\ n < RoundDiv(n, d) * d => c <= e
<1>. DEFINE t == RoundDiv(n, d)
<1>0. 1 \in Nat /\ 1 > 0 /\ t \in Nat
  BY RoundIsNat
<1>1. c \in Nat /\ e \in Nat
  BY <1>0, DiscountIsNat
<1>2. CASE deal.pct > 0
  <2>1. PICK x \in Nat : c = Capped(x) /\ Near(x, n * deal.pct, Whole * d)
    BY <1>2, PercentHas
  <2>2. PICK y \in Nat : e = Capped(y) /\ Near(y, t * deal.pct, Whole * 1)
    <3>. HIDE DEF t
    <3>1. e \in Discounts(t, 1)
      BY DEF t
    <3>. QED  BY <1>0, <1>2, <3>1, PercentHas
  <2>3. Whole \in Nat /\ Whole > 0 /\ deal.pct \in Nat /\ deal.pct <= Whole /\ Whole * 1 = Whole
    BY WholeIs, DealHas
  <2>4. /\ x <= y + 1 /\ y <= x + 1
        /\ n < RoundDiv(n, d) * d => x <= y
    <3>1. Near(y, RoundDiv(n, d) * deal.pct, Whole)
      BY <2>2, <2>3, Zenon
    <3>. QED  BY <1>2, <2>1, <2>3, <3>1, PercentsAreNear
  <2>. HIDE DEF t
  <2>. QED  BY <1>1, <2>1, <2>2, <2>4, DealHas DEF Capped, Min2
<1>3. CASE ~(deal.pct > 0)
  <2>1. (deal.off <= t /\ c = deal.off) \/ (t <= deal.off /\ Near(c, n, d))
    BY <1>3, AmountHas
  <2>2. (deal.off <= t /\ e = deal.off) \/ (t <= deal.off /\ e = t)
    <3>. HIDE DEF t
    <3>1. e \in Discounts(t, 1)
      BY DEF t
    <3>2. RoundDiv(t * 1, 1) = t /\ t * 1 = t /\ t \in Int
      BY <1>0, RoundWhole
    <3>3. (deal.off <= t /\ e = deal.off) \/ (t <= deal.off /\ Near(e, t * 1, 1))
      BY <1>0, <1>3, <3>1, <3>2, AmountHas
    <3>. QED  BY <1>0, <3>2, <3>3, NearWhole
  <2>3. Near(c, n, d) => c = t \/ c = t - 1
    BY NearRound
  <2>. HIDE DEF t
  <2>4. /\ c <= e + 1 /\ e <= c + 1 /\ c <= e
    BY <1>0, <1>1, <2>1, <2>2, <2>3, DealHas
  <2>. QED  BY <1>1, <2>4
<1>. QED  BY <1>2, <1>3

LEMMA DiscountsAgree ==
    ASSUME OfferOK, NEW t \in Nat, NEW d \in Nat, d > 0
    PROVE  Discounts(t * d, d) = Discounts(t, 1)
<1>1. /\ deal.pct \in Nat /\ deal.off \in Nat
      /\ Whole \in Nat /\ Whole > 0 /\ Whole * 1 = Whole
  BY WholeIs, DealHas
<1>2. CASE deal.pct > 0
  <2>. DEFINE a == t * deal.pct
  <2>1. a \in Int /\ (t * d) * deal.pct = a * d
    BY <1>1
  <2>2. Roundings(a * d, Whole * d) = Roundings(a, Whole)
    <3>. HIDE DEF a
    <3>. QED  BY <1>1, <2>1, RoundingsCancel
  <2>3. Roundings((t * d) * deal.pct, Whole * d) = Roundings(t * deal.pct, Whole * 1)
    BY <1>1, <2>1, <2>2, Zenon
  <2>. QED  BY <1>2, <2>3 DEF Discounts
<1>3. CASE ~(deal.pct > 0)
  <2>. DEFINE m == Min2(deal.off, t)
  <2>1. m \in Int /\ deal.off * 1 = deal.off /\ 1 \in Nat /\ 1 > 0
    BY <1>1 DEF Min2
  <2>2. Min2(deal.off * d, t * d) = m * d
    <3>1. CASE deal.off < t
      <4>1. deal.off * d < t * d
        BY <1>1, <3>1
      <4>. QED  BY <3>1, <4>1, Zenon DEF Min2
    <3>2. CASE ~(deal.off < t)
      <4>1. ~(deal.off * d < t * d)
        BY <1>1, <3>2
      <4>. QED  BY <3>2, <4>1, Zenon DEF Min2
    <3>. QED  BY <3>1, <3>2, Zenon
  <2>3. Roundings(m * d, 1 * d) = Roundings(m, 1)
    <3>. HIDE DEF m
    <3>. QED  BY <2>1, RoundingsCancel
  <2>4. 1 * d = d
    OBVIOUS
  <2>5. Roundings(Min2(deal.off * d, t * d), d) = Roundings(Min2(deal.off * 1, t), 1)
    BY <2>1, <2>2, <2>3, <2>4, Zenon
  <2>. QED  BY <1>3, <2>5 DEF Discounts
<1>. QED  BY <1>2, <1>3

-----------------------------------------------------------------------------
(* What is shown is what is charged.                                       *)

\* Extras follow the guests, or are a checkbox (the effects of the page).
FormFits == form.extra <= IF activity.perPerson THEN form.guests ELSE 1

\* With the server's prices on the page, the server's total is the page's
\* cost, rounded.
LEMMA TotalIsCost ==
    ASSUME TypeOK, FormFits, Selected(form), Fresh
    PROVE  ServerTotal(form) = RoundDiv(Cost(form), Den)
<1>1. OfferOK /\ form \in Forms /\ special \in Prices
  BY CheckoutAssumption DEF TypeOK, OfferOK, Prices
<1>2. form.from \in Dates /\ form.to # None
  BY DEF Selected
<1>3. \A d \in Nights(form) \cup {form.from} : PriceOn(d, SeenPrices(form)) = PriceOn(d, special)
  BY DEF Fresh, PriceOn
<1>4. Base(form, SeenPrices(form)) = Base(form, special)
  <2>1. [d \in Nights(form) |-> PriceOn(d, SeenPrices(form))]
          = [d \in Nights(form) |-> PriceOn(d, special)]
    BY <1>3
  <2>2. PriceOn(form.from, SeenPrices(form)) = PriceOn(form.from, special)
    BY <1>3
  <2>3. CASE activity.daily /\ form.to # None
    <3>1. \A p : Base(form, p) = SumOf([d \in Nights(form) |-> PriceOn(d, p)], Nights(form))
      BY <2>3 DEF Base, SumOf
    <3>. QED  BY <2>1, <3>1
  <2>4. CASE ~activity.daily
    BY <2>2, <2>4 DEF Base
  <2>5. form.to # None
    BY <1>2
  <2>. QED  BY <2>3, <2>4, <2>5
<1>5. ServerQty(form) = form.extra
  <2>1. form.extra \in Nat /\ form.guests \in Nat
    BY <1>1, OfferTypes DEF Forms, Activities
  <2>. QED  BY <2>1 DEF FormFits, ServerQty, Min2
<1>6. activity.extra \in Nat /\ form.extra \in Nat /\ Den \in Nat /\ Den > 0
  BY <1>1, OfferTypes DEF Activities, Forms
<1>7. Base(form, special) \in Nat /\ activity.extra * form.extra \in Int
  BY <1>1, <1>6, BaseIsNat
<1>8. RoundDiv(Base(form, special) + (activity.extra * form.extra) * Den, Den)
        = RoundDiv(Base(form, special), Den) + activity.extra * form.extra
  <2>. DEFINE b == Base(form, special)
              k == activity.extra * form.extra
              D == Den
  <2>1. b \in Int /\ k \in Int /\ D \in Nat /\ D > 0
    BY <1>6, <1>7
  <2>2. RoundDiv(b + k * D, D) = RoundDiv(b, D) + k
    <3>. HIDE DEF b, k, D
    <3>. QED  BY <2>1, RoundAdds
  <2>. QED  BY <2>2
<1>. QED  BY <1>4, <1>5, <1>8 DEF ServerTotal, Cost

\* A price on the page, however rounded, is within a cent of the server's.
LEMMA PriceIsNear ==
    ASSUME OfferOK, NEW n \in Nat, NEW d \in Nat, d > 0, NEW c, NEW e,
           (c = 0 /\ e = 0) \/ (c \in Discounts(n, d) /\ e \in Discounts(RoundDiv(n, d), 1)),
           NEW k \in Int, NEW q, Near(q, Max2(0, n + (k - c) * d), d)
    PROVE  LET p == Max2(0, RoundDiv(n, d) - e + k) IN q <= p + 1 /\ p <= q + 1
<1>. DEFINE t == RoundDiv(n, d)
            m == k - c
<1>1. /\ t \in Nat /\ c \in Nat /\ e \in Nat
      /\ c <= e + 1 /\ e <= c + 1
      /\ n < t * d => c <= e
  BY RoundIsNat, DiscountsAreNear
<1>2. m \in Int /\ m * d \in Int /\ n + m * d \in Int
  BY <1>1
<1>3. CASE n + m * d >= 0
  <2>1. Near(q, n + m * d, d)
    BY <1>2, <1>3 DEF Max2
  <2>2. q \in Nat
    BY <1>2, <1>3, <2>1, NearIsNat
  <2>3. Near(q - m, n, d)
    <3>. HIDE DEF m
    <3>. QED  BY <1>2, <2>1, NearAdds
  <2>4. q - m = t \/ (q - m = t - 1 /\ n < t * d)
    BY <2>3, NearRound
  <2>. HIDE DEF t
  <2>. QED  BY <1>1, <2>2, <2>4 DEF Max2, t
<1>4. CASE n + m * d < 0
  <2>1. Near(q, 0 * d, d)
    BY <1>2, <1>4 DEF Max2
  <2>2. q = 0
    BY <2>1, NearWhole
  <2>3. t + m <= 0
    <3>1. RoundDiv(n + m * d, d) = t + m
      <4>. HIDE DEF m
      <4>. QED  BY <1>2, RoundAdds
    <3>2. RoundDiv(n + m * d, d) <= RoundDiv(0, d)
      <4>. DEFINE a == n + m * d
      <4>1. a \in Int /\ a <= 0
        BY <1>2, <1>4
      <4>. HIDE DEF a
      <4>2. RoundDiv(a, d) <= RoundDiv(0, d)
        BY <4>1, RoundGrows
      <4>. QED  BY <4>2 DEF a
    <3>3. RoundDiv(0, d) = 0
      BY RoundOnly
    <3>. QED  BY <3>1, <3>2, <3>3
  <2>. HIDE DEF t
  <2>. QED  BY <1>1, <2>2, <2>3 DEF Max2, t
<1>. QED  BY <1>2, <1>3, <1>4

\* The page shows q for a cost of C / D cents, c off, a fee and r points.
Covers(P, D, r) == r > 0 /\ P > 0 /\ r * D >= P
PageShows(C, D, c, fee, r, q) ==
    LET P == Max2(0, C - c * D)
    IN /\ C \in Nat /\ D \in Nat /\ D > 0 /\ c \in Nat /\ fee \in Nat /\ r \in Nat
       /\ r = 0 \/ \E R \in Nat : Near(R, P, D) /\ r <= R
       /\ \E due \in {0, fee} :
             /\ due = 0 => fee = 0 \/ Covers(P, D, r)
             /\ due = fee => fee = 0 \/ ~Covers(P, D, r) \/ r * D = P
             /\ Near(q, Max2(0, C + due * D - c * D - Min2(r * D, P)), D)

LEMMA ShownIs ==
    ASSUME TypeOK, NEW r \in Redeems(form), NEW shown \in Shown(form, r)
    PROVE  PageShows(Cost(form), Den, CouponPart(form), activity.fee, r, shown)
<1>. DEFINE C == Cost(form)
            D == Den
            c == CouponPart(form)
            P == Payable(form)
            fee == activity.fee
<1>1. OfferOK /\ form \in Forms
  BY DEF TypeOK, OfferOK
<1>2. C \in Nat /\ D \in Nat /\ D > 0 /\ fee \in Nat
  BY <1>1, CostIsNat, OfferTypes DEF Activities
<1>3. c \in Nat
  BY <1>1 DEF CouponPart, Forms, Max2, None
<1>4. P = Max2(0, C - c * D) /\ P \in Nat
  <2>1. P = Max2(0, C - c * D)
    BY DEF Payable
  <2>2. c * D \in Int
    BY <1>2, <1>3
  <2>. HIDE DEF C, c, D, P
  <2>. QED  BY <1>2, <2>1, <2>2 DEF Max2
<1>5. r \in Nat /\ (r = 0 \/ \E R \in Nat : Near(R, P, D) /\ r <= R)
  <2>1. CASE r = 0
    BY <2>1
  <2>2. CASE r # 0
    <3>1. r \in Redeemables(form)
      BY <2>2 DEF Redeems
    <3>2. PICK R \in Roundings(P, D) : r = Min2(Balance, R)
      BY <3>1 DEF Redeemables
    <3>. HIDE DEF P, D
    <3>3. P \in Int /\ Near(R, P, D)
      BY <1>2, <1>4, <3>2, RoundingsAreNear
    <3>4. R \in Nat
      BY <1>2, <1>4, <3>3, NearIsNat
    <3>5. Balance \in Nat
      BY CheckoutAssumption
    <3>. QED  BY <3>2, <3>3, <3>4, <3>5 DEF Min2
  <2>. QED  BY <2>1, <2>2
<1>6. PICK due \in ShownFees(form, r) :
          shown \in Roundings(Max2(0, C + due * D - c * D - Min2(r * D, P)), D)
  BY DEF Shown
<1>7. due \in {0, fee}
      /\ (due = 0 => fee = 0 \/ Covers(P, D, r))
      /\ (due = fee => fee = 0 \/ ~Covers(P, D, r) \/ r * D = P)
  BY <1>2, <1>6 DEF ShownFees, Covers
<1>8. Near(shown, Max2(0, C + due * D - c * D - Min2(r * D, P)), D)
  <2>. DEFINE o == Max2(0, C + due * D - c * D - Min2(r * D, P))
  <2>1. due \in Nat
    BY <1>2, <1>7
  <2>. HIDE DEF C, c, D, P
  <2>2. due * D \in Int /\ c * D \in Int /\ r * D \in Int
    BY <1>2, <1>3, <1>5, <2>1
  <2>3. Min2(r * D, P) \in Int
    BY <1>4, <2>2 DEF Min2
  <2>4. o \in Int
    BY <1>2, <2>2, <2>3 DEF Max2
  <2>. HIDE DEF o
  <2>5. Near(shown, o, D)
    BY <1>2, <1>6, <2>4, RoundingsAreNear DEF o
  <2>. QED  BY <2>5 DEF o
<1>. HIDE DEF C, D, c, P, fee
<1>9. r = 0 \/ \E R \in Nat : Near(R, Max2(0, C - c * D), D) /\ r <= R
  BY <1>4, <1>5
<1>. QED  BY <1>2, <1>3, <1>4, <1>5, <1>7, <1>8, <1>9 DEF PageShows, C, D, c, P, fee

\* The two cases: the fee and all the rest, or the fee at most.
LEMMA PageHas ==
    ASSUME NEW C, NEW D, NEW c, NEW fee, NEW r, NEW q, PageShows(C, D, c, fee, r, q)
    PROVE  LET P == Max2(0, C - c * D)
           IN \/ /\ r = 0 \/ r * D < P
                 /\ Near(q, Max2(0, C + (fee - r - c) * D), D)
              \/ /\ r > 0 /\ P > 0 /\ r * D >= P
                 /\ q = 0 \/ q = fee
                 /\ fee > 0 /\ q = fee => r * D = P
<1>. DEFINE P == Max2(0, C - c * D)
<1>1. /\ C \in Nat /\ D \in Nat /\ D > 0 /\ c \in Nat /\ fee \in Nat /\ r \in Nat
      /\ r = 0 \/ \E R \in Nat : Near(R, P, D) /\ r <= R
  BY DEF PageShows
<1>2. PICK due \in {0, fee} :
          /\ due = 0 => fee = 0 \/ Covers(P, D, r)
          /\ due = fee => fee = 0 \/ ~Covers(P, D, r) \/ r * D = P
          /\ Near(q, Max2(0, C + due * D - c * D - Min2(r * D, P)), D)
  BY DEF PageShows
<1>3. P \in Nat
  <2>1. C - c * D \in Int
    BY <1>1
  <2>. QED  BY <2>1 DEF Max2
<1>4. due \in Nat /\ r * D \in Nat
  BY <1>1
<1>5. r > 0 => P > 0
  <2>. SUFFICES ASSUME r > 0, P = 0 PROVE FALSE
    BY <1>3
  <2>1. PICK R \in Nat : Near(R, P, D) /\ r <= R
    BY <1>1
  <2>. HIDE DEF P
  <2>2. Near(R, 0 * D, D)
    BY <1>1, <2>1
  <2>3. R = 0
    BY <1>1, <2>2, NearWhole
  <2>. QED  BY <1>1, <2>1, <2>3
<1>6. CASE r = 0 \/ r * D < P
  <2>. HIDE DEF P
  <2>1. due = fee /\ r * D <= P
    BY <1>1, <1>2, <1>3, <1>4, <1>6 DEF Covers
  <2>2. C + due * D - c * D - Min2(r * D, P) = C + (due - r - c) * D
    <3>1. Min2(r * D, P) = r * D
      BY <1>3, <1>4, <2>1 DEF Min2
    <3>2. (due - r - c) * D = due * D - r * D - c * D /\ due * D \in Int /\ c * D \in Int
      BY <1>1, <1>4
    <3>. QED  BY <1>1, <1>4, <3>1, <3>2
  <2>3. Near(q, Max2(0, C + (due - r - c) * D), D)
    BY <1>2, <2>2, Zenon
  <2>. QED  BY <1>6, <2>1, <2>3, Zenon DEF P
<1>7. CASE ~(r = 0 \/ r * D < P)
  <2>1. r > 0 /\ P > 0 /\ r * D >= P
    BY <1>1, <1>3, <1>4, <1>5, <1>7
  <2>2. Max2(0, C + due * D - c * D - Min2(r * D, P)) = due * D
    <3>1. due * D \in Nat /\ c * D \in Int
      BY <1>1, <1>4
    <3>2. P = C - c * D
      BY <1>1, <2>1, <3>1 DEF Max2
    <3>. HIDE DEF P
    <3>3. Min2(r * D, P) = P
      BY <1>3, <1>4, <2>1 DEF Min2
    <3>. QED  BY <1>1, <3>1, <3>2, <3>3 DEF Max2
  <2>. HIDE DEF P
  <2>3. Near(q, due * D, D) /\ due \in Int
    BY <1>2, <1>4, <2>2
  <2>4. q = due
    BY <1>1, <2>3, NearWhole
  <2>. QED  BY <1>2, <2>1, <2>4 DEF P, Covers
<1>. QED  BY <1>6, <1>7

\* Whole cents: to the cent, but for a fee that the server waives.
LEMMA WholeCentsAgree ==
    ASSUME NEW t \in Nat, NEW C, NEW D, NEW c, NEW fee, NEW r, NEW q,
           PageShows(C, D, c, fee, r, q), C = t * D, c <= t
    PROVE  /\ r <= t - c
           /\ IF r > 0 /\ r >= t - c
              THEN q = 0 \/ (q = fee /\ r * D = Max2(0, C - c * D))
              ELSE q = t - c + fee - r
<1>. DEFINE s == t - c
            P == Max2(0, C - c * D)
<1>1. /\ C \in Nat /\ D \in Nat /\ D > 0 /\ c \in Nat /\ fee \in Nat /\ r \in Nat
      /\ r = 0 \/ \E R \in Nat : Near(R, P, D) /\ r <= R
  BY DEF PageShows
<1>2. s \in Nat /\ s * D \in Nat /\ s * D = t * D - c * D /\ r * D \in Nat /\ t * D \in Nat
  BY <1>1
<1>3. P = s * D
  BY <1>2 DEF Max2
<1>4. \/ /\ r = 0 \/ r * D < P
         /\ Near(q, Max2(0, C + (fee - r - c) * D), D)
      \/ /\ r > 0 /\ P > 0 /\ r * D >= P
         /\ q = 0 \/ q = fee
         /\ fee > 0 /\ q = fee => r * D = P
  BY PageHas
<1>5. C + (fee - r - c) * D = (s + fee - r) * D
  <2>1. (fee - r - c) * D = fee * D - r * D - c * D
    BY <1>1
  <2>2. (s + fee - r) * D = s * D + fee * D - r * D
    BY <1>1, <1>2
  <2>3. fee * D \in Nat
    BY <1>1
  <2>. QED  BY <1>1, <1>2, <2>1, <2>2, <2>3
<1>. HIDE DEF s, P
<1>6. r <= s
  <2>1. CASE r = 0
    BY <1>2, <2>1
  <2>2. CASE r # 0
    <3>1. PICK R \in Nat : Near(R, P, D) /\ r <= R
      BY <1>1, <2>2
    <3>2. Near(R, s * D, D) /\ s \in Int
      BY <1>2, <1>3, <3>1
    <3>3. R = s
      BY <1>1, <3>2, NearWhole
    <3>. QED  BY <1>1, <3>1, <3>3
  <2>. QED  BY <2>1, <2>2
<1>7. CASE r > 0 /\ r >= s
  <2>1. r = s /\ r * D = P
    BY <1>1, <1>2, <1>3, <1>6, <1>7
  <2>2. q = 0 \/ q = fee
    BY <1>2, <1>4, <1>7, <2>1
  <2>. QED  BY <1>6, <1>7, <2>1, <2>2 DEF s, P
<1>8. CASE ~(r > 0 /\ r >= s)
  <2>1. r = 0 \/ r * D < s * D
    <3>1. CASE r = 0
      BY <3>1
    <3>2. CASE r # 0
      <4>1. r < s
        BY <1>1, <1>2, <1>8, <3>2
      <4>. QED  BY <1>1, <1>2, <4>1
    <3>. QED  BY <3>1, <3>2
  <2>2. Near(q, Max2(0, (s + fee - r) * D), D)
    <3>1. Near(q, Max2(0, C + (fee - r - c) * D), D)
      BY <1>1, <1>2, <1>3, <1>4, <2>1
    <3>. QED  BY <1>5, <3>1, Zenon
  <2>. DEFINE k == s + fee - r
  <2>3. k \in Nat
    BY <1>1, <1>2, <1>6
  <2>4. Near(q, Max2(0, k * D), D)
    BY <2>2
  <2>. HIDE DEF k
  <2>5. k * D \in Nat /\ k \in Int
    BY <1>1, <2>3
  <2>6. Near(q, k * D, D)
    <3>1. Max2(0, k * D) = k * D
      BY <2>5 DEF Max2
    <3>. QED  BY <2>4, <3>1, Zenon
  <2>7. q = k
    BY <1>1, <2>5, <2>6, NearWhole
  <2>. QED  BY <1>6, <1>8, <2>7 DEF k, s
<1>. QED  BY <1>7, <1>8

\* Fractions: within a cent, and a fee where points are used.
LEMMA FractionsAreNear ==
    ASSUME OfferOK, NEW C, NEW D, NEW c, NEW e \in Nat, NEW fee, NEW r, NEW q,
           PageShows(C, D, c, fee, r, q),
           (c = 0 /\ e = 0) \/ (c \in Discounts(C, D) /\ e \in Discounts(RoundDiv(C, D), 1))
    PROVE  LET s == RoundDiv(C, D) - e
               charge == IF r > 0 /\ r >= s THEN 0 ELSE Max2(0, s + fee - r)
               slack == 1 + IF r > 0 THEN fee ELSE 0
           IN charge - slack <= q /\ q <= charge + slack
<1>. DEFINE t == RoundDiv(C, D)
            s == t - e
            P == Max2(0, C - c * D)
<1>0. C \in Nat /\ D \in Nat /\ D > 0 /\ c \in Nat /\ fee \in Nat /\ r \in Nat
  BY DEF PageShows
<1>1. t \in Nat /\ c <= e + 1 /\ e <= c + 1
  <2>1. t \in Nat
    BY <1>0, RoundIsNat
  <2>2. CASE c = 0 /\ e = 0
    BY <2>1, <2>2
  <2>3. CASE c \in Discounts(C, D) /\ e \in Discounts(RoundDiv(C, D), 1)
    <3>1. c <= e + 1 /\ e <= c + 1
      BY <1>0, <2>3, DiscountsAreNear
    <3>. QED  BY <2>1, <3>1
  <2>. QED  BY <2>2, <2>3
<1>2. \/ /\ r = 0 \/ r * D < P
         /\ Near(q, Max2(0, C + (fee - r - c) * D), D)
      \/ /\ r > 0 /\ P > 0 /\ r * D >= P
         /\ q = 0 \/ q = fee
         /\ fee > 0 /\ q = fee => r * D = P
  BY PageHas
<1>3. CASE Near(q, Max2(0, C + (fee - r - c) * D), D)
  <2>. DEFINE k == fee - r
  <2>1. k \in Int /\ Near(q, Max2(0, C + (k - c) * D), D)
    BY <1>0, <1>3
  <2>. HIDE DEF k
  <2>2. LET p == Max2(0, RoundDiv(C, D) - e + k) IN q <= p + 1 /\ p <= q + 1
    BY <1>0, <2>1, PriceIsNear
  <2>. DEFINE p == Max2(0, s + k)
  <2>3. q <= p + 1 /\ p <= q + 1 /\ p \in Nat
    BY <1>1, <2>1, <2>2 DEF Max2
  <2>4. q \in Int
    BY <2>1 DEF Near
  <2>5. CASE r > 0 /\ r >= s
    <3>1. s + k <= fee
      BY <1>0, <1>1, <2>5 DEF k
    <3>2. p <= fee
      BY <1>0, <1>1, <2>1, <3>1 DEF Max2
    <3>. HIDE DEF p, t
    <3>. QED  BY <1>0, <2>3, <2>4, <2>5, <3>2 DEF t
  <2>6. CASE ~(r > 0 /\ r >= s)
    <3>1. p = Max2(0, s + fee - r)
      <4>1. s + k = s + fee - r
        BY <1>0, <1>1 DEF k
      <4>. QED  BY <4>1
    <3>. HIDE DEF p, t
    <3>. QED  BY <1>0, <2>3, <2>4, <2>6, <3>1 DEF t
  <2>. QED  BY <2>5, <2>6
<1>4. CASE r > 0 /\ r * D >= P /\ (q = 0 \/ q = fee)
  <2>1. t <= r + c
    <3>1. C <= (r + c) * D
      <4>1. C - c * D <= P
        BY <1>0 DEF Max2
      <4>2. (r + c) * D = r * D + c * D /\ c * D \in Int /\ r * D \in Int
        BY <1>0
      <4>3. P \in Int
        BY <1>0 DEF Max2
      <4>. HIDE DEF P
      <4>. QED  BY <1>0, <1>4, <4>1, <4>2, <4>3
    <3>. DEFINE k == r + c
                m == k * D
    <3>2. k \in Int /\ m \in Int /\ C <= m /\ C \in Int
      BY <1>0, <3>1
    <3>3. RoundDiv(m, D) = k
      <4>. HIDE DEF k
      <4>. QED  BY <1>0, <3>2, RoundWhole
    <3>. HIDE DEF m
    <3>4. RoundDiv(C, D) <= RoundDiv(m, D)
      BY <1>0, <3>2, RoundGrows
    <3>. QED  BY <3>3, <3>4
  <2>. HIDE DEF t
  <2>2. s - r <= 1 /\ s \in Int
    BY <1>0, <1>1, <2>1
  <2>. HIDE DEF s, P
  <2>3. CASE r >= s
    BY <1>0, <1>4, <2>3 DEF s, t
  <2>4. CASE r < s
    <3>1. Max2(0, s + fee - r) = 1 + fee
      BY <1>0, <2>2, <2>4 DEF Max2
    <3>. QED  BY <1>0, <1>4, <2>2, <2>4, <3>1 DEF s, t
  <2>. QED  BY <1>0, <2>2, <2>3, <2>4
<1>. QED  BY <1>2, <1>3, <1>4

\* What createBooking charges.
LEMMA ChargeIs ==
    ASSUME NEW s \in Int, NEW fee \in Nat, NEW r \in Nat
    PROVE  LET covers == r > 0 /\ r >= s
               points == IF covers THEN s ELSE r
               due == IF covers THEN 0 ELSE fee
           IN Max2(0, s + due - points) = IF r > 0 /\ r >= s THEN 0 ELSE Max2(0, s + fee - r)
<1>1. CASE r > 0 /\ r >= s
  BY <1>1 DEF Max2
<1>2. CASE ~(r > 0 /\ r >= s)
  BY <1>2
<1>. QED  BY <1>1, <1>2

LEMMA ShownHolds ==
    ASSUME TypeOK, FormFits
    PROVE  ShownIsCharged
<1>. DEFINE C == Cost(form)
            D == Den
            t == RoundDiv(C, D)
            c == CouponPart(form)
            P == Payable(form)
            fee == activity.fee
<1>1. SUFFICES ASSUME Selected(form), Fresh, Accepted(form),
                      NEW r \in Redeems(form), NEW e \in ServerDiscounts(form),
                      NEW shown \in Shown(form, r)
               PROVE  LET charge == Charge(form, r, e)
                          slack == 1 + IF r > 0 THEN fee ELSE 0
                      IN \/ shown = charge
                         \/ ~Even /\ charge - slack <= shown /\ shown <= charge + slack
                         \/ r > 0 /\ r * D = P /\ shown = fee /\ charge = 0
  BY DEF ShownIsCharged
<1>2. OfferOK /\ form \in Forms
  BY DEF TypeOK, OfferOK
<1>3. PageShows(C, D, c, fee, r, shown)
  BY ShownIs
<1>4. /\ C \in Nat /\ D \in Nat /\ D > 0 /\ c \in Nat /\ fee \in Nat /\ r \in Nat
      /\ P = Max2(0, C - c * D)
  BY <1>3 DEF PageShows, Payable
<1>5. ServerTotal(form) = t
  BY <1>1, TotalIsCost
<1>6. t \in Nat
  <2>. HIDE DEF C, D
  <2>. QED  BY <1>4, RoundIsNat
<1>7. /\ ~Coded(form) => c = 0 /\ e = 0
      /\ Coded(form) => c \in Discounts(C, D) /\ e \in Discounts(t, 1)
  <2>1. /\ form.coupon \in {None} \cup Discounts(C, D)
        /\ form.voucher \in {None} \cup Discounts(C, D)
    BY <1>1 DEF Fresh
  <2>2. form.coupon = None \/ form.voucher = None
    BY <1>1 DEF Accepted
  <2>3. e \in IF Coded(form) THEN Discounts(t, 1) ELSE {0}
    BY <1>1, <1>5 DEF ServerDiscounts
  <2>4. form.voucher \in Nat \cup {None}
    BY <1>2 DEF Forms
  <2>. HIDE DEF C, D, t
  <2>. QED  BY <2>1, <2>2, <2>3, <2>4 DEF CouponPart, Coded, Max2, None
<1>8. e \in Nat
  <2>1. 1 \in Nat /\ 1 > 0
    OBVIOUS
  <2>. HIDE DEF t
  <2>. QED  BY <1>2, <1>6, <1>7, <2>1, DiscountIsNat
<1>9. Charge(form, r, e) = IF r > 0 /\ r >= t - e THEN 0 ELSE Max2(0, t - e + fee - r)
  <2>. DEFINE s == t - e
  <2>1. s \in Int
    <3>. HIDE DEF t
    <3>. QED  BY <1>6, <1>8
  <2>2. Charge(form, r, e) = LET covers == r > 0 /\ r >= s
                                 points == IF covers THEN s ELSE r
                                 owed == IF covers THEN 0 ELSE fee
                             IN Max2(0, s + owed - points)
    BY <1>5 DEF Charge
  <2>. HIDE DEF s, fee
  <2>3. Charge(form, r, e) = IF r > 0 /\ r >= s THEN 0 ELSE Max2(0, s + fee - r)
    BY <1>4, <2>1, <2>2, ChargeIs
  <2>. QED  BY <2>3 DEF s
<1>10. CASE Even
  <2>1. C = t * D
    <3>1. C % D = 0
      BY <1>10 DEF Even, WholeCents
    <3>. DEFINE q == C \div D
    <3>. HIDE DEF C, D
    <3>2. q \in Int /\ C = q * D
      BY <1>4, <3>1
    <3>. HIDE DEF q
    <3>3. RoundDiv(q * D, D) = q
      BY <1>4, <3>2, RoundWhole
    <3>. QED  BY <3>2, <3>3
  <2>2. c = e /\ c <= t
    <3>1. CASE Coded(form)
      <4>1. \A a, b \in Discounts(C, D) : a = b
        BY <1>10, <3>1 DEF Even
      <4>. HIDE DEF C, D, t, c
      <4>2. Discounts(C, D) = Discounts(t, 1)
        BY <1>2, <1>4, <1>6, <2>1, DiscountsAgree
      <4>3. c = e
        BY <1>7, <3>1, <4>1, <4>2
      <4>. QED  BY <1>2, <1>6, <1>7, <3>1, <4>2, <4>3, DiscountIsPart
    <3>2. CASE ~Coded(form)
      <4>. HIDE DEF t, c
      <4>. QED  BY <1>6, <1>7, <3>2
    <3>. QED  BY <3>1, <3>2
  <2>. HIDE DEF C, D, t, c, P, fee
  <2>3. /\ r <= t - c
        /\ IF r > 0 /\ r >= t - c
           THEN shown = 0 \/ (shown = fee /\ r * D = Max2(0, C - c * D))
           ELSE shown = t - c + fee - r
    BY <1>3, <1>6, <2>1, <2>2, WholeCentsAgree
  <2>4. ~(r > 0 /\ r >= t - c) => Max2(0, t - c + fee - r) = t - c + fee - r
    BY <1>4, <1>6, <2>2, <2>3 DEF Max2
  <2>. QED  BY <1>4, <1>9, <2>2, <2>3, <2>4 DEF fee, D, P
<1>11. CASE ~Even
  <2>1. (c = 0 /\ e = 0) \/ (c \in Discounts(C, D) /\ e \in Discounts(RoundDiv(C, D), 1))
    BY <1>7
  <2>2. LET s == t - e
            charge == IF r > 0 /\ r >= s THEN 0 ELSE Max2(0, s + fee - r)
            slack == 1 + IF r > 0 THEN fee ELSE 0
        IN charge - slack <= shown /\ shown <= charge + slack
    <3>. HIDE DEF C, D, c, P, fee
    <3>. QED  BY <1>2, <1>3, <1>8, <2>1, FractionsAreNear
  <2>. HIDE DEF C, D, t, c, P, fee
  <2>. QED  BY <1>9, <1>11, <2>2 DEF fee
<1>. QED  BY <1>10, <1>11

-----------------------------------------------------------------------------
(* The form keeps its shape, and the key its one row.                      *)

\* A booking with the key is there once or not at all.
OneRow == made = IF row \in {"MINE", "EARLIER", "CANCELLED"} THEN 1 ELSE 0

VisitInv == TypeOK /\ FormFits /\ OneRow

LEMMA VisitStarts == Init => VisitInv
<1>. SUFFICES ASSUME Init PROVE VisitInv
  OBVIOUS
<1>1. OfferOK
  <2>1. PICK o \in Offers : activity = o[1] /\ deal = o[2]
    BY DEF Init
  <2>2. o = <<o[1], o[2]>>
    BY CheckoutAssumption
  <2>. QED  BY <2>1, <2>2 DEF OfferOK
<1>2. activity \in Activities
  BY <1>1, OfferTypes
<1>3. Month[Min(Dates)] \in Nat
  BY CheckoutAssumption, LeastIsOne
<1>4. form \in Forms /\ FormFits
  BY <1>2, <1>3 DEF Init, Forms, FormFits, Activities
<1>5. special \in [Dates -> {0, Cheap}]
  BY DEF Init
<1>6. TypeOK
  <2>1. /\ asked = None /\ raced = FALSE /\ edited = FALSE /\ made = 0 /\ page = "FORM"
        /\ request = "NONE" /\ late = "NONE" /\ row = "NONE"
    BY DEF Init
  <2>2. asked \in Nat \cup {None} /\ made \in 0..2
    BY <2>1
  <2>3. /\ raced \in BOOLEAN /\ edited \in BOOLEAN
        /\ request \in {"NONE", "SENT", "CHECKED", "DONE"}
        /\ late \in {"NONE", "SENT", "CHECKED"}
        /\ row \in {"NONE", "MINE", "EARLIER", "CANCELLED", "GONE"}
        /\ page \in {"FORM", "MINE", "EARLIER", "CANCELLED"}
    BY <2>1, Zenon
  <2>. QED  BY <1>1, <1>4, <1>5, <2>2, <2>3, Zenon DEF TypeOK, OfferOK
<1>7. OneRow
  BY DEF Init, OneRow
<1>. QED  BY <1>4, <1>6, <1>7 DEF VisitInv

\* What the effects make of an edited form.
LEMMA SettleFits ==
    ASSUME VisitInv, NEW f \in Forms, activity.perPerson \/ f.extra <= 1
    PROVE  /\ Settle(f) \in Forms
           /\ Settle(f).extra <= IF activity.perPerson THEN Settle(f).guests ELSE 1
<1>1. activity \in Activities
  BY OfferTypes DEF VisitInv, TypeOK, OfferOK
<1>2. f.extra \in Nat /\ f.guests \in Nat /\ f.extra <= activity.capacity /\ f.guests <= activity.capacity
  BY <1>1 DEF Forms, Activities
<1>3. /\ ClampedExtra(f) \in 0 .. activity.capacity
      /\ ClampedExtra(f) <= IF activity.perPerson THEN f.guests ELSE 1
  BY <1>1, <1>2 DEF ClampedExtra, Min2, Activities
<1>. DEFINE g == [f EXCEPT !.extra = ClampedExtra(f)]
<1>4. g \in Forms /\ g.extra = ClampedExtra(f) /\ g.guests = f.guests
  BY <1>3 DEF Forms
<1>5. (g.points /\ CanUsePoints(g)) \in BOOLEAN
  OBVIOUS
<1>. HIDE DEF g
<1>6. Settle(f) = [g EXCEPT !.points = @ /\ CanUsePoints(g)]
  BY DEF Settle, g
<1>7. Settle(f) \in Forms /\ Settle(f).extra = g.extra /\ Settle(f).guests = g.guests
  BY <1>4, <1>5, <1>6 DEF Forms
<1>. QED  BY <1>3, <1>4, <1>7

\* A step of the form, of nothing else that is typed but the discount asked for.
LEMMA FormKeeps ==
    ASSUME VisitInv, UNCHANGED fixed, form' \in Forms,
           form'.extra <= IF activity.perPerson THEN form'.guests ELSE 1,
           asked' \in Nat \cup {None}, raced' \in BOOLEAN, edited' \in BOOLEAN,
           UNCHANGED <<server, request, page>>
    PROVE  VisitInv'
  BY DEF VisitInv, TypeOK, FormFits, OneRow, Forms, fixed, server

LEMMA EditKeeps ==
    ASSUME VisitInv, NEW f \in Forms, activity.perPerson \/ f.extra <= 1,
           Edit(f), asked' \in Nat \cup {None}, raced' \in BOOLEAN
    PROVE  VisitInv'
<1>1. Settle(f) \in Forms /\ Settle(f).extra <= IF activity.perPerson THEN Settle(f).guests ELSE 1
  BY SettleFits
<1>2. form' = Settle(f) /\ edited' \in BOOLEAN /\ UNCHANGED <<fixed, server, request, page>>
  BY DEF Edit
<1>3. UNCHANGED fixed /\ UNCHANGED <<server, request, page>>
  BY <1>2
<1>. HIDE DEF fixed, server, Settle
<1>. QED  BY <1>1, <1>2, <1>3, FormKeeps

\* A discount is a natural number of cents.
LEMMA AskedIsNat ==
    ASSUME VisitInv
    PROVE  Discounts(Cost(form), Den) \subseteq Nat
  BY CostIsNat, OfferTypes, DiscountIsNat DEF VisitInv, TypeOK, OfferOK

LEMMA FormHas ==
    ASSUME VisitInv
    PROVE  /\ form \in Forms /\ activity \in Activities
           /\ asked \in Nat \cup {None} /\ raced \in BOOLEAN /\ edited \in BOOLEAN
           /\ form.extra \in Nat /\ (activity.perPerson \/ form.extra <= 1)
<1>1. activity \in Activities
  BY OfferTypes DEF VisitInv, TypeOK, OfferOK
<1>. QED  BY <1>1 DEF VisitInv, TypeOK, FormFits, Forms

LEMMA PickDayKeeps == ASSUME VisitInv, NEW d \in Dates, PickDay(d) PROVE VisitInv'
<1>1. /\ form \in Forms /\ activity \in Activities /\ asked' \in Nat \cup {None} /\ raced' \in BOOLEAN
      /\ activity.perPerson \/ form.extra <= 1
  BY FormHas DEF PickDay, Idle
<1>2. d \in Nat /\ activity.dur \in Nat /\ form.from \in Dates \cup {None}
  BY <1>1, CheckoutAssumption DEF Activities, Forms
<1>3. MinCheckout(d) \in Nat
  BY <1>2 DEF MinCheckout
<1>4. form.from # None => CheckoutFor(form.from, d) \in Nat
  <2>. SUFFICES ASSUME form.from # None PROVE CheckoutFor(form.from, d) \in Nat
    OBVIOUS
  <2>1. form.from \in Nat
    BY <1>2, CheckoutAssumption
  <2>. QED  BY <1>2, <2>1 DEF CheckoutFor, MinCheckout
<1>. DEFINE cleared == [form EXCEPT !.from = None, !.to = None]
            started == [form EXCEPT !.from = d,
                                    !.to = IF activity.dur = 0 THEN None ELSE MinCheckout(d)]
            ended == [form EXCEPT !.to = CheckoutFor(form.from, d)]
<1>5. cleared \in Forms /\ cleared.extra = form.extra
  BY <1>1 DEF Forms
<1>6. started \in Forms /\ started.extra = form.extra
  BY <1>1, <1>3 DEF Forms
<1>7. form.from # None => ended \in Forms /\ ended.extra = form.extra
  BY <1>1, <1>4 DEF Forms
<1>8. \/ Edit(cleared)
      \/ Edit(started)
      \/ form.from # None /\ Edit(ended)
  BY DEF PickDay
<1>. HIDE DEF cleared, started, ended
<1>. QED  BY <1>1, <1>5, <1>6, <1>7, <1>8, EditKeeps

\* The other edits of the customer.
LEMMA FieldsKeep ==
    ASSUME VisitInv,
           \/ \E d \in Dates : PickDate(d)
           \/ \E h \in 0..1 : PickHours(activity.dur + h)
           \/ \E n \in 1..activity.capacity : SetGuests(n)
           \/ \E n \in 0..activity.capacity : SetExtra(n)
           \/ \E d \in Dates : Browse(Month[d])
           \/ TogglePoints
    PROVE  VisitInv'
<1>1. /\ form \in Forms /\ activity \in Activities /\ asked' \in Nat \cup {None} /\ raced' \in BOOLEAN
      /\ activity.perPerson \/ form.extra <= 1
  BY FormHas DEF PickDate, PickHours, SetGuests, SetExtra, Browse, TogglePoints, Idle
<1>2. activity.dur \in Nat /\ activity.capacity \in Nat
  BY <1>1 DEF Activities
<1>3. CASE \E d \in Dates : PickDate(d)
  <2>1. PICK d \in Dates : Edit([form EXCEPT !.from = d, !.to = None])
    BY <1>3 DEF PickDate
  <2>. DEFINE f == [form EXCEPT !.from = d, !.to = None]
  <2>2. f \in Forms /\ f.extra = form.extra
    BY <1>1 DEF Forms
  <2>. HIDE DEF f
  <2>. QED  BY <1>1, <2>1, <2>2, EditKeeps DEF f
<1>4. CASE \E h \in 0..1 : PickHours(activity.dur + h)
  <2>1. PICK h \in 0..1 : Edit([form EXCEPT !.to = activity.dur + h])
    BY <1>4 DEF PickHours
  <2>. DEFINE f == [form EXCEPT !.to = activity.dur + h]
  <2>2. f \in Forms /\ f.extra = form.extra
    BY <1>1, <1>2 DEF Forms
  <2>. HIDE DEF f
  <2>. QED  BY <1>1, <2>1, <2>2, EditKeeps DEF f
<1>5. CASE \E n \in 1..activity.capacity : SetGuests(n)
  <2>1. PICK n \in 1..activity.capacity : Edit([form EXCEPT !.guests = n])
    BY <1>5 DEF SetGuests
  <2>. DEFINE f == [form EXCEPT !.guests = n]
  <2>2. f \in Forms /\ f.extra = form.extra
    BY <1>1, <1>2 DEF Forms
  <2>. HIDE DEF f
  <2>. QED  BY <1>1, <2>1, <2>2, EditKeeps DEF f
<1>6. CASE \E n \in 0..activity.capacity : SetExtra(n)
  <2>1. PICK n \in 0..activity.capacity :
            /\ Edit([form EXCEPT !.extra = n])
            /\ n <= IF activity.perPerson THEN form.guests ELSE 1
    BY <1>6 DEF SetExtra
  <2>. DEFINE f == [form EXCEPT !.extra = n]
  <2>2. f \in Forms /\ f.extra = n
    BY <1>1, <1>2 DEF Forms
  <2>3. activity.perPerson \/ f.extra <= 1
    BY <2>1, <2>2
  <2>. HIDE DEF f
  <2>. QED  BY <1>1, <2>1, <2>2, <2>3, EditKeeps DEF f
<1>7. CASE \E d \in Dates : Browse(Month[d])
  <2>1. PICK d \in Dates : Edit([form EXCEPT !.view = Month[d]])
    BY <1>7 DEF Browse
  <2>. DEFINE f == [form EXCEPT !.view = Month[d]]
  <2>2. f \in Forms /\ f.extra = form.extra
    BY <1>1, CheckoutAssumption DEF Forms
  <2>. HIDE DEF f
  <2>. QED  BY <1>1, <2>1, <2>2, EditKeeps DEF f
<1>8. CASE TogglePoints
  <2>. DEFINE f == [form EXCEPT !.points = ~form.points]
  <2>1. Edit(f)
    BY <1>8 DEF TogglePoints
  <2>2. f \in Forms /\ f.extra = form.extra
    BY <1>1 DEF Forms
  <2>. HIDE DEF f
  <2>. QED  BY <1>1, <2>1, <2>2, EditKeeps
<1>. QED  BY <1>3, <1>4, <1>5, <1>6, <1>7, <1>8

\* The discount, asked for, answered and removed.
LEMMA DiscountsKeep ==
    ASSUME VisitInv,
           \/ ApplyCoupon \/ CouponAnswered \/ CouponFails \/ RemoveCoupon
           \/ PickVoucher \/ RemoveVoucher
    PROVE  VisitInv'
<1>1. /\ form \in Forms /\ asked \in Nat \cup {None} /\ raced \in BOOLEAN /\ edited \in BOOLEAN
      /\ activity.perPerson \/ form.extra <= 1
      /\ form.extra <= IF activity.perPerson THEN form.guests ELSE 1
  BY FormHas DEF VisitInv, FormFits
<1>2. Discounts(Cost(form), Den) \subseteq Nat
  BY AskedIsNat
<1>3. CASE ApplyCoupon \/ CouponFails
  <2>1. /\ form' = form /\ asked' \in Nat \cup {None} /\ raced' \in BOOLEAN /\ edited' = edited
        /\ UNCHANGED fixed /\ UNCHANGED <<server, request, page>>
    BY <1>1, <1>2, <1>3, Zenon DEF ApplyCoupon, CouponFails
  <2>. HIDE DEF fixed, server
  <2>2. form' \in Forms /\ edited' \in BOOLEAN /\ form'.extra <= IF activity.perPerson THEN form'.guests ELSE 1
    BY <1>1, <2>1
  <2>. QED  BY <2>1, <2>2, FormKeeps
<1>4. CASE CouponAnswered
  <2>. DEFINE f == [form EXCEPT !.coupon = asked]
  <2>1. Edit(f) /\ asked' \in Nat \cup {None} /\ raced' \in BOOLEAN
    BY <1>1, <1>4, Zenon DEF CouponAnswered
  <2>2. f \in Forms /\ f.extra = form.extra
    BY <1>1 DEF Forms
  <2>. HIDE DEF f
  <2>. QED  BY <1>1, <2>1, <2>2, EditKeeps
<1>5. CASE RemoveCoupon
  <2>. DEFINE f == [form EXCEPT !.coupon = None]
  <2>1. Edit(f) /\ asked' \in Nat \cup {None} /\ raced' \in BOOLEAN
    BY <1>1, <1>5, Zenon DEF RemoveCoupon
  <2>2. f \in Forms /\ f.extra = form.extra
    BY <1>1 DEF Forms
  <2>. HIDE DEF f
  <2>. QED  BY <1>1, <2>1, <2>2, EditKeeps
<1>6. CASE PickVoucher
  <2>0. PICK discount \in Discounts(Cost(form), Den) : Edit([form EXCEPT !.voucher = discount])
    BY <1>6 DEF PickVoucher
  <2>. DEFINE f == [form EXCEPT !.voucher = discount]
  <2>1. Edit(f) /\ asked' \in Nat \cup {None} /\ raced' \in BOOLEAN
    BY <1>1, <1>6, <2>0, Zenon DEF PickVoucher
  <2>2. f \in Forms /\ f.extra = form.extra
    BY <1>1, <1>2 DEF Forms
  <2>. HIDE DEF f
  <2>. QED  BY <1>1, <2>1, <2>2, EditKeeps
<1>7. CASE RemoveVoucher
  <2>. DEFINE f == [form EXCEPT !.voucher = None]
  <2>1. Edit(f) /\ asked' \in Nat \cup {None} /\ raced' \in BOOLEAN
    BY <1>1, <1>7, Zenon DEF RemoveVoucher
  <2>2. f \in Forms /\ f.extra = form.extra
    BY <1>1 DEF Forms
  <2>. HIDE DEF f
  <2>. QED  BY <1>1, <2>1, <2>2, EditKeeps
<1>. QED  BY <1>3, <1>4, <1>5, <1>6, <1>7

\* The request, the row and the vendor: the form stands still but for its
\* calendars.
LEMMA RequestKeeps ==
    ASSUME VisitInv,
           Submit \/ Api \/ (\E to \in {"CANCELLED", "GONE"} : RowEnds(to)) \/ UNCHANGED vars
    PROVE  VisitInv'
<1>1. UNCHANGED <<activity, deal, form, asked, special, raced>>
  BY DEF Submit, Api, RowEnds, RequestFinds, RequestCommits, RequestRefused, Answered, Lost,
     LateFinds, LateCommits, LateFails, fixed, server, vars
<1>2. <<activity, deal>>' \in Offers /\ form' \in Forms' /\ FormFits'
  BY <1>1 DEF VisitInv, TypeOK, FormFits, Forms
<1>3. edited' \in BOOLEAN
  BY DEF Submit, Api, RowEnds, RequestFinds, RequestCommits, RequestRefused, Answered, Lost,
     LateFinds, LateCommits, LateFails, fixed, server, vars, VisitInv, TypeOK
<1>4. /\ request' \in {"NONE", "SENT", "CHECKED", "DONE"}
      /\ late' \in {"NONE", "SENT", "CHECKED"}
      /\ row' \in {"NONE", "MINE", "EARLIER", "CANCELLED", "GONE"}
      /\ page' \in {"FORM", "MINE", "EARLIER", "CANCELLED"}
      /\ OneRow'
  BY DEF Submit, Api, RowEnds, RequestFinds, RequestCommits, RequestRefused, Answered, Lost,
     LateFinds, LateCommits, LateFails, fixed, server, vars, VisitInv, TypeOK, OneRow, Writable, Taken
<1>5. made' \in 0..2
  BY <1>4 DEF OneRow
<1>. QED  BY <1>1, <1>2, <1>3, <1>4, <1>5 DEF VisitInv, TypeOK

LEMMA VendorKeeps ==
    ASSUME VisitInv, (\E d \in Dates : VendorReprices(d)) \/ CalendarsRefetched
    PROVE  VisitInv'
<1>1. CASE \E d \in Dates : VendorReprices(d)
  <2>1. PICK d \in Dates : VendorReprices(d)
    BY <1>1
  <2>2. special' \in [Dates -> {0, Cheap}]
    BY <2>1 DEF VendorReprices, VisitInv, TypeOK
  <2>3. UNCHANGED <<activity, deal, form, asked, raced, edited, request, late, row, made, page>>
    BY <2>1 DEF VendorReprices, fixed
  <2>. QED  BY <2>2, <2>3 DEF VisitInv, TypeOK, FormFits, OneRow, Forms
<1>2. CASE CalendarsRefetched
  <2>. DEFINE f == [form EXCEPT !.calendar = special]
  <2>1. /\ form \in Forms /\ special \in [Dates -> {0, Cheap}]
        /\ asked \in Nat \cup {None} /\ raced \in BOOLEAN /\ edited \in BOOLEAN
        /\ activity.perPerson \/ form.extra <= 1
    BY FormHas DEF VisitInv, TypeOK
  <2>2. f \in Forms /\ f.extra = form.extra
    BY <2>1 DEF Forms
  <2>3. /\ form' = Settle(f)
        /\ asked' = asked /\ raced' = raced /\ edited' = edited
        /\ UNCHANGED fixed /\ UNCHANGED <<server, request, page>>
    BY <1>2 DEF CalendarsRefetched
  <2>. HIDE DEF f, fixed, server, Settle
  <2>4. Settle(f) \in Forms /\ Settle(f).extra <= IF activity.perPerson THEN Settle(f).guests ELSE 1
    BY <2>1, <2>2, SettleFits
  <2>. QED  BY <2>1, <2>3, <2>4, FormKeeps
<1>. QED  BY <1>1, <1>2

LEMMA VisitStep == VisitInv /\ [Next]_vars => VisitInv'
<1>. SUFFICES ASSUME VisitInv, [Next]_vars PROVE VisitInv'
  OBVIOUS
<1>1. CASE Customer
  BY <1>1, PickDayKeeps, FieldsKeep, DiscountsKeep, RequestKeeps, Zenon DEF Customer
<1>2. CASE Api \/ (\E to \in {"CANCELLED", "GONE"} : RowEnds(to)) \/ UNCHANGED vars
  BY <1>2, RequestKeeps, Zenon
<1>3. CASE (\E d \in Dates : VendorReprices(d)) \/ CalendarsRefetched
  BY <1>3, VendorKeeps, Zenon
<1>. QED  BY <1>1, <1>2, <1>3 DEF Next

-----------------------------------------------------------------------------
(* Days and codes.                                                         *)

\* What a step may do to the days of the form.
DaysChange ==
    \/ form'.from = form.from /\ form'.to = form.to
    \/ form'.to = None
    \/ ~activity.daily /\ form'.from # None
    \/ activity.dur > 0 /\ form'.from \in Dates /\ form'.to = MinCheckout(form'.from)
    \/ \E d \in Dates : /\ form.from # None /\ d > form.from
                        /\ form'.from = form.from /\ form'.to = CheckoutFor(form.from, d)

\* What a step may do to the code, the voucher and the call that validates.
CodesStay == form'.coupon = form.coupon /\ form'.voucher = form.voucher
CodesChange ==
    \/ CodesStay /\ UNCHANGED <<asked, raced>>
    \/ CodesStay /\ CodeInputShown /\ UNCHANGED raced
    \/ /\ asked # None /\ asked' = None /\ UNCHANGED raced
       /\ form'.voucher = form.voucher
    \/ CodesStay /\ asked # None /\ asked' = None
    \/ form'.coupon = None /\ form'.voucher = form.voucher /\ form.coupon # None /\ UNCHANGED asked
    \/ form'.coupon = None /\ raced' = (asked # None) /\ UNCHANGED asked
    \/ form'.voucher = None /\ form'.coupon = form.coupon /\ UNCHANGED asked

\* The effects leave both alone.
LEMMA SettleLeaves ==
    ASSUME NEW f \in Forms
    PROVE  /\ Settle(f).from = f.from /\ Settle(f).to = f.to
           /\ Settle(f).coupon = f.coupon /\ Settle(f).voucher = f.voucher
<1>. DEFINE g == [f EXCEPT !.extra = ClampedExtra(f)]
<1>1. /\ g.from = f.from /\ g.to = f.to /\ g.coupon = f.coupon /\ g.voucher = f.voucher
      /\ DOMAIN g = {"from", "to", "guests", "extra", "coupon", "voucher", "points", "view", "calendar"}
  BY DEF Forms
<1>2. Settle(f) = [g EXCEPT !.points = @ /\ CanUsePoints(g)]
  BY DEF Settle
<1>. HIDE DEF g
<1>. QED  BY <1>1, <1>2

\* An edit of the days, or of anything but days and codes.
LEMMA EditSays ==
    ASSUME VisitInv, NEW f \in Forms, Edit(f)
    PROVE  /\ form'.from = f.from /\ form'.to = f.to
           /\ form'.coupon = f.coupon /\ form'.voucher = f.voucher
  BY SettleLeaves DEF Edit

LEMMA PickDaySays == ASSUME VisitInv, NEW d \in Dates, PickDay(d) PROVE DaysChange /\ CodesChange
<1>1. /\ form \in Forms /\ activity \in Activities
      /\ form.from \in Dates \cup {None} /\ form.to \in Nat \cup {None}
  BY FormHas DEF Forms
<1>2. d \in Nat /\ activity.dur \in Nat /\ Dates \subseteq Nat
  BY <1>1, CheckoutAssumption DEF Activities
<1>3. UNCHANGED <<asked, raced>>
  BY DEF PickDay, Idle
<1>. DEFINE cleared == [form EXCEPT !.from = None, !.to = None]
            started == [form EXCEPT !.from = d,
                                    !.to = IF activity.dur = 0 THEN None ELSE MinCheckout(d)]
            ended == [form EXCEPT !.to = CheckoutFor(form.from, d)]
<1>4. \/ Edit(cleared)
      \/ Edit(started)
      \/ form.from # None /\ d > form.from /\ Edit(ended)
  <2>0. form.from # None => form.from \in Nat
    BY <1>1, <1>2
  <2>1. form.from # None /\ ~(d < form.from) /\ d # form.from => d > form.from
    BY <1>2, <2>0
  <2>. QED  BY <2>1 DEF PickDay
<1>5. CASE Edit(cleared)
  <2>1. /\ cleared \in Forms /\ cleared.to = None
        /\ cleared.coupon = form.coupon /\ cleared.voucher = form.voucher
    BY <1>1 DEF Forms
  <2>. HIDE DEF cleared
  <2>. QED  BY <1>3, <1>5, <2>1, EditSays DEF DaysChange, CodesChange, CodesStay
<1>6. CASE Edit(started)
  <2>1. MinCheckout(d) \in Nat
    BY <1>2 DEF MinCheckout
  <2>2. /\ started \in Forms /\ started.from = d
        /\ started.to = IF activity.dur = 0 THEN None ELSE MinCheckout(d)
        /\ started.coupon = form.coupon /\ started.voucher = form.voucher
    BY <1>1, <2>1 DEF Forms
  <2>3. activity.dur > 0 \/ activity.dur = 0
    BY <1>2
  <2>. HIDE DEF started, MinCheckout
  <2>. QED  BY <1>3, <1>6, <2>2, <2>3, EditSays DEF DaysChange, CodesChange, CodesStay
<1>7. CASE form.from # None /\ d > form.from /\ Edit(ended)
  <2>1. CheckoutFor(form.from, d) \in Nat
    BY <1>1, <1>2, <1>7 DEF CheckoutFor, MinCheckout
  <2>2. /\ ended \in Forms /\ ended.from = form.from /\ ended.to = CheckoutFor(form.from, d)
        /\ ended.coupon = form.coupon /\ ended.voucher = form.voucher
    BY <1>1, <2>1 DEF Forms
  <2>. HIDE DEF ended, CheckoutFor
  <2>. QED  BY <1>3, <1>7, <2>2, EditSays DEF DaysChange, CodesChange, CodesStay
<1>. QED  BY <1>4, <1>5, <1>6, <1>7

LEMMA FieldsSay ==
    ASSUME VisitInv,
           \/ \E d \in Dates : PickDate(d)
           \/ \E h \in 0..1 : PickHours(activity.dur + h)
           \/ \E n \in 1..activity.capacity : SetGuests(n)
           \/ \E n \in 0..activity.capacity : SetExtra(n)
           \/ \E d \in Dates : Browse(Month[d])
           \/ TogglePoints
    PROVE  DaysChange /\ CodesChange
<1>1. form \in Forms /\ activity \in Activities
  BY FormHas
<1>2. activity.dur \in Nat /\ activity.capacity \in Nat
  BY <1>1 DEF Activities
<1>3. UNCHANGED <<asked, raced>>
  BY DEF PickDate, PickHours, SetGuests, SetExtra, Browse, TogglePoints, Idle
<1>4. ASSUME NEW f \in Forms, Edit(f), f.coupon = form.coupon, f.voucher = form.voucher,
             \/ f.from = form.from /\ f.to = form.to
             \/ f.to = None
             \/ ~activity.daily /\ f.from # None
      PROVE  DaysChange /\ CodesChange
  BY <1>3, <1>4, EditSays DEF DaysChange, CodesChange, CodesStay
<1>5. CASE \E d \in Dates : PickDate(d)
  <2>1. PICK d \in Dates : Edit([form EXCEPT !.from = d, !.to = None])
    BY <1>5 DEF PickDate
  <2>. DEFINE f == [form EXCEPT !.from = d, !.to = None]
  <2>2. f \in Forms /\ f.coupon = form.coupon /\ f.voucher = form.voucher /\ f.to = None
    BY <1>1 DEF Forms
  <2>3. Edit(f)
    BY <2>1
  <2>. HIDE DEF f
  <2>. QED  BY <1>4, <2>2, <2>3
<1>6. CASE \E h \in 0..1 : PickHours(activity.dur + h)
  <2>1. PICK h \in 0..1 : /\ Edit([form EXCEPT !.to = activity.dur + h])
                          /\ ~activity.daily /\ form.from # None
    BY <1>6 DEF PickHours
  <2>. DEFINE f == [form EXCEPT !.to = activity.dur + h]
  <2>2. f \in Forms /\ f.coupon = form.coupon /\ f.voucher = form.voucher /\ f.from = form.from
    BY <1>1, <1>2 DEF Forms
  <2>3. Edit(f)
    BY <2>1
  <2>. HIDE DEF f
  <2>. QED  BY <1>4, <2>1, <2>2, <2>3
<1>7. CASE \E n \in 1..activity.capacity : SetGuests(n)
  <2>1. PICK n \in 1..activity.capacity : Edit([form EXCEPT !.guests = n])
    BY <1>7 DEF SetGuests
  <2>. DEFINE f == [form EXCEPT !.guests = n]
  <2>2. /\ f \in Forms /\ f.coupon = form.coupon /\ f.voucher = form.voucher
        /\ f.from = form.from /\ f.to = form.to
    BY <1>1, <1>2 DEF Forms
  <2>3. Edit(f)
    BY <2>1
  <2>. HIDE DEF f
  <2>. QED  BY <1>4, <2>2, <2>3
<1>8. CASE \E n \in 0..activity.capacity : SetExtra(n)
  <2>1. PICK n \in 0..activity.capacity : Edit([form EXCEPT !.extra = n])
    BY <1>8 DEF SetExtra
  <2>. DEFINE f == [form EXCEPT !.extra = n]
  <2>2. /\ f \in Forms /\ f.coupon = form.coupon /\ f.voucher = form.voucher
        /\ f.from = form.from /\ f.to = form.to
    BY <1>1, <1>2 DEF Forms
  <2>3. Edit(f)
    BY <2>1
  <2>. HIDE DEF f
  <2>. QED  BY <1>4, <2>2, <2>3
<1>9. CASE \E d \in Dates : Browse(Month[d])
  <2>1. PICK d \in Dates : Edit([form EXCEPT !.view = Month[d]])
    BY <1>9 DEF Browse
  <2>. DEFINE f == [form EXCEPT !.view = Month[d]]
  <2>2. /\ f \in Forms /\ f.coupon = form.coupon /\ f.voucher = form.voucher
        /\ f.from = form.from /\ f.to = form.to
    BY <1>1, CheckoutAssumption DEF Forms
  <2>3. Edit(f)
    BY <2>1
  <2>. HIDE DEF f
  <2>. QED  BY <1>4, <2>2, <2>3
<1>10. CASE TogglePoints
  <2>. DEFINE f == [form EXCEPT !.points = ~form.points]
  <2>1. Edit(f)
    BY <1>10 DEF TogglePoints
  <2>2. /\ f \in Forms /\ f.coupon = form.coupon /\ f.voucher = form.voucher
        /\ f.from = form.from /\ f.to = form.to
    BY <1>1 DEF Forms
  <2>. HIDE DEF f
  <2>. QED  BY <1>4, <2>1, <2>2
<1>. QED  BY <1>5, <1>6, <1>7, <1>8, <1>9, <1>10

LEMMA DiscountsSay ==
    ASSUME VisitInv,
           \/ ApplyCoupon \/ CouponAnswered \/ CouponFails \/ RemoveCoupon
           \/ PickVoucher \/ RemoveVoucher
    PROVE  DaysChange /\ CodesChange
<1>1. form \in Forms /\ asked \in Nat \cup {None}
  BY FormHas
<1>2. Discounts(Cost(form), Den) \subseteq Nat
  BY AskedIsNat
<1>3. CASE ApplyCoupon \/ CouponFails
  BY <1>3 DEF ApplyCoupon, CouponFails, DaysChange, CodesChange, CodesStay
<1>4. CASE CouponAnswered
  <2>. DEFINE f == [form EXCEPT !.coupon = asked]
  <2>1. Edit(f) /\ asked # None /\ asked' = None /\ UNCHANGED raced
    BY <1>4 DEF CouponAnswered
  <2>2. f \in Forms /\ f.from = form.from /\ f.to = form.to /\ f.voucher = form.voucher
    BY <1>1 DEF Forms
  <2>. HIDE DEF f
  <2>. QED  BY <2>1, <2>2, EditSays DEF DaysChange, CodesChange
<1>5. CASE RemoveCoupon
  <2>. DEFINE f == [form EXCEPT !.coupon = None]
  <2>1. Edit(f) /\ form.coupon # None /\ UNCHANGED asked
    BY <1>5 DEF RemoveCoupon
  <2>2. /\ f \in Forms /\ f.from = form.from /\ f.to = form.to
        /\ f.coupon = None /\ f.voucher = form.voucher
    BY <1>1 DEF Forms
  <2>. HIDE DEF f
  <2>. QED  BY <2>1, <2>2, EditSays DEF DaysChange, CodesChange
<1>6. CASE PickVoucher
  <2>0. PICK discount \in Discounts(Cost(form), Den) : Edit([form EXCEPT !.voucher = discount])
    BY <1>6 DEF PickVoucher
  <2>. DEFINE f == [form EXCEPT !.voucher = discount]
  <2>1. Edit(f) /\ form.coupon = None /\ raced' = (asked # None) /\ UNCHANGED asked
    BY <1>6, <2>0, Zenon DEF PickVoucher
  <2>2. f \in Forms /\ f.from = form.from /\ f.to = form.to /\ f.coupon = form.coupon
    BY <1>1, <1>2 DEF Forms
  <2>. HIDE DEF f
  <2>3. form'.from = form.from /\ form'.to = form.to /\ form'.coupon = None
    BY <2>1, <2>2, EditSays
  <2>. QED  BY <2>1, <2>3, Zenon DEF DaysChange, CodesChange
<1>7. CASE RemoveVoucher
  <2>. DEFINE f == [form EXCEPT !.voucher = None]
  <2>1. Edit(f) /\ UNCHANGED asked
    BY <1>7 DEF RemoveVoucher
  <2>2. /\ f \in Forms /\ f.from = form.from /\ f.to = form.to
        /\ f.coupon = form.coupon /\ f.voucher = None
    BY <1>1 DEF Forms
  <2>. HIDE DEF f
  <2>. QED  BY <2>1, <2>2, EditSays DEF DaysChange, CodesChange
<1>. QED  BY <1>3, <1>4, <1>5, <1>6, <1>7

LEMMA RestSays ==
    ASSUME VisitInv,
           \/ Submit \/ Api \/ (\E to \in {"CANCELLED", "GONE"} : RowEnds(to))
           \/ (\E d \in Dates : VendorReprices(d)) \/ CalendarsRefetched \/ UNCHANGED vars
    PROVE  DaysChange /\ CodesChange
<1>1. UNCHANGED <<asked, raced>>
  BY DEF Submit, Api, RowEnds, RequestFinds, RequestCommits, RequestRefused, Answered, Lost,
     LateFinds, LateCommits, LateFails, VendorReprices, CalendarsRefetched, vars
<1>2. CASE ~CalendarsRefetched
  <2>1. form' = form
    BY <1>2 DEF Submit, Api, RowEnds, RequestFinds, RequestCommits, RequestRefused, Answered, Lost,
       LateFinds, LateCommits, LateFails, VendorReprices, vars
  <2>. QED  BY <1>1, <2>1 DEF DaysChange, CodesChange, CodesStay
<1>3. CASE CalendarsRefetched
  <2>. DEFINE f == [form EXCEPT !.calendar = special]
  <2>1. form \in Forms /\ special \in [Dates -> {0, Cheap}] /\ form' = Settle(f)
    BY <1>3, FormHas DEF CalendarsRefetched, VisitInv, TypeOK
  <2>2. /\ f \in Forms /\ f.from = form.from /\ f.to = form.to
        /\ f.coupon = form.coupon /\ f.voucher = form.voucher
    BY <2>1 DEF Forms
  <2>. HIDE DEF f
  <2>. QED  BY <1>1, <2>1, <2>2, SettleLeaves DEF DaysChange, CodesChange, CodesStay
<1>. QED  BY <1>2, <1>3

LEMMA StepSays ==
    ASSUME VisitInv, [Next]_vars
    PROVE  DaysChange /\ CodesChange /\ activity' = activity
<1>1. activity' = activity
  BY DEF Next, Customer, Submit, Api, RowEnds, RequestFinds, RequestCommits, RequestRefused, Answered,
     Lost, LateFinds, LateCommits, LateFails, VendorReprices, CalendarsRefetched, PickDay, PickDate,
     PickHours, SetGuests, SetExtra, Browse, TogglePoints, ApplyCoupon, CouponAnswered, CouponFails,
     RemoveCoupon, PickVoucher, RemoveVoucher, Edit, fixed, vars
<1>2. ASSUME Customer PROVE DaysChange /\ CodesChange
  <2>1. CASE \E d \in Dates : PickDay(d)
    BY <2>1, PickDaySays
  <2>2. CASE \/ \E d \in Dates : PickDate(d)
             \/ \E h \in 0..1 : PickHours(activity.dur + h)
             \/ \E n \in 1..activity.capacity : SetGuests(n)
             \/ \E n \in 0..activity.capacity : SetExtra(n)
             \/ \E d \in Dates : Browse(Month[d])
             \/ TogglePoints
    BY <2>2, FieldsSay
  <2>3. CASE \/ ApplyCoupon \/ CouponAnswered \/ CouponFails \/ RemoveCoupon
             \/ PickVoucher \/ RemoveVoucher
    BY <2>3, DiscountsSay
  <2>4. CASE Submit
    BY <2>4, RestSays
  <2>. QED  BY <1>2, <2>1, <2>2, <2>3, <2>4, Zenon DEF Customer
<1>3. ASSUME ~Customer PROVE DaysChange /\ CodesChange
  <2>1. \/ Api \/ (\E to \in {"CANCELLED", "GONE"} : RowEnds(to))
        \/ (\E d \in Dates : VendorReprices(d)) \/ CalendarsRefetched \/ UNCHANGED vars
    BY <1>3, Zenon DEF Next
  <2>. QED  BY <2>1, RestSays
<1>. QED  BY <1>1, <1>2, <1>3

\* A code cannot be asked for while there is one; with a voucher it can only
\* have been asked for before.
CodesInv ==
    /\ form.coupon # None => asked = None
    /\ form.voucher # None /\ (asked # None \/ form.coupon # None) => raced

\* A stay has a first day, and is long enough.
StayInv == MinimumStay /\ (form.to # None => form.from # None)

LEMMA CodesStep == VisitInv /\ CodesInv /\ [Next]_vars => CodesInv'
<1>. SUFFICES ASSUME VisitInv, CodesInv, [Next]_vars PROVE CodesInv'
  OBVIOUS
<1>1. CodesChange
  BY StepSays
<1>. QED  BY <1>1, Zenon DEF CodesInv, CodesChange, CodesStay, CodeInputShown

LEMMA StayStep == VisitInv /\ StayInv /\ [Next]_vars => StayInv'
<1>. SUFFICES ASSUME VisitInv, StayInv, [Next]_vars PROVE StayInv'
  OBVIOUS
<1>1. DaysChange /\ activity' = activity
  BY StepSays
<1>2. activity.dur \in Nat /\ form.from \in Dates \cup {None} /\ Dates \subseteq Nat
  BY FormHas, CheckoutAssumption DEF Activities, Forms
<1>3. CASE form'.from = form.from /\ form'.to = form.to
  BY <1>1, <1>3 DEF StayInv, MinimumStay
<1>4. CASE form'.to = None \/ (~activity.daily /\ form'.from # None)
  BY <1>1, <1>4 DEF StayInv, MinimumStay
<1>5. CASE activity.dur > 0 /\ form'.from \in Dates /\ form'.to = MinCheckout(form'.from)
  <2>1. form'.from \in Nat /\ form'.to = form'.from + activity.dur
    BY <1>1, <1>2, <1>5 DEF MinCheckout
  <2>2. form'.to - form'.from >= Max2(1, activity.dur) /\ form'.from # None
    BY <1>2, <1>5, <2>1 DEF Max2, None
  <2>. QED  BY <1>1, <2>2 DEF StayInv, MinimumStay
<1>6. CASE \E d \in Dates : /\ form.from # None /\ d > form.from
                            /\ form'.from = form.from /\ form'.to = CheckoutFor(form.from, d)
  <2>1. PICK d \in Dates : /\ form.from # None /\ d > form.from
                           /\ form'.from = form.from /\ form'.to = CheckoutFor(form.from, d)
    BY <1>6
  <2>2. d \in Nat /\ form.from \in Nat
    BY <1>2, <2>1
  <2>3. CheckoutFor(form.from, d) - form.from >= Max2(1, activity.dur)
    BY <1>2, <2>1, <2>2 DEF CheckoutFor, MinCheckout, Max2
  <2>. QED  BY <1>1, <2>1, <2>3 DEF StayInv, MinimumStay
<1>. QED  BY <1>1, <1>3, <1>4, <1>5, <1>6 DEF DaysChange

-----------------------------------------------------------------------------

\* Each variable of a visit keeps its type.
THEOREM VisitTypes == Spec => []TypeOK
<1>1. VisitInv => TypeOK
  BY DEF VisitInv
<1>. QED  BY <1>1, VisitStarts, VisitStep, PTL DEF Spec

\* Of any activity, with any coupon, in whatever order the form is edited and
\* whichever way the doubles err: with fresh prices and discounts, the amount
\* on the page is the amount that createBooking charges, to the cent where the
\* amounts are even, but for a fee that it waives; else within a cent, and a fee
\* where points are used (cashDue).
THEOREM PreviewIsRight == Spec => []ShownIsCharged
<1>1. VisitInv => ShownIsCharged
  BY ShownHolds DEF VisitInv
<1>. QED  BY <1>1, VisitStarts, VisitStep, PTL DEF Spec

\* However often the form is sent, lost and sent again, the idempotency key
\* lets one booking be written (createBooking).
THEOREM OneVisitOneBooking == Spec => []OneBooking
<1>1. VisitInv => OneBooking
  BY DEF VisitInv, OneRow, OneBooking
<1>. QED  BY <1>1, VisitStarts, VisitStep, PTL DEF Spec

\* createBooking refuses a code together with a voucher: the page sends both
\* only if the voucher was picked while the code was being validated.
THEOREM CodesOnlyRace == Spec => []CodesExclusive
<1>1. Init => CodesInv
  BY DEF Init, CodesInv
<1>2. CodesInv => CodesExclusive
  BY DEF CodesInv, CodesExclusive
<1>. QED  BY <1>1, <1>2, VisitStarts, VisitStep, CodesStep, PTL DEF Spec

\* No sequence of clicks in the calendar leaves a stay that is shorter than the
\* activity's minimum (handleDailyDateSelect).
THEOREM StaysAreLongEnough == Spec => []MinimumStay
<1>1. Init => StayInv
  BY DEF Init, StayInv, MinimumStay
<1>2. StayInv => MinimumStay
  BY DEF StayInv
<1>. QED  BY <1>1, <1>2, VisitStarts, VisitStep, StayStep, PTL DEF Spec

-----------------------------------------------------------------------------
(* The hand-off of the payment.                                            *)

(* The strengthening.  A call draws at most once, after it has read.       *)
DrawsLate ==
    \A c \in Calls :
        /\ step[c] = "IDLE" => saw[c] = NoBasket
        /\ step[c] \in {"IDLE", "READ", "LOCKED"} => sent[c] = NoBasket
        /\ step[c] = "WRITTEN" => sent[c] \in Baskets

\* The row's basket was drawn by a call that had found none.
RowDrawn ==
    basket # NoBasket => \E c \in Calls : step[c] # "IDLE" /\ saw[c] = NoBasket /\ sent[c] = basket

\* Until two first reads overlap, there is one basket.
OneBasket ==
    ~FirstReadsOverlapped =>
        /\ \A c \in Calls : saw[c] \in {NoBasket, basket} /\ sent[c] \in {NoBasket, basket}
        /\ issued \subseteq {basket}
        /\ \A b \in unknown : DeletedBehind(b)

\* A cancel that deletes, or has deleted, saw no basket or a FAILED payment.
DeletesKnow ==
    /\ deleting \/ gone => basket = NoBasket \/ drawnBehind \/ state = "FAILED"
    /\ gone => ~deleting

InitiationInv ==
    CallsTypeOK /\ DrawsLate /\ RowDrawn /\ captured \subseteq issued /\ OneBasket /\ DeletesKnow

-----------------------------------------------------------------------------

LEMMA CallsStart == CallsInit => InitiationInv
  BY NoBasketAssumption DEF CallsInit, InitiationInv, CallsTypeOK, DrawsLate, RowDrawn, OneBasket,
     DeletesKnow

\* A call that has read keeps what it saw, so an overlap stays one.
LEMMA OverlapStays ==
    ASSUME CallsTypeOK, CallsNext \/ UNCHANGED callVars
    PROVE  FirstReadsOverlapped => FirstReadsOverlapped'
<1>1. \A c \in Calls : step[c] # "IDLE" => step'[c] # "IDLE" /\ saw'[c] = saw[c]
  BY DEF CallsTypeOK, CallsNext, callVars, Call, Goes, ReadPayment, Acquire, Refused, WriteBasket, WriteFails,
     Answer, Release, LockExpires, PendingOver, CancelRead, CancelDelete, CancelAbort, Capture, CallbackUnknown
<1>. QED  BY <1>1 DEF FirstReadsOverlapped

\* The steps of a call, but for the one that writes the basket.
LEMMA CallKeeps ==
    ASSUME InitiationInv, NEW c \in Calls,
           ReadPayment(c) \/ Acquire(c) \/ Refused(c) \/ WriteFails(c) \/ Answer(c) \/ Release(c)
    PROVE  InitiationInv'
<1>. USE DEF InitiationInv
<1>0. FirstReadsOverlapped => FirstReadsOverlapped'
  BY OverlapStays DEF CallsNext, Call
<1>1. UNCHANGED <<basket, rowVars, cancelVars, captured, unknown>>
  BY DEF ReadPayment, Acquire, Refused, WriteFails, Answer, Release, gatewayVars
<1>2. DeletesKnow' /\ \A b \in Baskets : DeletedBehind(b) <=> DeletedBehind(b)'
  BY <1>1 DEF DeletesKnow, DeletedBehind, rowVars, cancelVars
<1>3. CASE ReadPayment(c)
  <2>1. UNCHANGED <<sent, lock, issued>> /\ saw' = [saw EXCEPT ![c] = basket]
        /\ step[c] = "IDLE" /\ step' = [step EXCEPT ![c] = "READ"]
    BY <1>3 DEF ReadPayment, Goes, gatewayVars
  <2>2. CallsTypeOK'
    BY <1>1, <2>1 DEF CallsTypeOK, rowVars, cancelVars
  <2>3. DrawsLate' /\ RowDrawn'
    BY <1>1, <2>1 DEF DrawsLate, RowDrawn, CallsTypeOK
  <2>4. OneBasket'
    BY <1>0, <1>1, <1>2, <2>1 DEF OneBasket, CallsTypeOK
  <2>. QED  BY <1>1, <1>2, <2>1, <2>2, <2>3, <2>4
<1>4. CASE Acquire(c) \/ Refused(c) \/ WriteFails(c) \/ Release(c)
  <2>1. /\ step' \in [Calls -> {"IDLE", "READ", "LOCKED", "WRITTEN", "ANSWERED", "DONE"}]
        /\ lock' \in Calls \cup {NoCall}
    BY <1>4 DEF Acquire, Refused, WriteFails, Release, Goes, CallsTypeOK
  <2>2. /\ \A d \in Calls : /\ step'[d] # "IDLE" <=> step[d] # "IDLE"
                            /\ step'[d] \in {"READ", "LOCKED"} => step[d] \in {"READ", "LOCKED"}
                            /\ step'[d] = "WRITTEN" => step[d] = "WRITTEN"
        /\ UNCHANGED <<saw, sent, issued>>
    BY <1>4 DEF Acquire, Refused, WriteFails, Release, Goes, CallsTypeOK, gatewayVars
  <2>3. CallsTypeOK'
    BY <1>1, <2>1, <2>2 DEF CallsTypeOK, rowVars, cancelVars
  <2>4. DrawsLate' /\ RowDrawn'
    BY <1>1, <2>2 DEF DrawsLate, RowDrawn
  <2>5. OneBasket'
    BY <1>0, <1>1, <1>2, <2>2 DEF OneBasket, CallsTypeOK
  <2>. QED  BY <1>1, <1>2, <2>2, <2>3, <2>4, <2>5
<1>5. CASE Answer(c)
  <2>1. UNCHANGED <<saw, sent, lock>> /\ issued' \in {issued, issued \cup {sent[c]}}
        /\ step[c] = "WRITTEN" /\ step' = [step EXCEPT ![c] = "ANSWERED"]
    BY <1>5 DEF Answer, Goes
  <2>2. sent[c] \in Baskets
    BY <2>1 DEF DrawsLate
  <2>3. CallsTypeOK'
    BY <1>1, <2>1, <2>2 DEF CallsTypeOK, rowVars, cancelVars
  <2>4. DrawsLate' /\ RowDrawn'
    BY <1>1, <2>1 DEF DrawsLate, RowDrawn, CallsTypeOK
  <2>5. OneBasket'
    BY <1>0, <1>1, <1>2, <2>1, <2>2, NoBasketAssumption DEF OneBasket, CallsTypeOK
  <2>. QED  BY <1>1, <1>2, <2>1, <2>3, <2>4, <2>5
<1>. QED  BY <1>3, <1>4, <1>5

\* Without an overlap, the call that draws a basket is the first to do so.
LEMMA WriteKeeps ==
    ASSUME InitiationInv, NEW c \in Calls, WriteBasket(c)
    PROVE  InitiationInv'
<1>. USE DEF InitiationInv
<1>0. FirstReadsOverlapped => FirstReadsOverlapped'
  BY OverlapStays DEF CallsNext, Call
<1>1. /\ step[c] = "LOCKED" /\ step' = [step EXCEPT ![c] = "WRITTEN"] /\ ~gone
      /\ UNCHANGED <<saw, lock, state, gone, deleting, issued, captured, unknown>>
  BY DEF WriteBasket, Goes, rowVars, gatewayVars
<1>2. drawnBehind' \in BOOLEAN /\ DeletesKnow'
  BY <1>1 DEF WriteBasket, DeletesKnow, CallsTypeOK
<1>3. ~FirstReadsOverlapped => unknown = {}
  BY <1>1 DEF OneBasket, DeletedBehind
<1>4. CASE saw[c] # NoBasket
  <2>1. sent' = [sent EXCEPT ![c] = saw[c]] /\ UNCHANGED basket
    BY <1>4 DEF WriteBasket
  <2>2. saw[c] \in Baskets
    BY <1>4 DEF CallsTypeOK
  <2>3. CallsTypeOK'
    BY <1>1, <1>2, <2>1, <2>2 DEF CallsTypeOK
  <2>4. DrawsLate' /\ RowDrawn'
    BY <1>1, <1>4, <2>1, <2>2 DEF CallsTypeOK, DrawsLate, RowDrawn
  <2>5. OneBasket'
    BY <1>0, <1>1, <1>3, <2>1 DEF CallsTypeOK, OneBasket
  <2>. QED  BY <1>1, <1>2, <2>3, <2>4, <2>5
<1>5. CASE saw[c] = NoBasket
  <2>1. PICK b \in Baskets : sent' = [sent EXCEPT ![c] = b] /\ basket' = b
    BY <1>5 DEF WriteBasket
  <2>2. CallsTypeOK' /\ DrawsLate'
    BY <1>1, <1>2, <2>1 DEF CallsTypeOK, DrawsLate
  <2>3. RowDrawn'
    BY <1>1, <1>5, <2>1 DEF CallsTypeOK, RowDrawn
  <2>4. ASSUME ~FirstReadsOverlapped PROVE basket = NoBasket
    <3>1. ASSUME NEW d \in Calls, step[d] # "IDLE", saw[d] = NoBasket PROVE d = c
      BY <1>1, <1>5, <2>4, <3>1 DEF FirstReadsOverlapped
    <3>2. sent[c] = NoBasket
      BY <1>1 DEF DrawsLate
    <3>. QED  BY <3>1, <3>2 DEF RowDrawn
  <2>5. OneBasket'
    BY <1>0, <1>1, <1>3, <2>1, <2>4, NoBasketAssumption DEF OneBasket, CallsTypeOK
  <2>. QED  BY <1>1, <1>2, <2>2, <2>3, <2>5
<1>. QED  BY <1>4, <1>5

\* The lock, the cancels, the gateway and its callback.
LEMMA RestKeeps ==
    ASSUME InitiationInv,
           LockExpires \/ PendingOver \/ CancelRead \/ CancelDelete \/ CancelAbort
           \/ (\E b \in Baskets : Capture(b) \/ CallbackUnknown(b)) \/ UNCHANGED callVars
    PROVE  InitiationInv'
<1>. USE DEF InitiationInv
<1>1. UNCHANGED <<step, saw, sent, basket, issued>>
  BY DEF LockExpires, PendingOver, CancelRead, CancelDelete, CancelAbort, Capture, CallbackUnknown, callVars,
     gatewayVars
<1>2. CallsTypeOK' /\ captured' \subseteq issued'
  BY DEF LockExpires, PendingOver, CancelRead, CancelDelete, CancelAbort, Capture, CallbackUnknown, callVars,
     rowVars, cancelVars, gatewayVars, CallsTypeOK
<1>3. DeletesKnow'
  BY DEF LockExpires, PendingOver, CancelRead, CancelDelete, CancelAbort, Capture, CallbackUnknown, callVars,
     rowVars, cancelVars, gatewayVars, CallsTypeOK, DeletesKnow
<1>4. \A b \in Baskets : DeletedBehind(b) => DeletedBehind(b)'
  BY DEF LockExpires, PendingOver, CancelRead, CancelDelete, CancelAbort, Capture, CallbackUnknown, callVars,
     rowVars, cancelVars, gatewayVars, DeletesKnow, DeletedBehind
<1>5. \A b \in unknown' \ unknown : b \in captured /\ (basket # b \/ gone) /\ UNCHANGED <<rowVars, cancelVars>>
  BY DEF LockExpires, PendingOver, CancelRead, CancelDelete, CancelAbort, Capture, CallbackUnknown, callVars,
     gatewayVars
<1>6. DrawsLate' /\ RowDrawn'
  BY <1>1 DEF DrawsLate, RowDrawn
<1>7. FirstReadsOverlapped' <=> FirstReadsOverlapped
  BY <1>1 DEF FirstReadsOverlapped
<1>8. ASSUME ~FirstReadsOverlapped, NEW b \in unknown' \ unknown PROVE DeletedBehind(b)'
  <2>1. b = basket /\ gone /\ b # NoBasket
    BY <1>5, <1>8, NoBasketAssumption DEF OneBasket, CallsTypeOK
  <2>2. DeletedBehind(b)
    BY <2>1 DEF DeletesKnow, DeletedBehind
  <2>. QED  BY <1>1, <1>5, <2>2 DEF DeletedBehind, rowVars, cancelVars
<1>9. OneBasket'
  BY <1>1, <1>2, <1>4, <1>7, <1>8 DEF OneBasket, CallsTypeOK
<1>. QED  BY <1>2, <1>3, <1>6, <1>9

LEMMA CallsStep == InitiationInv /\ [CallsNext]_callVars => InitiationInv'
  BY CallKeeps, WriteKeeps, RestKeeps DEF CallsNext, Call

-----------------------------------------------------------------------------

\* Each variable keeps its type.
THEOREM CallTypes == CallsSpec => []CallsTypeOK
<1>1. InitiationInv => CallsTypeOK
  BY DEF InitiationInv
<1>. QED  BY <1>1, CallsStart, CallsStep, PTL DEF CallsSpec

\* However many tabs and retries start the payment, and whatever becomes of the
\* lock, a capture is lost from sight only when two calls had both read the
\* payment before either gave it a basket, or when a cancel deletes the payment
\* on a read in which it had no basket or was FAILED (initiatePayment,
\* cancelBooking, handleCallback).
THEOREM LostByRaceOnly == CallsSpec => []LostOnlyByRace
<1>1. InitiationInv => LostOnlyByRace
  BY DEF InitiationInv, OneBasket, LostOnlyByRace
<1>. QED  BY <1>1, CallsStart, CallsStep, PTL DEF CallsSpec
=============================================================================
