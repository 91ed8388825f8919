---------------------------- MODULE MCCheckout ----------------------------
(* A stay with a minimum and two ways to sell by the hour: by the unit in  *)
(* quarters of a price, and by the person with extras.  Discounts and      *)
(* quarters fall on half cents.                                            *)
EXTENDS Checkout, TLC

Shop(daily, perUnit, dur, extra, capacity, days, offers) ==
    [daily |-> daily, perUnit |-> perUnit, dur |-> dur, price |-> 10, fee |-> 3,
     extra |-> extra, perPerson |-> TRUE, capacity |-> capacity,
     days |-> days, offers |-> offers]
Percent(pct, cap) == [pct |-> pct, cap |-> cap, off |-> 0, min |-> 8]
Fixed == [pct |-> 0, cap |-> 0, off |-> 12, min |-> 0]
Shops == {<<Shop(TRUE, TRUE, 2, 0, 1, 1..4, {1}), Percent(2500, 5)>>,
          <<Shop(FALSE, TRUE, 4, 0, 1, {1}, {1}), Percent(4000, 0)>>,
          <<Shop(FALSE, FALSE, 1, 4, 2, {1, 3}, {}), Fixed>>}
MonthOf == <<1, 1, 2, 2>>
=============================================================================
