------------------------- MODULE MCPaymentInitiation -------------------------
(* Calls and baskets differ in nothing but their names.                    *)
EXTENDS PaymentInitiation, TLC

AnyCallAnyBasket == Permutations(Calls) \cup Permutations(Baskets)
=============================================================================
