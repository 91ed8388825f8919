SPECIFICATION CallsSpec
CONSTANTS
    Calls = {c1, c2}
    Baskets = {k1, k2}
    NoBasket = NoBasket
    NoCall = NoCall
CHECK_DEADLOCK FALSE
SYMMETRY AnyCallAnyBasket
PROPERTY BasketSetOnce
\* INVARIANT PaymentFound
