SPECIFICATION CallsSpec
CONSTANTS
    Calls = {c1, c2, c3}
    Baskets = {k1, k2, k3}
    NoBasket = NoBasket
    NoCall = NoCall
CHECK_DEADLOCK FALSE
SYMMETRY AnyCallAnyBasket
INVARIANTS LostOnlyByRace
