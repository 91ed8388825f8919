----------------------------- MODULE MCSessions -----------------------------
(* Small accounts, for the runs of TLC.                                    *)
EXTENDS Sessions, TLC

CONSTANTS t1, t2, t3, phone, laptop, f1, f2

\* Two tabs share the cookies of the laptop.
OnLaptop == [t \in Tabs |-> IF t = t3 THEN phone ELSE laptop]

AnyTabAnyFamily == Permutations({t1, t2}) \cup Permutations(Families)
=============================================================================
