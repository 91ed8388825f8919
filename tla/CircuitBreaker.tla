--------------------------- MODULE CircuitBreaker ---------------------------
(* The circuit breaker in front of an external service                     *)
(* (common/utils/circuit-breaker.ts): the state that one pod keeps, and    *)
(* what a call does to it when it is admitted and when it settles.         *)
EXTENDS Naturals

CONSTANT Threshold  \* consecutive failures that open the breaker

ASSUME ThresholdAssumption == Threshold \in Nat \ {0}

\* failures: consecutiveFailures, which nothing reads above the threshold.
\* slot: halfOpenProbeInFlight.  cooled: openTimeoutMs has passed since openedAt.
Breakers == [state : {"CLOSED", "OPEN", "HALF_OPEN"}, failures : 0..Threshold,
             slot : BOOLEAN, cooled : BOOLEAN]
Closed == [state |-> "CLOSED", failures |-> 0, slot |-> FALSE, cooled |-> FALSE]

\* Whether run calls its function, or throws CircuitBreakerOpenError.
Admits(b) ==
    \/ b.state = "CLOSED"
    \/ b.state = "OPEN" /\ b.cooled /\ ~b.slot
    \/ b.state = "HALF_OPEN" /\ ~b.slot

\* Bug: the probe does not claim the slot.
EnteredUnclaimed(b) == IF b.state = "CLOSED" THEN b ELSE [b EXCEPT !.state = "HALF_OPEN"]
Entered(b) ==
    IF b.state = "CLOSED" THEN b ELSE [b EXCEPT !.state = "HALF_OPEN", !.slot = TRUE]

\* recordSuccess and finally: a call that was admitted before the breaker
\* opened clears the count and the slot as well, but closes only a probe.
Succeeded(b) ==
    [b EXCEPT !.failures = 0, !.slot = FALSE,
              !.state = IF @ = "HALF_OPEN" THEN "CLOSED" ELSE @,
              !.cooled = @ /\ b.state = "OPEN"]

\* recordFailure and finally.
Failed(b) ==
    LET n == IF b.failures = Threshold THEN Threshold ELSE b.failures + 1
        opens == b.state = "HALF_OPEN" \/ n = Threshold
    IN [b EXCEPT !.failures = n, !.slot = FALSE,
                 !.state = IF opens THEN "OPEN" ELSE @,
                 !.cooled = @ /\ ~opens]
=============================================================================
