---------------------------- MODULE MCEmailOutbox ----------------------------
(* Two drains and other mail on one pod.                                   *)
EXTENDS EmailOutbox

CONSTANT p1

OnOnePod == {[c \in Callers |-> p1]}
=============================================================================
