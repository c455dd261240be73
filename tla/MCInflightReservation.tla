------------------------ MODULE MCInflightReservation ------------------------
(* InflightReservation for TLC: two requests, the first with two tasks or each *)
(* with one. *)
EXTENDS InflightReservation

CONSTANTS r1, r2, t1, t2

BothOfFirst == [t \in Tasks |-> r1]
OneEach == [t \in Tasks |-> IF t = t1 THEN r1 ELSE r2]
Estimates == [r \in Requests |-> IF r = r2 THEN 2 ELSE 1]
Costs == [t \in Tasks |-> Estimates[Of[t]]]
\* A charge may exceed the estimate.
OverEstimate == [t \in Tasks |-> 2]
=============================================================================
