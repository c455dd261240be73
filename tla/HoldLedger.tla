----------------------------- MODULE HoldLedger -----------------------------
(***************************************************************************)
(* What the billing of one batch image job promises: the user's money is   *)
(* held once; the hold is captured or released, not both, unless something *)
(* left in doubt which of them happened; a completed job has been paid and *)
(* keeps its money, a released one is never completed.                     *)
(***************************************************************************)

VARIABLES
    phase,   \* of the hold
    outcome, \* of the job
    doubt    \* something happened after which both may take place

vars == <<phase, outcome, doubt>>

Init == phase = "none" /\ outcome = "open" /\ doubt = FALSE

\* Doubt may arise at any moment and stays.
Doubting == doubt' \in {doubt, TRUE}

Reserve == phase = "none" /\ phase' = "held" /\ UNCHANGED <<outcome, doubt>>

Capture ==
    /\ phase = "held"
    /\ outcome = "open" \/ doubt
    /\ phase' = "captured" /\ Doubting
    /\ UNCHANGED outcome

Release ==
    /\ phase = "held" /\ outcome # "done"
    /\ phase' = "released"
    /\ UNCHANGED <<outcome, doubt>>

EndAgain ==
    /\ phase \in {"captured", "released"} /\ doubt
    /\ phase' = "both" /\ Doubting
    /\ UNCHANGED outcome

Complete ==
    /\ phase \in {"captured", "both"} /\ outcome = "open"
    /\ outcome' = "done"
    /\ UNCHANGED <<phase, doubt>>

Abandon ==
    /\ phase \in {"none", "held", "released"} \/ doubt
    /\ outcome = "open"
    /\ outcome' = "void"
    /\ UNCHANGED <<phase, doubt>>

Confuse == doubt' = TRUE /\ UNCHANGED <<phase, outcome>>

Next ==
    \/ Reserve \/ Capture \/ Release \/ EndAgain
    \/ Complete \/ Abandon \/ Confuse

Spec == Init /\ [][Next]_vars
=============================================================================
