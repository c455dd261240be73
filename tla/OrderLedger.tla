---------------------------- MODULE OrderLedger -----------------------------
(***************************************************************************)
(* What a payment order promises, without requests, leases, crashes or     *)
(* timeouts: an order may be closed unpaid, receives its payment at most   *)
(* once, is credited once after that, gets one decision on the inviter's   *)
(* rebate, and is settled last.                                            *)
(***************************************************************************)
EXTENDS Naturals

VARIABLES phase, credits, decided, rebates

vars == <<phase, credits, decided, rebates>>

Init == phase = "open" /\ credits = 0 /\ decided = FALSE /\ rebates = 0

Close ==
    /\ phase = "open"
    /\ phase' = "closed"
    /\ UNCHANGED <<credits, decided, rebates>>

\* A late payment reopens a closed order.
Receive ==
    /\ phase \in {"open", "closed"}
    /\ phase' = "received"
    /\ UNCHANGED <<credits, decided, rebates>>

Credit ==
    /\ phase = "received"
    /\ phase' = "credited"
    /\ credits' = credits + 1
    /\ UNCHANGED <<decided, rebates>>

Decide ==
    /\ phase = "credited" /\ ~decided
    /\ decided' = TRUE
    /\ rebates' \in {rebates, rebates + 1}
    /\ UNCHANGED <<phase, credits>>

Settle ==
    /\ phase = "credited" /\ decided
    /\ phase' = "settled"
    /\ UNCHANGED <<credits, decided, rebates>>

Next == Close \/ Receive \/ Credit \/ Decide \/ Settle

Spec == Init /\ [][Next]_vars
=============================================================================
