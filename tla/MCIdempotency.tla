--------------------------- MODULE MCIdempotency ---------------------------
(* Idempotency for TLC: three requests, of which the third has the payload   *)
(* of the others or one of its own.                                          *)
EXTENDS Idempotency

CONSTANTS r1, r2, r3, f1, f2

Same == [r \in {r1, r2, r3} |-> f1]
SameOrThirdDiffers == {Same, [Same EXCEPT ![r3] = f2]}
AllSame == {Same}
=============================================================================
