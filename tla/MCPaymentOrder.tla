--------------------------- MODULE MCPaymentOrder ---------------------------
(***************************************************************************)
(* Model checking of PaymentOrder: the workers are interchangeable.        *)
(***************************************************************************)
EXTENDS PaymentOrder, TLC

WorkerSymmetry == Permutations(Workers)
=============================================================================
