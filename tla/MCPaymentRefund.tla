--------------------------- MODULE MCPaymentRefund --------------------------
(***************************************************************************)
(* Model checking of PaymentRefund: the admins are interchangeable.        *)
(***************************************************************************)
EXTENDS PaymentRefund, TLC

AdminSymmetry == Permutations(Admins)
MCMinBalance == -1
=============================================================================
