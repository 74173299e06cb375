-------------------------- MODULE MCPaymentRefund --------------------------
(* Small instances of PaymentRefund for TLC. *)
EXTENDS PaymentRefund, TLC

\* Workers are interchangeable; sound for the safety properties.
Symmetric == Permutations(Workers)
=============================================================================
