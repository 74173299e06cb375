--------------------------- MODULE MCIdempotency ---------------------------
(* Small instance of Idempotency for TLC. *)
EXTENDS Idempotency, TLC

RequestSymmetry == Permutations(Requests)
=============================================================================
