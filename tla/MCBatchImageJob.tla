-------------------------- MODULE MCBatchImageJob --------------------------
(* Small instances of BatchImageJob for TLC. *)
EXTENDS BatchImageJob, TLC

Symmetric == Permutations(Workers)
=============================================================================
