----------------------- MODULE MCSystemOperationLock -----------------------
(* Small instances of SystemOperationLock for TLC. *)
EXTENDS SystemOperationLock, TLC

Symmetric == Permutations(Operations) \cup Permutations(OperationIds)
=============================================================================
