------------------------- MODULE MCConcurrencySlots -------------------------
(* Small instances of ConcurrencySlots for TLC. *)
EXTENDS ConcurrencySlots, TLC

Symmetric == Permutations(Requests \ Calls) \cup Permutations(Processes)
=============================================================================
