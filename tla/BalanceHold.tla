---------------------------- MODULE BalanceHold ----------------------------
(***************************************************************************)
(* What a batch image job promises about the money it reserves: the hold   *)
(* is frozen at most once, and is then captured or released, one of them   *)
(* and once.  The frozen balance moves with the hold and with nothing      *)
(* else, so the other jobs of the user keep what they have frozen.         *)
(***************************************************************************)
EXTENDS Naturals

CONSTANT Others   \* holds of the user's other jobs

VARIABLES hold, frozen

holdVars == <<hold, frozen>>

Init == hold = "none" /\ frozen = Others

Reserve ==
    /\ hold = "none"
    /\ hold' = "held" /\ frozen' = frozen + 1

Settle ==
    /\ hold = "held"
    /\ hold' \in {"captured", "released"} /\ frozen' = frozen - 1

Next == Reserve \/ Settle

Safe == Init /\ [][Next]_holdVars

\* A hold does not stay frozen for ever.
Live == WF_holdVars(Settle)

Spec == Safe /\ Live
=============================================================================
