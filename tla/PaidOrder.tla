----------------------------- MODULE PaidOrder -----------------------------
(***************************************************************************)
(* What a payment order promises, with no workers, leases or retries in    *)
(* sight: it is funded, then credited once, then its inviter's rebate is   *)
(* settled once, then it is complete for good.  It may stop at any point,  *)
(* and takes no step out of this order.                                    *)
(***************************************************************************)
EXTENDS Naturals

VARIABLES
    funded,   \* there is a matching payment, or an admin's word for it
    credits,  \* how often the user got what was bought
    settled,  \* the rebate of the inviter has been decided
    rebates,  \* how often a rebate was accrued
    done      \* the order is complete

paidOrderVars == <<funded, credits, settled, rebates, done>>

Init ==
    /\ funded = FALSE /\ credits = 0
    /\ settled = FALSE /\ rebates = 0
    /\ done = FALSE

Fund ==
    /\ funded' = TRUE
    /\ UNCHANGED <<credits, settled, rebates, done>>

Credit ==
    /\ funded /\ credits = 0
    /\ credits' = 1
    /\ UNCHANGED <<funded, settled, rebates, done>>

SettleRebate ==
    /\ credits = 1 /\ ~settled
    /\ settled' = TRUE
    /\ rebates' \in {0, 1}
    /\ UNCHANGED <<funded, credits, done>>

Complete ==
    /\ settled
    /\ done' = TRUE
    /\ UNCHANGED <<funded, credits, settled, rebates>>

Next == Fund \/ Credit \/ SettleRebate \/ Complete

Spec == Init /\ [][Next]_paidOrderVars
=============================================================================
