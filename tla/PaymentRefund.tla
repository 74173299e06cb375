--------------------------- MODULE PaymentRefund ---------------------------
(***************************************************************************)
(* The refund of one completed balance order                               *)
(* (service/payment_refund.go): RequestRefund by the user, PrepareRefund   *)
(* and ExecuteRefund, and QueryAndFinalizeRefund, by administrators whose  *)
(* requests interleave.  Each statement or provider call is a step.  Only  *)
(* two of the status writes have a condition; the others are UpdateOneID.  *)
(*                                                                         *)
(* An amount is one unit: what a plan takes from the balance, or nothing.  *)
(* Audit rows are unique per order and action, so a second row of the same *)
(* action is not written and the first one's detail stays.                 *)
(***************************************************************************)
EXTENDS Integers

CONSTANTS
    Workers,    \* administrators' requests at work at the same time, reused
    Takes,      \* what a plan may deduct: 0 (not asked for, or no balance), 1
    FaultAt,    \* the calls that may fail
    CrashAt,    \* the calls before which a request may be cut off
    MaxFaults,  \* bound: failing calls, lost answers and crashes
    MaxDeducted \* bound: no request begins once so much is deducted

ASSUME RefundAssumption ==
    /\ Takes \subseteq {0, 1}
    /\ MaxFaults \in Nat /\ MaxDeducted \in Nat

VARIABLES
    status,         \* status of the order row
    rollbackFailed, \* audit row REFUND_ROLLBACK_FAILED
    success,        \* audit row REFUND_SUCCESS
    pendingRow,     \* audit row REFUND_PENDING: its deductionRollbackOK, or "none"
    settled,        \* the order's ledger is closed and its revenue split reversed
    deducted,       \* units taken from the user's balance for this order, net
    gateway,        \* the refund at the provider
    job,            \* what each worker does
    pc,             \* the next call of each worker
    plan,           \* what each worker holds in memory
    offlined,       \* history: a refund was registered without the provider
    intruded,       \* history: a finalisation wrote a status over one that is not pending
    unguarded,      \* history: no record keeps a retry from repeating a deduction
    faults          \* number of faults so far

auditVars == <<rollbackFailed, success, pendingRow, settled>>
historyVars == <<offlined, intruded, unguarded, faults>>
vars == <<status, auditVars, deducted, gateway, job, pc, plan, historyVars>>

\* mutant: a status literal outside the enumeration
OrderStatusRefundFailedTypo == "FAILED_REFUND"

OrderStatusCompleted == "COMPLETED"
OrderStatusRefundRequested == "REFUND_REQUESTED"
OrderStatusRefunding == "REFUNDING"
OrderStatusRefundPending == "REFUND_PENDING"
OrderStatusRefundFailed == "REFUND_FAILED"
OrderStatusRefunded == "REFUNDED"
OrderStatusPartiallyRefunded == "PARTIALLY_REFUNDED"

Refunded == {OrderStatusRefunded, OrderStatusPartiallyRefunded}
Statuses == {"COMPLETED", "REFUND_REQUESTED", "REFUNDING", "REFUND_PENDING",
             "REFUND_FAILED", "REFUNDED", "PARTIALLY_REFUNDED"}

\* mutant: a running refund may be joined
RefundableRunning ==
    {OrderStatusCompleted, OrderStatusRefundRequested, OrderStatusRefunding,
     OrderStatusRefundPending, OrderStatusRefundFailed}

\* The statuses that PrepareRefund and the UPDATE of ExecuteRefund accept.
Refundable ==
    {OrderStatusCompleted, OrderStatusRefundRequested, OrderStatusRefundPending,
     OrderStatusRefundFailed}

\* ExecuteRefund while the order is REFUNDING; its calls before and after;
\* QueryAndFinalizeRefund.
Locked == {"check", "deduct", "gateway", "rollback", "auditRollback", "restore",
           "gwFailed", "markOk", "markPending"}
Unlocked == {"lock", "auditOk", "auditPending"}
Finalizing == {"detail", "query", "finCheck", "finDeduct", "finFail", "markOk", "auditOk"}
Pcs == {"idle"} \cup Locked \cup Unlocked \cup Finalizing

\* from: p.Order.Status as PrepareRefund read it; take: p.BalanceToDeduct;
\* offline: p.Offline, or an order without trade number; resp: how the
\* provider's answer was taken; rolledBack: rollbackOK, for a finalisation
\* pendingDetail.DeductionRollbackOK.
Plans == [from : Statuses, take : {0, 1}, offline : BOOLEAN,
          resp : {"none", "error", "pending"}, rolledBack : BOOLEAN]

NewPlan(s, t, o) ==
    [from |-> s, take |-> t, offline |-> o, resp |-> "none", rolledBack |-> TRUE]

NoPlan == NewPlan(OrderStatusCompleted, 0, FALSE)

\* Types of the state.
TypeOK ==
    /\ status \in Statuses
    /\ rollbackFailed \in BOOLEAN /\ success \in BOOLEAN /\ settled \in BOOLEAN
    /\ pendingRow \in {"none", "ok", "notOk"}
    /\ deducted \in Int
    /\ gateway \in {"none", "pending", "refunded", "failed"}
    /\ job \in [Workers -> {"none", "refund", "finalize"}]
    /\ pc \in [Workers -> Pcs]
    /\ plan \in [Workers -> Plans]
    /\ offlined \in BOOLEAN /\ intruded \in BOOLEAN /\ unguarded \in BOOLEAN
    /\ faults \in 0..MaxFaults

\* The order has been fulfilled.
Init ==
    /\ status = OrderStatusCompleted
    /\ rollbackFailed = FALSE /\ success = FALSE /\ settled = FALSE
    /\ pendingRow = "none"
    /\ deducted = 0
    /\ gateway = "none"
    /\ job = [w \in Workers |-> "none"]
    /\ pc = [w \in Workers |-> "idle"]
    /\ plan = [w \in Workers |-> NoPlan]
    /\ offlined = FALSE /\ intruded = FALSE /\ unguarded = FALSE
    /\ faults = 0

-----------------------------------------------------------------------------

Start(w, j, l, p) ==
    /\ pc[w] = "idle" /\ deducted < MaxDeducted
    /\ job' = [job EXCEPT ![w] = j]
    /\ pc' = [pc EXCEPT ![w] = l]
    /\ plan' = [plan EXCEPT ![w] = p]

\* The worker goes on with its plan p.
Continue(w, l, p) ==
    /\ pc' = [pc EXCEPT ![w] = l]
    /\ plan' = [plan EXCEPT ![w] = p]
    /\ UNCHANGED job

Goto(w, l) ==
    /\ pc' = [pc EXCEPT ![w] = l]
    /\ UNCHANGED <<job, plan>>

\* The request is over; what it held in memory is gone.
Return(w) ==
    /\ pc' = [pc EXCEPT ![w] = "idle"]
    /\ job' = [job EXCEPT ![w] = "none"]
    /\ plan' = [plan EXCEPT ![w] = NoPlan]

\* UpdateOneID(...).SetStatus(s), by whoever.
SetStatus(w, s) ==
    /\ status' = s
    /\ intruded' = (intruded \/ (job[w] = "finalize" /\ status # OrderStatusRefundPending))
    /\ UNCHANGED <<auditVars, deducted, gateway, offlined, unguarded, faults>>

\* A step that only decides where its worker goes on.
Decision == UNCHANGED <<status, auditVars, deducted, gateway, historyVars>>

Fault ==
    /\ faults < MaxFaults
    /\ faults' = faults + 1
    /\ UNCHANGED <<status, auditVars, deducted, offlined, intruded>>

-----------------------------------------------------------------------------
(* The user's request, and PrepareRefund.                                  *)

\* What precedes the UPDATE only reads; the UPDATE asks for COMPLETED again.
RequestRefund ==
    /\ status = OrderStatusCompleted
    /\ status' = OrderStatusRefundRequested
    /\ UNCHANGED <<auditVars, deducted, gateway, job, pc, plan, historyVars>>

PrepareRefund(w) ==
    /\ status \in Refundable
    /\ \E t \in Takes, o \in BOOLEAN : Start(w, "refund", "lock", NewPlan(status, t, o))
    /\ Decision

-----------------------------------------------------------------------------
(* ExecuteRefund.                                                          *)

Lock(w) ==
    /\ pc[w] = "lock"
    /\ IF status \in Refundable
       THEN /\ status' = OrderStatusRefunding
            /\ Goto(w, IF plan[w].take = 1 THEN "check" ELSE "gateway")
       ELSE Return(w) /\ UNCHANGED status
    /\ UNCHANGED <<auditVars, deducted, gateway, historyVars>>

\* mutant: a retry deducts whatever the audit log says
CheckRollbackFailedNot(w) ==
    /\ pc[w] = "check"
    /\ Goto(w, "deduct")
    /\ Decision

\* The deduction of an attempt that could not be rolled back still stands.
CheckRollbackFailed(w) ==
    /\ pc[w] = "check"
    /\ IF rollbackFailed
       THEN Continue(w, "gateway", [plan[w] EXCEPT !.take = 0])
       ELSE Goto(w, "deduct")
    /\ Decision

DeductBalance(w) ==
    /\ pc[w] = "deduct"
    /\ deducted' = deducted + 1
    /\ Goto(w, "gateway")
    /\ UNCHANGED <<status, auditVars, gateway, historyVars>>

OnSuccess(w) == Goto(w, "markOk")

\* mutant: a pending answer counts as success
OnPendingAsSuccess(w) == Goto(w, "markOk")

\* markRefundPending begins with the rollback.
OnPending(w) == Continue(w, "rollback", [plan[w] EXCEPT !.resp = "pending"])

\* handleGwFail begins with the rollback.
OnError(w) == Continue(w, "rollback", [plan[w] EXCEPT !.resp = "error"])

RegisterOffline(w) ==
    /\ pc[w] = "gateway" /\ plan[w].offline
    /\ offlined' = TRUE
    /\ OnSuccess(w)
    /\ UNCHANGED <<status, auditVars, deducted, gateway, intruded, unguarded, faults>>

\* A provider that already has the refund says so or refuses a second one.
GwRefund(w) ==
    /\ pc[w] = "gateway" /\ ~plan[w].offline
    /\ \/ gateway # "pending" /\ gateway' = "refunded" /\ OnSuccess(w)
       \/ gateway # "refunded" /\ gateway' = "pending" /\ OnPending(w)
       \/ UNCHANGED gateway /\ OnError(w)
    /\ UNCHANGED <<status, auditVars, deducted, historyVars>>

\* The provider accepts the refund and its answer is lost.
GwAnswerLost(w) ==
    /\ pc[w] = "gateway" /\ ~plan[w].offline /\ "gateway" \in FaultAt
    /\ gateway \in {"none", "failed"}
    /\ gateway' \in {"pending", "refunded"}
    /\ OnError(w)
    /\ Fault
    /\ UNCHANGED unguarded

\* The provider decides about a refund it had accepted.
ProviderSettles ==
    /\ gateway = "pending"
    /\ gateway' \in {"refunded", "failed"}
    /\ UNCHANGED <<status, auditVars, deducted, job, pc, plan, historyVars>>

\* mutant: the balance is given back whether or not it was taken
RolledBackAlways(p) == 1

\* mutant: a pending refund keeps the deduction
RolledBackOnError(p) == IF p.resp = "error" THEN p.take ELSE 0

\* What RollbackRefund gives back: what this plan has taken.
RolledBack(p) == p.take

RollbackRefund(w) ==
    /\ pc[w] = "rollback"
    /\ deducted' = deducted - RolledBack(plan[w])
    /\ Goto(w, IF plan[w].resp = "error" THEN "restore" ELSE "markPending")
    /\ UNCHANGED <<status, auditVars, gateway, historyVars>>

AuditRollbackFailed(w) ==
    /\ pc[w] = "auditRollback"
    /\ rollbackFailed' = TRUE
    /\ Goto(w, IF plan[w].resp = "error" THEN "gwFailed" ELSE "markPending")
    /\ UNCHANGED <<status, success, pendingRow, settled, deducted, gateway, historyVars>>

\* mutant: an error after the lock leaves the order as it is
RestoredNot(s) == OrderStatusRefunding

\* What restoreStatus writes.
Restored(s) ==
    IF s = OrderStatusRefundRequested THEN OrderStatusRefundRequested ELSE OrderStatusCompleted

RestoreStatus(w) ==
    /\ pc[w] = "restore"
    /\ SetStatus(w, Restored(plan[w].from))
    /\ Return(w)

\* handleGwFail after a failed rollback.
MarkGwFailed(w) ==
    /\ pc[w] = "gwFailed"
    /\ SetStatus(w, OrderStatusRefundFailed)
    /\ Return(w)

\* REFUNDED or PARTIALLY_REFUNDED, by the amount.
MarkRefundOk(w) ==
    /\ pc[w] = "markOk"
    /\ \E s \in Refunded : SetStatus(w, s)
    /\ Goto(w, "auditOk")

\* settleRefundLedger, whose errors are only logged, and the audit row.
SettleAndAudit(w) ==
    /\ pc[w] = "auditOk"
    /\ settled' \in {settled, TRUE}
    /\ success' = TRUE
    /\ Return(w)
    /\ UNCHANGED <<status, rollbackFailed, pendingRow, deducted, gateway, historyVars>>

MarkRefundPending(w) ==
    /\ pc[w] = "markPending"
    /\ SetStatus(w, OrderStatusRefundPending)
    /\ Goto(w, "auditPending")

\* A second REFUND_PENDING row violates the unique index; the error is logged.
AuditPending(w) ==
    /\ pc[w] = "auditPending"
    /\ pendingRow' = IF pendingRow # "none" THEN pendingRow
                     ELSE IF plan[w].rolledBack THEN "ok" ELSE "notOk"
    /\ Return(w)
    /\ UNCHANGED <<status, rollbackFailed, success, settled, deducted, gateway, historyVars>>

-----------------------------------------------------------------------------
(* QueryAndFinalizeRefund.                                                 *)

BeginFinalize(w) ==
    /\ status = OrderStatusRefundPending
    /\ Start(w, "finalize", "detail", NoPlan)
    /\ Decision

LatestRefundPendingDetail(w) ==
    /\ pc[w] = "detail"
    /\ Continue(w, "query", [plan[w] EXCEPT !.rolledBack = (pendingRow # "notOk")])
    /\ Decision

\* The provider tells how the refund stands; a refusal finalises the failure.
QueryRefund(w) ==
    /\ pc[w] = "query"
    /\ \/ gateway = "refunded" /\ Goto(w, "finCheck")
       \/ gateway = "failed" /\ Goto(w, "finFail")
       \/ gateway \in {"none", "pending"} /\ Return(w)
    /\ Decision

\* No answer, or an unknown status: finalised as a failure, too.
QueryAnswerUnknown(w) ==
    /\ pc[w] = "query" /\ "query" \in FaultAt
    /\ Goto(w, "finFail")
    /\ Fault
    /\ UNCHANGED <<gateway, unguarded>>

\* applyRefundFinalDeduction looks for the row REFUND_SUCCESS.
CheckRefundSuccess(w) ==
    /\ pc[w] = "finCheck"
    /\ Goto(w, IF ~success /\ plan[w].rolledBack THEN "finDeduct" ELSE "markOk")
    /\ Decision

FinalDeduction(w) ==
    /\ pc[w] = "finDeduct"
    /\ deducted' = deducted + 1
    /\ Goto(w, "markOk")
    /\ UNCHANGED <<status, auditVars, gateway, historyVars>>

FinalizeRefundFailed(w) ==
    /\ pc[w] = "finFail"
    /\ SetStatus(w, OrderStatusRefundFailed)
    /\ Return(w)

-----------------------------------------------------------------------------
(* Failures.                                                               *)

\* A finalisation that may have deducted has yet to write its status.
Finishing(w) == job[w] = "finalize" /\ pc[w] = "markOk"

\* The row REFUND_ROLLBACK_FAILED is there and not seen, or is not written; or the
\* status of a finalisation is not written.
LosesRecord(w) ==
    \/ pc[w] = "check" /\ rollbackFailed
    \/ pc[w] = "auditRollback"
    \/ Finishing(w)

\* A call returns an error and has had no effect.  The count behind hasAuditLog
\* and the read of the pending detail swallow it; the audit writes and the
\* status writes of restoreStatus and of the failure paths ignore it.
CallFails(w) ==
    /\ pc[w] \in FaultAt
    /\ Fault
    /\ unguarded' = (unguarded \/ LosesRecord(w))
    /\ UNCHANGED gateway
    /\ \/ pc[w] = "check" /\ Goto(w, "deduct")
       \/ pc[w] = "deduct" /\ Goto(w, "restore")
       \/ /\ pc[w] = "rollback" /\ plan[w].take = 1
          /\ Continue(w, "auditRollback", [plan[w] EXCEPT !.rolledBack = FALSE])
       \/ /\ pc[w] = "auditRollback"
          /\ Goto(w, IF plan[w].resp = "error" THEN "gwFailed" ELSE "markPending")
       \/ pc[w] = "detail" /\ Goto(w, "query")
       \/ pc[w] = "finCheck" /\ Goto(w, IF plan[w].rolledBack THEN "finDeduct" ELSE "markOk")
       \/ /\ pc[w] \in {"lock", "restore", "gwFailed", "markOk", "auditOk", "markPending",
                        "auditPending", "query", "finDeduct", "finFail"}
          /\ Return(w)

\* The process dies, or the request is cut off, between two calls.
Crash(w) ==
    /\ pc[w] \in CrashAt
    /\ Fault
    /\ unguarded' = (unguarded \/ Finishing(w))
    /\ UNCHANGED gateway
    /\ Return(w)

-----------------------------------------------------------------------------

ExecuteRefund(w) ==
    \/ Lock(w) \/ CheckRollbackFailed(w) \/ DeductBalance(w)
    \/ RegisterOffline(w) \/ GwRefund(w) \/ GwAnswerLost(w)
    \/ RollbackRefund(w) \/ AuditRollbackFailed(w) \/ RestoreStatus(w) \/ MarkGwFailed(w)
    \/ MarkRefundOk(w) \/ SettleAndAudit(w) \/ MarkRefundPending(w) \/ AuditPending(w)

FinalizeRefund(w) ==
    \/ LatestRefundPendingDetail(w) \/ QueryRefund(w) \/ QueryAnswerUnknown(w)
    \/ CheckRefundSuccess(w) \/ FinalDeduction(w) \/ FinalizeRefundFailed(w)

Next ==
    \/ RequestRefund \/ ProviderSettles
    \/ \E w \in Workers :
          \/ PrepareRefund(w) \/ BeginFinalize(w)
          \/ ExecuteRefund(w) \/ FinalizeRefund(w) \/ CallFails(w) \/ Crash(w)

Spec == Init /\ [][Next]_vars

\* A request that was started goes on; nobody has to start one.
FairSpec == Spec /\ \A w \in Workers : WF_vars(ExecuteRefund(w) \/ FinalizeRefund(w))

-----------------------------------------------------------------------------
(* Properties.                                                             *)

Executing == {w \in Workers : job[w] = "refund" /\ pc[w] \in Locked}

\* An order is REFUNDED or PARTIALLY_REFUNDED only when the provider has paid the
\* money back or an administrator registered a refund outside it, whoever wrote
\* the status last and whatever that worker knew.
RefundBacked ==
    status \in Refunded => gateway = "refunded" \/ offlined

\* REFUNDING keeps two executions of a refund apart, as long as no finalisation
\* writes over a status other than REFUND_PENDING.
RefundExclusive ==
    ~intruded => \A v, w \in Executing : v = w

\* Rollbacks never give the user more than refunds have taken.
NeverOvercredited == deducted >= 0

\* The comment in ExecuteRefund: the deduction is skipped on a retry when the
\* previous attempt has deducted and failed to roll back; so it is made once.
DeductedOnce == deducted <= 1

\* Where every plan deducts, a refunded order has cost the user its amount once.
RefundedIsDeducted == status \in Refunded => deducted = 1

\* The same comment, for retries: however often a refund is executed again, and
\* whatever failed before, the rollback too, ExecuteRefund does not deduct while a
\* deduction stands.  Only a finalisation deducts a second time, or an execution
\* that overtakes one; and the row REFUND_ROLLBACK_FAILED was written and read, and
\* no finalisation was cut off between its deduction and its status.
RetryDeductsOnce ==
    [][deducted' > deducted /\ deducted > 0 /\ ~intruded /\ ~unguarded
           => \E w \in Workers : Finishing(w)']_vars

\* An execution that runs on to its end never leaves the order in REFUNDING,
\* whatever the provider answers and even if the deduction fails.
RefundingEnds == status = OrderStatusRefunding ~> status # OrderStatusRefunding
=============================================================================
