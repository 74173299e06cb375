------------------------- MODULE PaymentFulfillment -------------------------
(***************************************************************************)
(* One payment order of PaymentService, from CreateOrder to COMPLETED      *)
(* (service/payment_fulfillment.go, payment_order_lifecycle.go,            *)
(* payment_order.go, payment_simulate.go).  Webhooks, user verification,   *)
(* cancellation, the expiry job, admin simulation and admin retry run as   *)
(* workers that meet only in the database; each statement or provider call *)
(* is a step.                                                              *)
(*                                                                         *)
(* Every UPDATE of the row renews updated_at.  Two things are derived from *)
(* that column, and the model keeps those instead of a clock: whether it   *)
(* is at least five minutes old (paymentGraceMinutes and                   *)
(* paymentFulfillmentLeaseDuration are both five minutes), and which       *)
(* workers hold a lease whose version still equals it.                     *)
(***************************************************************************)
EXTENDS Naturals

CONSTANTS
    Workers,        \* goroutines that serve this order, reused
    NoWorker,       \* no lease was ever taken
    Kinds,          \* order types of the order: "balance", "subscription"
    MaxFaults,      \* bound: crashes, failing calls and overrun leases
    ReadErrors,     \* may the reads of confirmPayment and alreadyProcessed fail?
    StallAtReload   \* may five minutes pass between claiming the lease and reading it back?

ASSUME PaymentAssumption ==
    /\ NoWorker \notin Workers
    /\ Kinds \subseteq {"balance", "subscription"}
    /\ MaxFaults \in Nat
    /\ ReadErrors \in BOOLEAN /\ StallAtReload \in BOOLEAN

VARIABLES
    kind,       \* order_type
    status,     \* status of the order row
    paidAt,     \* paid_at is set
    aged,       \* updated_at is five minutes old or older
    leased,     \* workers whose lease.version equals updated_at
    code,       \* redeem code of the order; for a subscription its assignment audit
    credited,   \* how often balance or subscription was given to the user
    claimed,    \* AFFILIATE_REBATE_APPLIED/SKIPPED audit exists
    rebates,    \* how often the inviter's rebate was accrued
    ledger,     \* the balance ledger holds the recharge
    creating,   \* CreateOrder: "invoke", "save", "fail", then "sent" or "failed"
    upstream,   \* the payment at the provider
    acked,      \* the provider got a success response to its notification
    job,        \* what each worker was started for
    pc,         \* the next call of each worker
    simulated,  \* history: an admin declared the order paid
    owner,      \* history: who acquired the lease last
    faults      \* number of faults so far

orderVars == <<status, paidAt, aged, leased>>
grantVars == <<code, credited, claimed, rebates, ledger>>
outerVars == <<kind, creating, upstream, simulated>>
vars == <<orderVars, grantVars, outerVars, acked, job, pc, owner, faults>>

\* mutant: a status literal outside the enumeration
OrderStatusFailedTypo == "FAIL"

OrderStatusPending == "PENDING"
OrderStatusPaid == "PAID"
OrderStatusRecharging == "RECHARGING"
OrderStatusCompleted == "COMPLETED"
OrderStatusExpired == "EXPIRED"
OrderStatusCancelled == "CANCELLED"
OrderStatusFailed == "FAILED"

Unpaid == {"PENDING", "EXPIRED", "CANCELLED"}
Statuses == Unpaid \cup {"PAID", "RECHARGING", "COMPLETED", "FAILED"}
Jobs == {"none", "webhook", "simulate", "retry", "verify", "cancel", "expire"}

\* Where a worker can be: before the payment is confirmed, between that and
\* the lease, and under the lease.
Confirming == {"query", "persist", "close", "cancelCas", "confirm"}
Leasing == {"already", "load", "acquire", "reload"}
Granting == {"lookup", "createCode", "redeem", "assign", "account", "complete", "ledger", "fail"}

\* Types of the state.
TypeOK ==
    /\ kind \in Kinds
    /\ status \in Statuses
    /\ paidAt \in BOOLEAN /\ aged \in BOOLEAN
    /\ leased \subseteq Workers
    /\ code \in {"absent", "unused", "used"}
    /\ credited \in Nat /\ rebates \in Nat
    /\ claimed \in BOOLEAN /\ ledger \in BOOLEAN
    /\ creating \in {"invoke", "save", "fail", "sent", "failed"}
    /\ upstream \in {"none", "open", "closed", "paid", "mispaid"}
    /\ acked \in BOOLEAN /\ simulated \in BOOLEAN
    /\ job \in [Workers -> Jobs]
    /\ pc \in [Workers -> {"idle"} \cup Confirming \cup Leasing \cup Granting]
    /\ owner \in Workers \cup {NoWorker}
    /\ faults \in 0..MaxFaults

\* createOrderInTx has inserted the row; CreateOrder is about to invoke the
\* provider.
Init ==
    /\ kind \in Kinds
    /\ status = OrderStatusPending
    /\ paidAt = FALSE /\ aged = FALSE /\ leased = {}
    /\ code = "absent" /\ credited = 0
    /\ claimed = FALSE /\ rebates = 0 /\ ledger = FALSE
    /\ creating = "invoke" /\ upstream = "none" /\ acked = FALSE
    /\ job = [w \in Workers |-> "none"]
    /\ pc = [w \in Workers |-> "idle"]
    /\ simulated = FALSE /\ owner = NoWorker /\ faults = 0

-----------------------------------------------------------------------------

\* An UPDATE of the row: ent's UpdateDefault renews updated_at.
Update(s) ==
    /\ status' = s
    /\ aged' = FALSE
    /\ leased' = {}

Goto(w, l) ==
    /\ pc' = [pc EXCEPT ![w] = l]
    /\ UNCHANGED <<job, acked>>

\* The worker's call returns; a webhook that returns nil is acknowledged.
Return(w, ok) ==
    /\ pc' = [pc EXCEPT ![w] = "idle"]
    /\ job' = [job EXCEPT ![w] = "none"]
    /\ acked' = (acked \/ (job[w] = "webhook" /\ ok))

Fault ==
    /\ faults < MaxFaults
    /\ faults' = faults + 1

-----------------------------------------------------------------------------
(* CreateOrder after the insert, and the payer.                            *)

CreatePayment ==
    /\ creating = "invoke"
    /\ \/ upstream' = "open" /\ creating' = "save" /\ UNCHANGED faults
       \/ Fault /\ creating' = "fail" /\ UNCHANGED upstream
    /\ UNCHANGED <<orderVars, grantVars, kind, simulated, acked, job, pc, owner>>

\* The row gets the provider's trade number and pay URL, whatever its status.
SavePaymentDetails ==
    /\ creating = "save"
    /\ \/ Update(status) /\ creating' = "sent" /\ UNCHANGED faults
       \/ Fault /\ creating' = "fail" /\ UNCHANGED <<status, aged, leased>>
    /\ UNCHANGED <<paidAt, grantVars, kind, upstream, simulated, acked, job, pc, owner>>

\* The provider call failed: the order becomes FAILED, whatever its status.
FailCreation ==
    /\ creating = "fail"
    /\ creating' = "failed"
    /\ Update(OrderStatusFailed)
    /\ UNCHANGED <<paidAt, grantVars, kind, upstream, simulated, acked, job, pc, owner, faults>>

\* The user pays, with the amount and to the merchant of the order or not.
UserPays ==
    /\ creating = "sent" /\ upstream = "open"
    /\ upstream' \in {"paid", "mispaid"}
    /\ UNCHANGED <<orderVars, grantVars, kind, creating, simulated, acked, job, pc, owner, faults>>

-----------------------------------------------------------------------------
(* What starts a worker.                                                   *)

Start(w, j, l) ==
    /\ pc[w] = "idle"
    /\ job' = [job EXCEPT ![w] = j]
    /\ pc' = [pc EXCEPT ![w] = l]
    /\ UNCHANGED <<orderVars, grantVars, kind, creating, upstream, acked, owner, faults>>

\* A verified notification of success; providers deliver it once or more.
Webhook(w) ==
    /\ upstream \in {"paid", "mispaid"}
    /\ Start(w, "webhook", "confirm")
    /\ UNCHANGED simulated

SimulateOrderPaid(w) ==
    /\ status = OrderStatusPending
    /\ Start(w, "simulate", "confirm")
    /\ simulated' = TRUE

Retryable ==
    /\ paidAt
    /\ status \in {OrderStatusFailed, OrderStatusPaid, OrderStatusRecharging}

RetryFulfillment(w) ==
    /\ Retryable
    /\ Start(w, "retry", "load")
    /\ UNCHANGED simulated

\* VerifyOrderByOutTradeNo; ReconcilePendingWxpayOrders does it for PENDING.
VerifyOrder(w) ==
    /\ status \in {OrderStatusPending, OrderStatusExpired}
    /\ Start(w, "verify", "query")
    /\ UNCHANGED simulated

CancelOrder(w) ==
    /\ status = OrderStatusPending
    /\ Start(w, "cancel", "query")
    /\ UNCHANGED simulated

\* expires_at may pass at any time.
ExpireTimedOutOrders(w) ==
    /\ status = OrderStatusPending
    /\ Start(w, "expire", "query")
    /\ UNCHANGED simulated

-----------------------------------------------------------------------------
(* checkPaidWithOptions and cancelCore.                                    *)

\* What follows checkPaid when it does not find the order paid.
NotPaid(w) ==
    IF job[w] = "verify" THEN Return(w, TRUE) ELSE Goto(w, "cancelCas")

QueryOrder(w) ==
    /\ pc[w] = "query"
    /\ \/ upstream \in {"paid", "mispaid"} /\ Goto(w, "persist")
       \/ upstream = "mispaid" /\ NotPaid(w)        \* invalid amount, twice
       \/ /\ upstream \notin {"paid", "mispaid"}
          /\ IF job[w] = "verify" THEN Return(w, TRUE) ELSE Goto(w, "close")
    /\ UNCHANGED <<orderVars, grantVars, outerVars, owner, faults>>

\* A trade number the row does not have is written, whatever the row's status.
PersistTradeNo(w) ==
    /\ pc[w] = "persist"
    /\ Update(status) \/ UNCHANGED <<status, aged, leased>>
    /\ Goto(w, "confirm")
    /\ UNCHANGED <<paidAt, grantVars, outerVars, owner, faults>>

\* CancelPayment, where the provider has it; its error is ignored.
CancelPayment(w) ==
    /\ pc[w] = "close"
    /\ upstream' \in {upstream} \cup (IF upstream = "open" THEN {"closed"} ELSE {})
    /\ Goto(w, "cancelCas")
    /\ UNCHANGED <<orderVars, grantVars, kind, creating, simulated, owner, faults>>

\* mutant: the status is not part of the UPDATE's condition
CancellableAny == TRUE

Cancellable == status = OrderStatusPending

CancelCas(w) ==
    /\ pc[w] = "cancelCas"
    /\ IF Cancellable
       THEN Update(IF job[w] = "cancel" THEN OrderStatusCancelled ELSE OrderStatusExpired)
       ELSE UNCHANGED <<status, aged, leased>>
    /\ Return(w, TRUE)
    /\ UNCHANGED <<paidAt, grantVars, outerVars, owner, faults>>

-----------------------------------------------------------------------------
(* confirmPayment, toPaid, alreadyProcessed.                               *)

\* mutant: provider, metadata and amount are not compared with the order
GenuineAny(w) == TRUE

\* Provider, metadata and amount of the notification are those of the order.
Genuine(w) == upstream = "paid" \/ job[w] = "simulate"

\* The WHERE of toPaid.
Confirmable ==
    \/ status \in {OrderStatusPending, OrderStatusCancelled}
    \/ status = OrderStatusExpired /\ ~aged

ConfirmPayment(w) ==
    /\ pc[w] = "confirm"
    /\ \/ ~Genuine(w) /\ Return(w, FALSE) /\ UNCHANGED orderVars
       \/ /\ Genuine(w) /\ Confirmable
          /\ Update(OrderStatusPaid)
          /\ paidAt' = TRUE
          /\ Goto(w, "load")
       \/ Genuine(w) /\ ~Confirmable /\ Goto(w, "already") /\ UNCHANGED orderVars
    /\ UNCHANGED <<grantVars, outerVars, owner, faults>>

AlreadyProcessed(w) ==
    /\ pc[w] = "already"
    /\ IF status \in {OrderStatusFailed, OrderStatusPaid, OrderStatusRecharging}
       THEN Goto(w, "load")
       ELSE Return(w, TRUE)
    /\ UNCHANGED <<orderVars, grantVars, outerVars, owner, faults>>

-----------------------------------------------------------------------------
(* executeFulfillment and the lease.                                       *)

LoadOrder(w) ==
    /\ pc[w] = "load"
    /\ IF status \in {OrderStatusPaid, OrderStatusFailed, OrderStatusRecharging}
       THEN Goto(w, "acquire")
       ELSE Return(w, status = OrderStatusCompleted)
    /\ UNCHANGED <<orderVars, grantVars, outerVars, owner, faults>>

\* mutant: an order in RECHARGING can be taken over at once
AcquirableEarly ==
    status \in {OrderStatusPaid, OrderStatusFailed, OrderStatusRecharging}

\* mutant: an order in RECHARGING can never be taken over
AcquirableOnce == status \in {OrderStatusPaid, OrderStatusFailed}

Acquirable ==
    \/ status \in {OrderStatusPaid, OrderStatusFailed}
    \/ status = OrderStatusRecharging /\ aged

AcquireLease(w) ==
    /\ pc[w] = "acquire"
    /\ IF Acquirable
       THEN Update(OrderStatusRecharging) /\ owner' = w /\ Goto(w, "reload")
       ELSE Return(w, status = OrderStatusCompleted) /\ UNCHANGED <<status, aged, leased, owner>>
    /\ UNCHANGED <<paidAt, grantVars, outerVars, faults>>

\* The lease version is the updated_at read back after the claim.
ReloadLease(w) ==
    /\ pc[w] = "reload"
    /\ IF status = OrderStatusRecharging
       THEN /\ leased' = leased \cup {w}
            /\ Goto(w, IF kind = "balance" THEN "lookup" ELSE "assign")
       ELSE Return(w, FALSE) /\ UNCHANGED leased
    /\ UNCHANGED <<status, paidAt, aged, grantVars, outerVars, owner, faults>>

-----------------------------------------------------------------------------
(* doBalance, doSub and what follows them.                                 *)

\* mutant: a code that exists counts as redeemed
ResolveRedeemActionAny(c) == IF c = "absent" THEN "createCode" ELSE "account"

\* resolveRedeemAction: create, redeem only, or skip to the accounting.
ResolveRedeemAction(c) ==
    CASE c = "absent" -> "createCode"
      [] c = "unused" -> "redeem"
      [] c = "used"   -> "account"

LookupCode(w) ==
    /\ pc[w] = "lookup"
    /\ Goto(w, ResolveRedeemAction(code))
    /\ UNCHANGED <<orderVars, grantVars, outerVars, owner, faults>>

\* The code is unique: a second CreateCode fails.
CreateCode(w) ==
    /\ pc[w] = "createCode"
    /\ IF code = "absent"
       THEN code' = "unused" /\ Goto(w, "redeem")
       ELSE Goto(w, "fail") /\ UNCHANGED code
    /\ UNCHANGED <<orderVars, credited, claimed, rebates, ledger, outerVars, owner, faults>>

Grant ==
    /\ code' = "used"
    /\ credited' = credited + 1

\* mutant: Use marks the code without WHERE status = 'unused'
UsableTwice == code # "absent"

Usable == code = "unused"

\* Redeem marks the code used and credits the balance in one transaction; it
\* may still return an error after the commit.
Redeem(w) ==
    /\ pc[w] = "redeem"
    /\ \/ Usable /\ Grant /\ Goto(w, "account") /\ UNCHANGED faults
       \/ Usable /\ Grant /\ Goto(w, "fail") /\ Fault
       \/ ~Usable /\ Goto(w, "fail") /\ UNCHANGED <<code, credited, faults>>
    /\ UNCHANGED <<orderVars, claimed, rebates, ledger, outerVars, owner>>

\* ensurePaymentSubscriptionAssigned: the audit row and the assignment commit
\* together, or the audit row was there; the caches are flushed afterwards.
AssignSubscription(w) ==
    /\ pc[w] = "assign"
    /\ IF code = "used" THEN UNCHANGED <<code, credited>> ELSE Grant
    /\ \/ Goto(w, "account") /\ UNCHANGED faults
       \/ Goto(w, "fail") /\ Fault
    /\ UNCHANGED <<orderVars, claimed, rebates, ledger, outerVars, owner>>

\* mutant: the accrual does not depend on whether the claim was there
ApplyAffiliateRebateForOrderAgain ==
    /\ claimed' = TRUE
    /\ rebates' \in {rebates, rebates + 1}

\* The rebate claim and its accrual commit together; without an inviter nothing is
\* accrued.  An installation without the affiliate service, and an order without
\* a positive base amount, neither claim nor accrue: they are left out.
ApplyAffiliateRebateForOrder ==
    /\ claimed' = TRUE
    /\ rebates' \in IF claimed THEN {rebates} ELSE {rebates, rebates + 1}

\* The revenue split that follows only logs its errors.
ApplyPostPaymentAccounting(w) ==
    /\ pc[w] = "account"
    /\ ApplyAffiliateRebateForOrder
    /\ Goto(w, "complete")
    /\ UNCHANGED <<orderVars, code, credited, ledger, outerVars, owner, faults>>

\* WHERE status = RECHARGING AND updated_at = lease.version
LeaseValid(w) == status = OrderStatusRecharging /\ w \in leased

MarkCompleted(w) ==
    /\ pc[w] = "complete"
    /\ \/ /\ LeaseValid(w)
          /\ Update(OrderStatusCompleted)
          /\ IF kind = "balance" THEN Goto(w, "ledger") ELSE Return(w, TRUE)
       \/ /\ ~LeaseValid(w)
          /\ IF status = OrderStatusCompleted THEN Return(w, TRUE) ELSE Goto(w, "fail")
          /\ UNCHANGED <<status, aged, leased>>
    /\ UNCHANGED <<paidAt, grantVars, outerVars, owner, faults>>

RecordRechargeLedger(w) ==
    /\ pc[w] = "ledger"
    /\ ledger' = TRUE
    /\ Return(w, TRUE)
    /\ UNCHANGED <<orderVars, code, credited, claimed, rebates, outerVars, owner, faults>>

\* mutant: markFailed updates by id alone
FailableAny(w) == TRUE

Failable(w) == LeaseValid(w)

MarkFailed(w) ==
    /\ pc[w] = "fail"
    /\ IF Failable(w) THEN Update(OrderStatusFailed) ELSE UNCHANGED <<status, aged, leased>>
    /\ Return(w, FALSE)
    /\ UNCHANGED <<paidAt, grantVars, outerVars, owner, faults>>

-----------------------------------------------------------------------------
(* Failures and time.                                                      *)

\* A call returns an error and has had no effect.  A failed upstream query
\* counts as "not paid", a failed code lookup as "no such code".  The reads
\* that open confirmPayment and alreadyProcessed report success on error.
CallFails(w) ==
    /\ Fault
    /\ \/ pc[w] = "query" /\ NotPaid(w)
       \/ pc[w] \in {"confirm", "cancelCas", "load", "acquire", "reload"} /\ Return(w, FALSE)
       \/ ReadErrors /\ pc[w] \in {"confirm", "already"} /\ Return(w, TRUE)
       \/ pc[w] = "lookup" /\ Goto(w, "createCode")
       \/ pc[w] \in {"createCode", "redeem", "assign", "account", "complete"} /\ Goto(w, "fail")
       \/ pc[w] = "ledger" /\ Return(w, TRUE)
       \/ pc[w] = "fail" /\ Return(w, FALSE)
    /\ UNCHANGED <<orderVars, grantVars, outerVars, owner>>

\* The process dies, or the request is cut off, between two calls.
Crash(w) ==
    /\ pc[w] # "idle"
    /\ Fault
    /\ Return(w, FALSE)
    /\ UNCHANGED <<orderVars, grantVars, outerVars, owner>>

\* Five minutes pass without an UPDATE of the row.  It is a fault if the
\* holder of the lease is still at work.
Age ==
    /\ ~aged
    /\ StallAtReload \/ \A w \in Workers : pc[w] # "reload"
    /\ IF \E w \in Workers : w = owner /\ pc[w] \in {"reload"} \cup Granting
       THEN Fault
       ELSE UNCHANGED faults
    /\ aged' = TRUE
    /\ UNCHANGED <<status, paidAt, leased, grantVars, outerVars, acked, job, pc, owner>>

-----------------------------------------------------------------------------

Begin(w) ==
    \/ Webhook(w) \/ SimulateOrderPaid(w) \/ RetryFulfillment(w)
    \/ VerifyOrder(w) \/ CancelOrder(w) \/ ExpireTimedOutOrders(w)

Step(w) ==
    \/ QueryOrder(w) \/ PersistTradeNo(w) \/ CancelPayment(w) \/ CancelCas(w)
    \/ ConfirmPayment(w) \/ AlreadyProcessed(w) \/ LoadOrder(w)
    \/ AcquireLease(w) \/ ReloadLease(w)
    \/ LookupCode(w) \/ CreateCode(w) \/ Redeem(w) \/ AssignSubscription(w)
    \/ ApplyPostPaymentAccounting(w) \/ MarkCompleted(w)
    \/ RecordRechargeLedger(w) \/ MarkFailed(w)

Next ==
    \/ CreatePayment \/ SavePaymentDetails \/ FailCreation \/ UserPays
    \/ \E w \in Workers : Begin(w) \/ Step(w) \/ CallFails(w) \/ Crash(w)
    \/ Age

Spec == Init /\ [][Next]_vars

\* Workers run on and time passes.  The provider redelivers until it gets a
\* success response and the expiry job runs every minute; they are strongly
\* fair because the workers of this model are few, unlike goroutines.
FairSpec ==
    /\ Spec
    /\ \A w \in Workers : WF_vars(Step(w))
    /\ WF_vars(Age)
    /\ WF_vars(CreatePayment) /\ WF_vars(SavePaymentDetails) /\ WF_vars(FailCreation)
    /\ SF_vars(~acked /\ \E w \in Workers : Webhook(w))
    /\ SF_vars(\E w \in Workers : ExpireTimedOutOrders(w))

-----------------------------------------------------------------------------
(* Properties.                                                             *)

\* However many workers, takeovers, retries and crashes: the user is credited
\* at most once and the inviter's rebate is accrued at most once.
CreditedOnce == credited <= 1 /\ rebates <= 1

\* A COMPLETED order was credited, and its rebate was settled before.
CompletedIsGranted ==
    status = OrderStatusCompleted => credited = 1 /\ claimed

\* Nobody is credited unless the provider holds a payment that matches the
\* order or an admin declared it paid; an order that failed at creation, a
\* mismatching payment and a manual retry give nothing.
NoCreditWithoutPayment ==
    credited > 0 => upstream = "paid" \/ simulated

\* An order that was once paid is never pending, cancelled or expired again:
\* a cancellation or expiry that looked before the payment came loses.
PaidNotDropped == paidAt => status \notin Unpaid

\* Only the worker that acquired the lease last can write under it, unless
\* CreateOrder's failure overwrote the order.
LeaseFenced == creating # "failed" => leased \subseteq {owner}

\* Once CreateOrder is over, nothing in this module moves an order out of
\* COMPLETED: no stale worker's markFailed, no late cancellation.
CompletedStable ==
    [][status = OrderStatusCompleted /\ creating \in {"sent", "failed"}
       => status' = OrderStatusCompleted]_vars

Funded == upstream = "paid" \/ simulated

\* While CreateOrder is not over it may still overwrite the order's status.
Closed == status = OrderStatusCompleted /\ creating \in {"sent", "failed"}

Order == INSTANCE PaidOrder WITH
    funded <- Funded, credits <- credited, settled <- claimed, done <- Closed

\* Whatever webhooks, verifications, retries and takeovers do to one order, and
\* wherever they fail, together they do what PaidOrder says: payment, one credit,
\* one decision about the rebate, completion, in this order and none undone.
FulfilsOrder == Order!Spec

\* A payment the system has recorded and not yet acknowledged is fulfilled in
\* the end, after any finite number of faults.
PaidCompletes ==
    (paidAt /\ upstream = "paid" /\ ~acked) ~> (status = OrderStatusCompleted)
=============================================================================
