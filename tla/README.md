# TLA+ models of Sub2API (termrelay)

Sub2API is a gateway that shares AI-provider accounts among users: a Go server
(`src/backend`) on PostgreSQL and Redis, possibly several server processes on the
same two stores, and a Vue frontend. Users hold balances and subscriptions, buy
them through payment providers, and spend them on API calls that the gateway
relays. Nearly all coordination goes through conditional SQL updates and Redis
keys, without long transactions; a request can be cut off between any two of its
statements. That is what these modules model: each SQL statement, provider call or
committed transaction is one atomic step, and other workers, the clock, a crash or
a failing call may come between any two.

## 1. Inventory

Paths are below `src/backend/internal/`.

| Part | State it keeps | Operations | Hard behaviour | What makes it correct |
|---|---|---|---|---|
| Idempotency coordinator (`service/idempotency.go`, `repository/idempotency_repo.go`, `service/idempotency_cleanup_service.go`) | one row per (scope, key): fingerprint, status, lock time, expiry, response | `Execute`, the cleaner | requests race for the row; holder dies or outlives its timeout; the row is reclaimed or deleted under a holder | a replay belongs to its payload; executions of one key do not overlap; a dead holder's key is freed |
| System operation lock (`service/system_operation_lock_service.go`, used by `handler/admin/system_handler.go`) | one row of the same store, a renewal goroutine | `Acquire`, `renewLoop`, `Release` | lease renewal against takeover and late release | one update, rollback or restart at a time |
| Payment orders (`service/payment_fulfillment.go`, `payment_order_lifecycle.go`, `payment_order.go`, `payment_simulate.go`, `payment_order_expiry_service.go`, `handler/payment_webhook_handler.go`) | order row (status, paid_at, updated_at as lease version), audit rows | create, webhook, verify, cancel, expire, simulate, retry, fulfil | duplicate and late notifications, cancellation racing payment, takeover of a lease, crash between credit and completion | credited exactly once, only if paid, and in the end |
| Redeem codes (`service/redeem_service.go`) | code row | create, redeem | a commit reported as an error | a code is used once |
| Affiliate rebate, revenue split, balance ledger (`service/affiliate_service.go`, `revenue_split_service.go`, `balance_ledger_service.go`) | accruals, entries with unique keys | accrue, freeze, transfer, record | retried after partial failure | each order counted once |
| Refunds (`service/payment_refund.go`) | order status, audit rows, the user's balance or subscription, the refund at the provider | request, prepare, execute, query, finalise, roll back | status writes without condition, pending refunds finalised by two workers, rollback that fails | the balance deducted equals the money returned |
| Concurrency slots (`service/concurrency_service.go`, `repository/concurrency_cache.go`) | sorted sets and counters in Redis | acquire, release, wait, clean up | slots of dead processes, counters that expire | never above the limit, no slot lost for ever |
| Usage billing (`service/usage_billing.go`, `repository/usage_billing_repo.go`, `service/billing_cache_service.go`) | dedup rows, balances, cached balances | charge, write back, invalidate | charge and cache update interleave | one charge per request |
| Batch image jobs (`service/batch_image_*.go`) | job and item rows, a balance hold | submit, poll, settle, capture, release, recover | crash in settlement | a hold is captured or released exactly once |
| Scheduler snapshot and outbox (`service/scheduler_snapshot_service.go`, `repository/scheduler_outbox_repo.go`) | cached account lists with versions, watermark | rebuild, apply events, activate | events committed out of order, two rebuilders | a change is visible in the end |
| Account selection, pools, rate limits (`service/gateway_scheduling.go`, `account_pool_*.go`, `ratelimit_service.go`) | scores, breaker states, cool-downs | select, report, probe | half-open probes | a broken account recovers |
| OAuth token refresh (`service/oauth_refresh_api.go`, `token_refresh_service.go`) | tokens on the account row, locks | refresh | rotating refresh tokens used twice | one refresh at a time, no token overwritten by an older one |
| Leader lock (`service/leader_lock.go`) | Redis key or advisory lock | acquire, release | expiry under the holder | one leader |
| Subscriptions (`service/subscription_service.go`) | subscription rows, usage windows | assign, extend, reset, expire, revoke | concurrent resets | windows reset once |
| OpenAI WebSocket pool (`service/openai_ws_pool.go`) | connections, leases, waiters | lease, return, evict | waiters against limits | no leak, no starvation |
| API-key cache invalidation (`service/auth_cache_invalidation_outbox.go`) | outbox rows | write, deliver | at-least-once delivery | a revoked key stops working |
| Prompt audit (`securityaudit/`) | leased job queue | enqueue, claim, finish | lease expiry | every job finished once |
| Usage cleanup (`service/usage_cleanup_service.go`) | task rows | claim, delete in batches, cancel | takeover of stale tasks | |
| Sign-in, protocol conversion, monitoring, generated `ent` code, frontend | | | mostly data conversion and I/O | |

The parts meet in the database. `handler/admin` runs system operations under the
operation lock and, like the payment and redeem handlers, under `Execute`. The
webhook handler, user requests, the administrator's pages and the expiry job all
call `PaymentService`, which creates and redeems a code (`redeem_service`) or
assigns a subscription, then calls the affiliate, revenue-split and ledger services.

`PROJECT.json` lists the components with their status, and under `hazards` what is
hard to test in them, each at its line.

## 2. Modules

| Module | Models |
|---|---|
| `IdempotencyStore` | the six statements of `repository/idempotency_repo.go` as operators on one row |
| `Idempotency` | `IdempotencyCoordinator.Execute`, the clock and the cleaner |
| `SystemOperationLock` | `SystemOperationLockService` on the same store |
| `PaymentFulfillment` | the life of one order in `PaymentService` |
| `PaidOrder` | abstract specification: what a payment order promises |
| `PaymentRefund` | the refund of one completed balance order |
| `BatchImageJob` | one batch image job: `Submit`, `Cancel`, the stale recovery, the worker with its queue, lock, processor and settlement |
| `BalanceHold` | abstract specification: what a job promises about the money it freezes |
| `ConcurrencySlots` | the concurrency limit and the wait queue of one user across processes |
| `IdempotencyProofs`, `SystemOperationLockProofs`, `PaymentFulfillmentProofs`, `PaymentRefundProofs`, `BatchImageJobProofs`, `BatchImageHoldProofs`, `BatchImageQueueProofs`, `ConcurrencySlotsProofs` | theorems and proofs |
| `MC...` | instances for TLC |

`Idempotency` and `SystemOperationLock` are two clients of the operators of
`IdempotencyStore`, as the two services are of the one repository. `BatchImageJob`
implements `BalanceHold` (`Money == INSTANCE BalanceHold WITH hold <- Hold`, where `Hold`
reads the state of the hold off the dedup rows). `PaymentFulfillment` implements `PaidOrder`
(`Order == INSTANCE PaidOrder WITH ...`): an order is `Funded` when a matching payment or an
administrator's word exists, settled when the rebate claim is written, and `Closed` when it is
COMPLETED and `CreateOrder`, which writes the status without condition when it fails, is over.

### IdempotencyStore and Idempotency

A row is a record: `id` (0: no row; ids are never reused), `fp`
(request_fingerprint), `status`, `locked` (locked_until, 0: NULL), `expires`,
`body` (whose response is stored) and `whole` (whether it still parses after
redaction and truncation). The operators have the names of the repository's methods;
where a statement is an `UPDATE ... WHERE`, one operator is the WHERE clause
(`Reclaimable`, `Extendable`) and one the SET clause (`Reclaimed`, `Extended`).

Each member of `Requests` is one call of `Execute`, at a `pc` named after the store
call it makes next. `at[r]` is the `now` that `Execute` reads once at its start and
computes all its deadlines from. The actions follow the code:

| Action | Code |
|---|---|
| `ExecuteWithoutKey` | the empty key: refused, or executed unprotected in observe-only mode |
| `Begin` | fingerprint, `now`, deadlines |
| `Create` | `CreateProcessing`; the owner goes on to execute |
| `GetExisting`, `Refuse` | read the row: gone, other payload, expired, or the status switch (`Dispatch`) |
| `ReclaimExpired`, `ReclaimFailed` | `TryReclaim` that succeeds (`TakeOver`) or not (`LoseRace`) |
| `GetLatest` | the second read after a lost reclaim |
| `ExecuteBusiness`, `RecordSuccess`, `RecordFailure` | the operation and the mark by id |
| `StoreError`, `Crash` | an error of any store call; the end of the process or request |
| `Tick`, `Cleanup` | the clock; `DeleteExpired` |

One row is enough because no statement of the repository touches rows of two keys
except the cleaner, which treats each by its own expiry. What `execute` does is a
choice of success or failure. `overran` is a history variable: some request was still
holding the key at its `locked_until`. It is the condition under which the code
promises exclusion at all.

### SystemOperationLock

Each member of `Operations` is one update, rollback or restart. `Acquire` is three
steps (`Create`, `GetExisting`, `Reclaim`), and starts the renewal goroutine, whose
next tick is `due`. `Renew` is one round of `renewLoop`, `RenewError` a round whose
statement fails (tried again at the next tick), `Release` stops the goroutine and
marks the row; its error is ignored by the handler. `late` is a history variable:
a renewal failed, or `Acquire` took so long that its clock was stale.

### PaymentFulfillment

One order. `Workers` are the goroutines that serve it at the same time; a worker is
started for a `job` (webhook, simulation, retry, verification, cancellation, expiry)
and its `pc` is the call it makes next, in the order of the code:

    verify/cancel/expire:  query -> persist -> confirm      (found paid)
                           query -> close -> cancelCas      (not paid; cancel, expire)
    webhook/simulate:      confirm -> load                  (toPaid matched)
                           confirm -> already -> load       (it did not)
    retry:                 load
    then                   load -> acquire -> reload -> lookup -> createCode -> redeem
                              (subscription: assign) -> account -> complete -> ledger
    errors under the lease go to fail (markFailed)

The row's `updated_at` has two uses: the five-minute grace period and lease
duration, and the version that fences `markCompleted` and `markFailed`. The model
keeps these two facts: `aged` (at least five minutes old) and `leased` (the workers
whose version equals it). Every UPDATE clears both, because ent renews `updated_at`
on each. `code` is the redeem code of a balance order and, for a subscription order,
the audit row that `ensurePaymentSubscriptionAssigned` writes in the transaction of
the assignment.

Abstractions: an amount, a merchant and the metadata of a notification match the order or they do
not (`upstream` is `"paid"` or `"mispaid"`); `CallFails` is an error of any call without effect,
while an error after the commit is a branch of `Redeem` and `AssignSubscription`; `rebates` counts
the inviter's accruals. `ApplyPostPaymentAccounting` is the rebate (`ApplyAffiliateRebateForOrder`:
claim and accrual in one transaction) and then the revenue split, whose errors are only logged and
whose own unique key does for it what the claim does for the rebate. An installation without
affiliate service, and an order whose base amount is not positive, return before the claim and are
left out: with them `claimed` would say nothing. A user's redemption of the order's code by hand is
left out (the code is not shown). Refunds begin where this module ends, at COMPLETED.

### PaymentRefund

One completed balance order. `Workers` are administrators' requests, each a refund
(`PrepareRefund` and `ExecuteRefund`) or a finalisation (`QueryAndFinalizeRefund`):

    refund:    lock -> check -> deduct -> gateway -> markOk -> auditOk          (success)
                                          gateway -> rollback -> markPending -> auditPending
                                          gateway -> rollback -> restore        (error)
               rollback that fails: -> auditRollback -> gwFailed or markPending
    finalise:  detail -> query -> finCheck -> finDeduct -> markOk -> auditOk
                         query -> finFail

`plan[w]` is the `RefundPlan` with what the handlers keep beside it. The state is the
row's status, the three audit rows that the code reads back, `deducted` (the units
taken from the user for this order, net of rollbacks) and `gateway`, the refund at the
provider. Two writes of the status are conditional (`RequestRefund`, `Lock`); all the
others are `SetStatus`, which writes whatever it finds. `intruded` is a history variable:
a finalisation has written over a status other than REFUND_PENDING. `unguarded` is
another one (`LosesRecord`): the row REFUND_ROLLBACK_FAILED was not written or not found,
or a finalisation was cut off between its deduction and its status.

Abstractions: an amount is one unit or nothing (`Takes`), and a finalisation always deducts a whole
one, as `refundFinalizePlan` does; a refund is full or partial by choice; the provider knows one
refund per order: asked again it reports that one or refuses (`GwRefund`), it may accept a refund
whose answer is lost (`GwAnswerLost`), and it may answer the query of a finalisation with nothing or
with a status that the code does not know, which is finalised as a failure (`QueryAnswerUnknown`).
The unique index on (order, action) of the audit rows
(`migrations/131_affiliate_rebate_hardening.sql`) keeps the first REFUND_PENDING row, which
`AuditPending` models. The policy that computes amounts and the checks of permissions only read, and
are choices.

### BatchImageJob and BalanceHold

One job, from the moment its row is inserted. Five kinds of actors meet in the row
(`status`, `named`, `stale`, `verdict`, `retries`), in the user's money (`claims`, the
job's rows in `usage_billing_dedup`, and `frozen`), in the Redis queue (`ready`,
`delayed`, `active`, `inflight`), in the job lock and at the provider (`upstream`). Each
has a label that names its next call:

    Submit:     reserve -> items -> upload -> submit -> save -> enqueue
                undo / undoQuiet (release) -> fail;  undoFail -> undoRetry if the release failed
                abort (abortOrphanProviderJob) when the provider's job cannot be saved
    owner:      Cancel: cancelUpstream -> cancelEnqueue   (the job has a provider job)
                        cancel -> cancelRelease -> cancelRetry
                Submit repeated with its idempotency key: cancelEnqueue
    recovery:   recRelease -> recRetry
    worker:     lock -> read -> load -> get -> toRunning | toIndexing -> index -> toSettling
                                         | toFailed | toCancelled -> release
                read -> settle -> capture -> mark, or record -> exRelease -> exFail -> reread
                then ack or requeue, and unlock

A worker reads the row twice before it acts (pipeline and provider processor), and acts
by statements that check only the present status; Submit's failure record checks
nothing. Time is three facts: the row is `stale`, the entry in the active set is old
(`RecoverStaleActive`), the lock's key has expired (`LockExpires`). While the actor that
renews them lives they need a stall, which is a fault.

`FaultAt` and `CrashAt` name the calls that may fail and the labels at which a process
may die; `Races` names three interleavings that the code does not exclude and that break
the promises about money (below): `earlyCancel` (Cancel before the reservation),
`staleCancel` (Cancel acts on a row read before Submit saved the provider's job), `stall`
(an actor outlives its lease). All three are on in the run `batch_image` and in its
theorems.

Abstractions: `frozen_balance` is counted in holds of this job's size, `Others` of them
belonging to the user's other jobs; a hold of amount zero, for which the code skips the
bookings, is left out; `verdict` stands for all checks of `Settle` on counts, manifest, price
and hold; hiding or deleting an ended job from the user's list is left out, so Cancel may come
at any time; the seven days after which the `inflight` key expires by itself are longer than any
behaviour considered; usage logs, events and the items' rows are not kept.

### ConcurrencySlots

One user; `Requests` of two kinds, ordinary ones and Live calls (`Calls`), served by
`Processes` on one Redis. The state is the user's two sorted sets (`slot`, `lease`: the
time left of each member, expired members staying until a script removes them), the wait
counter with its TTL, and where each request is:

    ordinary:  idle -> serve                                   (a slot at once)
               idle -> enqueue -> wait -> got -> serve         (after waiting)
                                  wait -> leave -> done        (deadline, client gone, error)
               serve -> done, or serve -> adrift -> done       (the client goes first)
    Live:      idle -> lease -> dial -> handover -> live -> done
                                        handover, live -> adrift   (its process or controller is gone)

One action is one Lua script or command with the Go code around it. A request is
`Attended` while a client waits for it or a controller watches its call, and these are the
requests that the limit is about. The end of the attention and the end of the work are two
steps: when the client of an ordinary request goes, `wrapReleaseOnDone` releases the slot at
once (`Disconnect`) and the handler reads the provider's answer to its end on a detached
context, uncounted (`adrift`, until `RunOut`); a Live call whose process dies (`Crash`), or
whose lease cannot be refreshed (`Refresh`), is not closed at the provider either. How many
requests are adrift is bounded by nothing, and `LimitKept` says nothing about them.

`lost` and `miscounted` are history variables: an attended request's member expired or was
swept, a waiting request was never counted or its count was dropped. The code has no means
against either, so the two bounds are promised only without them; `lost` becomes true
exactly where the member is taken away. What is left for `LimitKept` to check is that
acquisition across processes, both kinds of members, the handover from slot to lease, failed
calls that may have had their effect and crashes never admit one attended request too many.

Abstractions: the active index is a best-effort cache of which users have members and only decides
whether a cleanup finds the user, which is a choice; accounts have the same scripts; every attempt
of a Live call has a lease id of its own in the code, while here the next attempt's lease takes the
place of one that could not be released, so a leftover lease counts against the user for less time
than it may; slots of API keys are statistics; leases of WebSocket ingress sessions, and the
hand-over of a Live call's controller to another process, are left out.

## 3. What is checked

All runs check TLC's complete state space within the bounds. Deadlock is checked in
`slots`; elsewhere it is off because requests, operations, jobs and the bounded clock do
come to an end.

| Run | Checks | Bounds |
|---|---|---|
| `idempotency` | `TypeOK`, `ReplaySound`, `ExclusiveExecution` | 3 requests, 2 fingerprints, TTL 2, timeout 1, clock to 4, 2 ticks of stall before the claim |
| `idempotency_live` | `OrphanFreed` | 2 requests, no bound on stalls but the clock |
| `system_lock` | `TypeOK`, `CreatorKeepsLock` | 3 operations, 2 operation ids, lease 2, renewal 1, TTL 3, clock to 4 |
| `payment` | `TypeOK`, `CreditedOnce`, `CompletedIsGranted`, `NoCreditWithoutPayment`, `PaidNotDropped`, `LeaseFenced`, `CompletedStable`, `FulfilsOrder` | 2 workers, both kinds of order, 2 faults |
| `payment_live` | `PaidCompletes` | 2 workers, 1 fault |
| `refund` | `TypeOK`, `RefundBacked`, `RefundExclusive`, `NeverOvercredited`, `RetryDeductsOnce` | 2 requests at a time, 2 faults at any call |
| `refund_sequential` | `RefundedIsDeducted`, `RefundingEnds` | 1 request at a time, 3 faults, none in the rollback or in the status writes, no crash in REFUNDING |
| `refund_double` | violation of `DeductedOnce` | 1 request and 1 failed rollback |
| `batch_image` | `TypeOK`, `CompletedIsCaptured`, `ReleasedIsOver`, `EndedIsFinal` | 2 workers, 2 retries, 3 faults at any call or label, all races |
| `batch_image_hold` | `Tracked`, `RefundStopsUpstream`, `HoldSafely`, `HoldSettled`, `JobEnds` | 2 workers, 4 retries, 3 faults, with the exclusions below |
| `batch_image_cancel` | violation of `RefundStopsUpstream` | 1 worker, no fault, `staleCancel` |
| `slots` | `TypeOK`, `LimitKept`, `QueueBounded`, `WaiterServed`, `QueueReopens` | 2 requests and a Live call on 2 processes, limit 1, queue of 1, 1 fault |

Why the bounds are enough to be interesting. Three requests are a holder, one that
takes over, and one that replays what either stored; with a clock of two TTLs a row is
created, expires, is reclaimed or deleted and created again. Three operations are a
former holder, the present one and a rival. Workers of the payment model are reused
without limit, so two of them give every number of deliveries and retries, at most two
at a time; the faults bound only crashes, failing calls and overrun leases, and two
allow one during the grant and one during the repair. Refund requests are reused in the
same way; `MaxDeducted` stops new ones once two units are deducted, one more than is right.
Two workers of a batch job are one that holds the lock or has lost it and one that takes
over; three faults allow, for instance, a crash, the stall that lets somebody else in
and a lost answer. With a limit and a queue of one, three requests fill both and leave
one to be refused. For all safety properties of the passing runs the theorems below remove the
bounds; where a run excludes faults or races because the property does not survive them,
its theorem has the exclusion as a named hypothesis. Refunds one after the other are such a
case: the status writes of two overlapping requests are not ordered by anything (see the
weaknesses below), and `RefundedIsDeducted` does not survive that. What is promised of a deduction
when requests overlap and the rollback fails is `RetryDeductsOnce`, in the run `refund`: a
retry does not deduct on top of a deduction that stands. It is a promise about `ExecuteRefund`; the
finalisation breaks the stronger one, which is the finding `refund_double`.

What `batch_image_hold` leaves out, and why. Each item really breaks the property named,
which is how it was found; the list is part of the result.

| Left out | Breaks |
|---|---|
| race `earlyCancel`, race `stall` | `HoldSafely` |
| race `staleCancel` | `RefundStopsUpstream` (run `batch_image_cancel`) |
| fault `reserveLost`: the reservation is committed and its answer lost | `HoldSettled`: a failed reserve is not undone |
| fault `submitLost`, fault or crash at `abort`, crash at `save` | `RefundStopsUpstream`: nobody knows the provider's job |
| fault or crash at `enqueue` | `Tracked`: the job waits for a repeated Submit |
| crash at `cancelRelease`, `recRelease` or one of the `...Retry` labels, faults at the latter | `HoldSettled`: the job has ended and nobody comes back for its hold |
| as many faults as retries | `HoldSafely`: a capture whose answer is lost, then a release after the last retry |

Fairness. `Idempotency`'s `FairSpec` is weakly fair to the clock and to the cleaner,
which is a ticker loop of the server; requests may hang for ever. `PaymentFulfillment`'s
`FairSpec` lets every started worker and `CreateOrder` go on and time pass. It is
strongly fair to the webhook until the provider gets a success response (providers
redeliver, and the handler returns an error status whenever `HandlePaymentNotification`
does) and to the expiry job, which runs every minute; strong rather than weak only
because the two workers of the model may both be busy, which goroutines never are.
Nothing is assumed of users, administrators or of the choice between outcomes.
`PaidCompletes` is checked with `ReadErrors = FALSE`: `confirmPayment` and
`alreadyProcessed` report success when their read of the order fails, so that the
provider stops redelivering; with such errors a recorded payment does wait for an
administrator. `PaymentRefund`'s `FairSpec` only lets a request that was started go on; nobody
has to start one and the provider need not decide. `RefundingEnds` is checked without
crashes and failing status writes: after one the order does stay in REFUNDING, which no
operation accepts. In `BatchImageJob` started requests and workers go on, the loops of
`BatchImageWorkerRuntime` (delayed mover, stale recoveries) run, keys expire and rows grow
old, and the provider ends every batch in one way or another; the owner need not do
anything. All of it is weak fairness. An output that the provider never delivers is a
fault of `index`, of which there are finitely many: the code retries it without bound.
In `ConcurrencySlots` a running handler goes on and time passes; nobody gives up
waiting, so `WaiterServed` says that a request is served, or leaves on an error, without its deadline.

### Findings

Each is a run whose property, taken from a comment of the code, TLC finds violated.

- **A refund can be deducted twice** (`refund_double`). A rollback fails and is recorded; the retry
  skips the deduction as intended, the provider leaves it pending, and because this
  attempt has nothing to roll back the pending row says that the rollback succeeded. The
  finalisation then deducts again.
- **A cancelled batch job can go on at the provider** (`batch_image_cancel`). Cancel reads the job
  before `provider_job_name` is written and so takes the path of an unsubmitted job. Submit saves the
  provider's job; `submitted -> cancelled` is a legal transition, so Cancel's update succeeds
  and the hold is released, while the provider's batch is neither cancelled nor polled. The
  recovery guards against this case with a condition in its UPDATE; Cancel does not.

### Weaknesses met while modelling, without a run of their own

Idempotency and system lock:

- An expired key can be executed twice. `TryReclaim` asks for id, status and lock, not for
  `expires_at`. Of two requests that both read an expired succeeded row, one reclaims,
  executes and marks it succeeded; the other's update then matches the new row as well.
- A reclaimed system lock is not renewed. `TryReclaim` leaves the former fingerprint in
  the row and `ExtendProcessingLock` asks for the new one, so the renewal goroutine ends at its
  first tick and the lease lapses under the running operation. Only the operation that inserted
  the row keeps it (`CreatorKeepsLock`); after the first operation ever, every `Acquire` within the
  row's TTL is a reclaim.

Payments and refunds:

- A payment made in time can be lost to the expiry job: it falls between the provider query
  and the write of EXPIRED, and the callback comes after the grace period and is acknowledged
  without effect. A verification by the user still finds the payment, but `toPaid` refuses it,
  unless writing the trade number has just renewed `updated_at`.
- A finalisation overwrites a running refund. REFUND_PENDING is checked before the provider is
  queried and the result is written by id alone, so an order that was retried meanwhile goes from
  REFUNDING to REFUND_FAILED under the running execution, and can be locked a second time.
- The deductions of a refund are kept apart by records that are written and read on a best-effort
  basis. If REFUND_ROLLBACK_FAILED cannot be written, or the count that looks for it fails (an
  error reads as "no such row"), the retry deducts a second time. So does whoever comes after a
  finalisation that has deducted and could not write REFUNDED: the order is still REFUND_PENDING.
- A finalisation takes an answer it does not understand, or none, for a refusal, and writes
  REFUND_FAILED while the provider may yet pay the money back.
- A worker that stalls for five minutes between claiming its lease and reading the version
  back adopts the version of the worker that took over; `LeaseFenced` therefore assumes
  `StallAtReload = FALSE`, while `CreditedOnce` and the other theorems do without.
- A failed balance-ledger entry is not made up for by a retry, since every retry returns early
  once the order is COMPLETED.

Batch image jobs, besides the table above:

- Cancel between the insert and the reservation: its release finds no hold, moves nothing and
  still claims the release id. The reservation then freezes the money, and every later release is
  a duplicate.
- A capture that was committed with its answer lost, followed by as many other failures as there
  are retries, ends in a release: it finds the hold's row and no release, and gives back money that
  other jobs have frozen.
- A worker that stalls past its lock acknowledges the job when it wakes up, and removes the delayed
  entry of the worker that replaced it.
- `RecordBatchImageJobSubmitFailure` writes `failed` over `cancelled`.

Concurrency slots:

- A starting process removes the slots and wait counts of every other running process, whose
  requests then go uncounted.
- A slot is released when its client disconnects, not when the work is done: the provider's answer
  is drained uncounted, so more requests than the limit can be running upstream.
- A Live call goes on at the provider when its process dies or its lease is lost, and is then
  counted until the lease expires, or not at all.
- A slot is never refreshed: a request longer than the slot TTL is not counted any more.
- `IncrementWaitCount` lets a request wait when Redis fails, and its later decrement takes away
  somebody else's count.
- The counter of requests that died in the queue is kept alive by the traffic of the others,
  each increment renewing its TTL; `QueueReopens` holds because a full queue increments nothing.
- Two Live calls created at once at the limit refuse each other, since each counts the other's slot
  and lease.

## 4. What is proved

TLAPS proves, for every value of the constants that satisfies the named assumptions
(`IdempotencyAssumption`, the system lock's `LockAssumption`, `PaymentAssumption`, `RefundAssumption`,
`BatchAssumption`, `SlotsAssumption`: sorts of the constants, a positive
processing timeout not above the TTL, marker values not among the names):

| Theorem | Statement |
|---|---|
| `IdempotencyProofs!TypeCorrect` | `Spec => []TypeOK` |
| `IdempotencyProofs!ReplayCorrect` | `Spec => []ReplaySound` |
| `IdempotencyProofs!ExecutionExclusive` | `Spec => []ExclusiveExecution` |
| `PaymentFulfillmentProofs!TypeCorrect` | `Spec => []TypeOK` |
| `PaymentFulfillmentProofs!CreditCorrect` | `Spec => []CreditedOnce` |
| `PaymentFulfillmentProofs!CompletionCorrect` | `Spec => []CompletedIsGranted` |
| `PaymentFulfillmentProofs!PaymentBacked` | `Spec => []NoCreditWithoutPayment` |
| `PaymentFulfillmentProofs!PaidKept` | `Spec => []PaidNotDropped` |
| `PaymentFulfillmentProofs!LeaseCorrect` | `~StallAtReload` implies `Spec => []LeaseFenced` |
| `PaymentFulfillmentProofs!CompletionFinal` | `Spec => CompletedStable` |
| `PaymentFulfillmentProofs!OrderFulfilled` | `Spec => FulfilsOrder` |
| `PaymentRefundProofs!TypeCorrect` | `Spec => []TypeOK` |
| `PaymentRefundProofs!BackingCorrect` | `Spec => []RefundBacked` |
| `PaymentRefundProofs!ExclusionCorrect` | `Spec => []RefundExclusive` |
| `PaymentRefundProofs!RollbackBounded` | `Spec => []NeverOvercredited` |
| `PaymentRefundProofs!RetryCorrect` | `Spec => RetryDeductsOnce` |
| `PaymentRefundProofs!RefundCostsOnce` | `Sequential` implies `Spec => []RefundedIsDeducted` |
| `SystemOperationLockProofs!TypeCorrect` | `Spec => []TypeOK` |
| `SystemOperationLockProofs!CreatorKeeps` | `Spec => CreatorKeepsLock` |
| `BatchImageJobProofs!TypeCorrect` | `Spec => []TypeOK` |
| `BatchImageJobProofs!Captured` | `Spec => []CompletedIsCaptured` |
| `BatchImageJobProofs!Released` | `Spec => []ReleasedIsOver` |
| `BatchImageJobProofs!Ended` | `Spec => EndedIsFinal` |
| `BatchImageHoldProofs!HoldSafe` | `Regular` implies `Spec => HoldSafely` |
| `BatchImageQueueProofs!StaysTracked` | `Queued` implies `Spec => []Tracked` |
| `BatchImageQueueProofs!RefundAfterUpstream` | `Attended` implies `Spec => []RefundStopsUpstream` |
| `ConcurrencySlotsProofs!TypeCorrect` | `Spec => []TypeOK` |
| `ConcurrencySlotsProofs!Limited` | `Spec => []LimitKept` |
| `ConcurrencySlotsProofs!QueueLimited` | `Spec => []QueueBounded` |

Five theorems hold only where some faults or races are left out. Each hypothesis is about
the constants that say what may happen, is satisfied by the run of its property, and names
what really breaks it:

| Hypothesis | Leaves out | Without it |
|---|---|---|
| `Sequential` | two requests on one order at a time (`Alone`); plans without deduction; a failing rollback; a failing write of REFUNDED, or a crash at it | an order is refunded without a deduction, as that plan asks; the order of `refund_double` is deducted twice; a finalisation whose write of REFUNDED is lost is repeated with a second deduction |
| `Heartbeats` | a worker or Submit that outlives its lease | a woken worker acknowledges the job of its successor |
| `Queued` | besides: a fault or crash at the `Enqueue` after a saved submission | a submitted job is in no queue until Submit is repeated |
| `Attended` | a Cancel that acts on a row read before the save; a lost answer of the submission; a failing abort; a crash at the save or the abort | a batch runs at the provider that no row names |
| `Regular` | besides `Heartbeats`: Cancel before the reservation; as many faults as retries | a hold frozen after its release, or a captured job released |
| `~StallAtReload` | a worker that stalls a whole lease between claim and read-back | it adopts its successor's version |

**Idempotency.** `ReplaySound` is about what a request once returned; it is inductive
only together with what makes the stored response right: ids are fresh
(`IdsFresh`), a row's fingerprint never changes under its id (`FingerprintStable`), whoever is about to
reclaim or holds a row has the row's fingerprint (`ClaimantMatches`), and a succeeded row holds
the body of a successful execution of its fingerprint (`StoredSound`). The marks by id
alone are harmless for this reason: a late holder marks a row of its own
fingerprint, or one that no longer exists. `ExclusiveExecution` needs `LeaseHeld`: while
nobody overran, the row carries the exact deadlines of whoever executes, so that
neither a reclaim nor the cleaner can touch it (this is where `ProcessingTimeout <= TTL`
is used).

**PaymentFulfillment.** `IInv` says what a worker at each step may rely on without a lock:
the code counts the credits (`Counted`); a worker past the grant or the accounting has seen
facts that stay true (`GrantedByStep`); a worker past `confirmPayment`, and `paid_at`, stand
for a payment (`PaidByStep`). None of this uses the lease, which is why takeovers
and stale workers cannot credit twice. The lease matters for `LeaseFenced`
alone; `ClaimHolds` carries it through the step between claim and read-back.
`OrderFulfilled` shows from `IInv` that each action is one step of `PaidOrder` or leaves what
it speaks of alone (`Silent`): `OuterRefines` for `CreateOrder`, the payer and the clock (its
end may complete an order whose completion came first), `EdgeRefines` for starts and ends of
workers, `ConfirmingRefines` up to the grant, `GrantingRefines` for grant, accounting
and completion. The order of the steps is what the invariants alone do not say: the rebate is never
decided before the credit, and not twice although two workers may both account.

**PaymentRefund.** `RefundBacked` rests on two facts: a refund that is paid or registered stays so
(`BackingStable`), and whoever is at `finCheck`, `finDeduct` or `markOk` has seen it
(`BackedByStep`). `RefundExclusive` needs `LockHeld`: while no finalisation has intruded, a worker
inside `ExecuteRefund` means that the status is REFUNDING, which no conditional write
accepts; `JobByStep` says that every other status write comes from that worker itself or from a
finalisation. For `NeverOvercredited` the workers that may still roll back (`Owing`) are counted:
there are never more of them than units deducted (`OwingCovered`), so no interleaving of
stale plans gives back more than was taken. The bounds on faults and requests play no part.

`RetryCorrect` needs no hypothesis: requests overlap, retry and finalise, and every call may fail, the
rollback included. Its invariant `GuardHeld` says that whenever the order can be refunded (again), no
deduction stands or the row REFUND_ROLLBACK_FAILED tells of it (`NoneStands`), and what stands
deducted at each call of the execution under way (`StandsByStep`). `RefundExclusive` is used for
it: the deduction belongs to that one execution. It is suspended while a finalisation is about to
write its status (`Finishing`), since that deducts by a rule of its own, and comes back once the order is
refunded (`FinishedGuards`). What ends it for good is named by `intruded` and `unguarded`.

`RefundCostsOnce` is about requests that do not overlap and needs an exact account of the deduction:
`DeductedByStatus` (nothing stands deducted while the order can be refunded, one unit once it
is) and `DeductedByStep` (what stands deducted at each call of the one request). Every call
that `Sequential` does not name may fail and every other step may be the last one, so a crash in
the middle leaves the order in REFUNDING for ever but never deducted twice.

**SystemOperationLock.** `LockInv` adds to the types that rows and operations are identified
(`Identified`), that ids and clock readings are ordered (`OrderInv`), and that while the
operation that inserted the row holds it and no renewal was late (`OwnInv`) the row is its own and
processing, no other holder has the row's id, and lease and expiry lie behind the next
renewal. Reclaim and cleaner are then disabled, and the marks of former holders miss the row.

**BatchImageJob.** `JobInv` says what each actor has behind it: whatever the provider has to do with the
job needs its name (`SubmittedInv`), whoever moves money for a job that has left Submit has seen it
settling or ended, and so it still is (`PastInv`), at `mark` the capture is booked (`CapturedInv`), and a
released hold is not that of a job with which Submit still goes on (`ReleasedInv`). All
races and any number of workers are allowed: none of this uses the lock.

**BatchImageHoldProofs** shows the refinement of `BalanceHold`'s safety: the initial state maps to its
initial state and every step to a step or a stutter. It assumes `Regular`: no early Cancel, no stall,
and fewer faults than retries. `HInv` has five parts: before the reservation nobody else acts
(`StartInv`); a worker at work holds the lock (`LockInv`); who releases, captures or fetches results does so
for a job in the state it saw (`PlaceInv`, which needs the lock); the failures of a chargeable job are
paid for by faults (`CountInv`), so that a captured job never exhausts its retries; and the
balance says what the dedup rows say, which are never of both kinds (`HoldInv`).

**BatchImageQueueProofs.** `StaysTracked`: besides `LockInv` and `PlaceInv` it needs that the `inflight` key,
which keeps `Enqueue` from pushing, stands for an entry (`InflightInv`: an `Enqueue` that does nothing is
harmless), and that whoever acknowledges knows the job to have ended (`AckInv`); `QueueSteps` shows
that only an acknowledgement removes the last entry. Early and stale Cancels and any number of
faults are allowed. `RefundAfterUpstream` uses no lock: `BatchInv` says that a batch without a
saved name is in the hands of Submit, and that a saved job that has left `submitted` and `running`
has seen its batch end; `OutcomeInv` that whoever writes an outcome has read one. Stalled workers
and all other races are allowed.

**ConcurrencySlots.** `HeldInv`: while nothing was lost each attended request has an unexpired
member; `CountInv`: the requests that are members of either set are at most `Max`, though a call in
its handover is a member of both and counted twice by the scripts. A request that is adrift may or
may not be a member; it has no place in `HeldInv`, which is why the theorem does not bound it.
`WaitInv`: the counter stays within the limit and, while nothing was miscounted, is at least the
number that still has to decrement it. Crashes only leave members and counts without a request.

Only model-checked: the liveness properties (`OrphanFreed`, `PaidCompletes`, `RefundingEnds`,
`HoldSettled`, `JobEnds`, `WaiterServed`, `QueueReopens`), which are outside the prover's reach: it has no
rule for fairness or ENABLED.

## 5. Not modelled, and the plan

Not modelled: data conversion between provider protocols, streaming, monitoring, generated
code, the frontend; prices, fees, currencies; signatures of notifications; subscription
refunds. `PROJECT.json` gives the reason for each component. Most of the repository's lines are
generated data access, conversion and user interface, which keep no state of their own
that a model would say anything about; the models cover the parts that coordinate.

Order of further work:

1. Subscription refunds in `PaymentRefund`: days taken and given back, revocation; limits
   over several orders of one user.
2. `UsageBilling`: deduplicated charge, balance cache and write-back; theorem: at most one
   charge per request.
3. `SchedulerOutbox`: watermark and rebuild; a change becomes visible.
4. `TokenRefresh` and `LeaderLock`.
5. Proofs: an abstract specification of the idempotent execution of one key, and of the slots of
   one user, with refinements like those of `PaidOrder` and `BalanceHold`.
