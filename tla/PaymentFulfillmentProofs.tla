---------------------- MODULE PaymentFulfillmentProofs ----------------------
(***************************************************************************)
(* Proofs about PaymentFulfillment, for any set of workers, any number of  *)
(* faults and both kinds of order.  IInv is the inductive invariant; its   *)
(* parts say what a worker at a given step may rely on without holding any *)
(* lock.                                                                   *)
(***************************************************************************)
EXTENDS PaymentFulfillment, TLAPS

Paid == upstream = "paid" \/ simulated

\* The redeem code (the assignment audit) counts the credits, the claim the
\* rebates.
Counted ==
    /\ credited = IF code = "used" THEN 1 ELSE 0
    /\ rebates <= 1
    /\ ~claimed => rebates = 0

\* What a worker past the grant, or past the accounting, has seen done stays
\* done, lease or no lease.
GrantedByStep ==
    /\ \A w \in Workers : pc[w] = "account" => code = "used"
    /\ \A w \in Workers : pc[w] \in {"complete", "ledger"} => code = "used" /\ claimed
    /\ status = OrderStatusCompleted => code = "used" /\ claimed

\* A worker past confirmPayment, and the paid_at it leaves behind, stand for a
\* payment.
PaidByStep ==
    /\ \A w \in Workers : job[w] = "simulate" => simulated
    /\ \A w \in Workers : pc[w] \in Leasing \cup Granting => Paid
    /\ paidAt => Paid
    /\ code = "used" => Paid
    /\ creating = "invoke" => upstream = "none"

\* Between the claim of the lease and the read of its version the row stays as
\* the claim left it.
ClaimHolds ==
    creating # "failed" =>
        /\ leased \subseteq {owner}
        /\ \A w \in Workers : pc[w] = "reload" =>
               w = owner /\ ~aged /\ status = OrderStatusRecharging

\* The parts of TypeOK that most steps touch, to keep the leaves small.
RowTypes ==
    /\ kind \in Kinds
    /\ status \in Statuses
    /\ paidAt \in BOOLEAN /\ aged \in BOOLEAN
    /\ leased \subseteq Workers
    /\ owner \in Workers \cup {NoWorker}

WorkerTypes ==
    /\ job \in [Workers -> Jobs]
    /\ acked \in BOOLEAN
    /\ pc \in [Workers -> {"idle"} \cup Confirming \cup Leasing \cup Granting]

IInv ==
    /\ TypeOK
    /\ Counted
    /\ GrantedByStep
    /\ PaidByStep
    /\ PaidNotDropped

\* The row createOrderInTx inserts satisfies IInv.
LEMMA InitIInv == Init => IInv
<1> SUFFICES ASSUME Init PROVE IInv
  OBVIOUS
<1> USE PaymentAssumption DEF Init, Statuses, Unpaid, Jobs, OrderStatusPending, OrderStatusCompleted
<1>1. TypeOK
  <2>1. RowTypes
    BY DEF RowTypes
  <2>2. WorkerTypes
    BY DEF WorkerTypes
  <2>3. credited \in Nat /\ rebates \in Nat /\ faults \in 0..MaxFaults
    OBVIOUS
  <2>4. claimed \in BOOLEAN /\ ledger \in BOOLEAN /\ simulated \in BOOLEAN
    OBVIOUS
  <2> QED BY <2>1, <2>2, <2>3, <2>4 DEF TypeOK, RowTypes, WorkerTypes
<1>2. Counted /\ PaidNotDropped
  BY DEF Counted, PaidNotDropped
<1>3. GrantedByStep
  BY DEF GrantedByStep
<1>4. PaidByStep
  BY DEF PaidByStep, Leasing, Granting
<1> QED BY <1>1, <1>2, <1>3, <1>4 DEF IInv

\* Every call of every worker, every fault and the passing of time keep IInv.
LEMMA NextIInv == IInv /\ [Next]_vars => IInv'
<1> SUFFICES ASSUME IInv, [Next]_vars PROVE IInv'
  OBVIOUS
<1> USE PaymentAssumption DEF Statuses, Unpaid, Jobs, Confirming, Leasing, Granting, OrderStatusPending, OrderStatusPaid, OrderStatusRecharging, OrderStatusCompleted, OrderStatusExpired, OrderStatusCancelled, OrderStatusFailed, orderVars, grantVars, outerVars
<1>1. CASE CreatePayment
  <2>1. TypeOK'
    BY <1>1 DEF IInv, TypeOK, CreatePayment, Fault
  <2>2. Counted'
    BY <1>1 DEF IInv, TypeOK, Counted, CreatePayment, Fault
  <2>3. GrantedByStep'
    BY <1>1 DEF IInv, TypeOK, Counted, GrantedByStep, CreatePayment, Fault
  <2>4. PaidByStep'
    BY <1>1 DEF IInv, TypeOK, PaidByStep, Paid, Counted, CreatePayment, Fault
  <2>5. PaidNotDropped'
    BY <1>1 DEF IInv, TypeOK, PaidNotDropped, PaidByStep, CreatePayment, Fault
  <2> QED BY <2>1, <2>2, <2>3, <2>4, <2>5 DEF IInv
<1>2. CASE SavePaymentDetails
  <2>1. TypeOK'
    <3>1. RowTypes'
      BY <1>2 DEF IInv, TypeOK, RowTypes, SavePaymentDetails, Fault, Update
    <3>2. WorkerTypes'
      BY <1>2 DEF IInv, TypeOK, WorkerTypes, SavePaymentDetails, Fault, Update
    <3> QED BY <1>2, <3>1, <3>2 DEF IInv, TypeOK, RowTypes, WorkerTypes, SavePaymentDetails, Fault, Update
  <2>2. Counted'
    BY <1>2 DEF IInv, TypeOK, Counted, SavePaymentDetails, Fault, Update
  <2>3. GrantedByStep'
    BY <1>2 DEF IInv, TypeOK, Counted, GrantedByStep, SavePaymentDetails, Fault, Update
  <2>4. PaidByStep'
    BY <1>2 DEF IInv, TypeOK, PaidByStep, Paid, Counted, SavePaymentDetails, Fault, Update
  <2>5. PaidNotDropped'
    BY <1>2 DEF IInv, TypeOK, PaidNotDropped, PaidByStep, SavePaymentDetails, Fault, Update
  <2> QED BY <2>1, <2>2, <2>3, <2>4, <2>5 DEF IInv
<1>3. CASE FailCreation
  <2>1. TypeOK'
    <3>1. RowTypes'
      BY <1>3 DEF IInv, TypeOK, RowTypes, FailCreation, Update
    <3>2. WorkerTypes'
      BY <1>3 DEF IInv, TypeOK, WorkerTypes, FailCreation, Update
    <3> QED BY <1>3, <3>1, <3>2 DEF IInv, TypeOK, RowTypes, WorkerTypes, FailCreation, Update
  <2>2. Counted'
    BY <1>3 DEF IInv, TypeOK, Counted, FailCreation, Update
  <2>3. GrantedByStep'
    BY <1>3 DEF IInv, TypeOK, Counted, GrantedByStep, FailCreation, Update
  <2>4. PaidByStep'
    BY <1>3 DEF IInv, TypeOK, PaidByStep, Paid, Counted, FailCreation, Update
  <2>5. PaidNotDropped'
    BY <1>3 DEF IInv, TypeOK, PaidNotDropped, PaidByStep, FailCreation, Update
  <2> QED BY <2>1, <2>2, <2>3, <2>4, <2>5 DEF IInv
<1>4. CASE UserPays
  <2>1. TypeOK'
    BY <1>4 DEF IInv, TypeOK, UserPays
  <2>2. Counted'
    BY <1>4 DEF IInv, TypeOK, Counted, UserPays
  <2>3. GrantedByStep'
    BY <1>4 DEF IInv, TypeOK, Counted, GrantedByStep, UserPays
  <2>4. PaidByStep'
    BY <1>4 DEF IInv, TypeOK, PaidByStep, Paid, Counted, UserPays
  <2>5. PaidNotDropped'
    BY <1>4 DEF IInv, TypeOK, PaidNotDropped, PaidByStep, UserPays
  <2> QED BY <2>1, <2>2, <2>3, <2>4, <2>5 DEF IInv
<1>5. CASE Age
  <2>1. TypeOK'
    BY <1>5 DEF IInv, TypeOK, Age, Fault
  <2>2. Counted'
    BY <1>5 DEF IInv, TypeOK, Counted, Age, Fault
  <2>3. GrantedByStep'
    BY <1>5 DEF IInv, TypeOK, Counted, GrantedByStep, Age, Fault
  <2>4. PaidByStep'
    BY <1>5 DEF IInv, TypeOK, PaidByStep, Paid, Counted, Age, Fault
  <2>5. PaidNotDropped'
    BY <1>5 DEF IInv, TypeOK, PaidNotDropped, PaidByStep, Age, Fault
  <2> QED BY <2>1, <2>2, <2>3, <2>4, <2>5 DEF IInv
<1>6. ASSUME NEW w \in Workers, Webhook(w) PROVE IInv'
  <2>1. TypeOK'
    BY <1>6 DEF IInv, TypeOK, Webhook, Start
  <2>2. Counted'
    BY <1>6 DEF IInv, TypeOK, Counted, Webhook, Start
  <2>3. GrantedByStep'
    BY <1>6 DEF IInv, TypeOK, Counted, GrantedByStep, Webhook, Start
  <2>4. PaidByStep'
    BY <1>6 DEF IInv, TypeOK, PaidByStep, Paid, Counted, Webhook, Start
  <2>5. PaidNotDropped'
    BY <1>6 DEF IInv, TypeOK, PaidNotDropped, PaidByStep, Webhook, Start
  <2> QED BY <2>1, <2>2, <2>3, <2>4, <2>5 DEF IInv
<1>7. ASSUME NEW w \in Workers, SimulateOrderPaid(w) PROVE IInv'
  <2>1. TypeOK'
    BY <1>7 DEF IInv, TypeOK, SimulateOrderPaid, Start
  <2>2. Counted'
    BY <1>7 DEF IInv, TypeOK, Counted, SimulateOrderPaid, Start
  <2>3. GrantedByStep'
    BY <1>7 DEF IInv, TypeOK, Counted, GrantedByStep, SimulateOrderPaid, Start
  <2>4. PaidByStep'
    BY <1>7 DEF IInv, TypeOK, PaidByStep, Paid, Counted, SimulateOrderPaid, Start
  <2>5. PaidNotDropped'
    BY <1>7 DEF IInv, TypeOK, PaidNotDropped, PaidByStep, SimulateOrderPaid, Start
  <2> QED BY <2>1, <2>2, <2>3, <2>4, <2>5 DEF IInv
<1>8. ASSUME NEW w \in Workers, RetryFulfillment(w) PROVE IInv'
  <2>1. TypeOK'
    BY <1>8 DEF IInv, TypeOK, RetryFulfillment, Start, Retryable
  <2>2. Counted'
    BY <1>8 DEF IInv, TypeOK, Counted, RetryFulfillment, Start, Retryable
  <2>3. GrantedByStep'
    BY <1>8 DEF IInv, TypeOK, Counted, GrantedByStep, RetryFulfillment, Start, Retryable
  <2>4. PaidByStep'
    BY <1>8 DEF IInv, TypeOK, PaidByStep, Paid, Counted, RetryFulfillment, Start, Retryable
  <2>5. PaidNotDropped'
    BY <1>8 DEF IInv, TypeOK, PaidNotDropped, PaidByStep, RetryFulfillment, Start, Retryable
  <2> QED BY <2>1, <2>2, <2>3, <2>4, <2>5 DEF IInv
<1>9. ASSUME NEW w \in Workers, VerifyOrder(w) PROVE IInv'
  <2>1. TypeOK'
    BY <1>9 DEF IInv, TypeOK, VerifyOrder, Start
  <2>2. Counted'
    BY <1>9 DEF IInv, TypeOK, Counted, VerifyOrder, Start
  <2>3. GrantedByStep'
    BY <1>9 DEF IInv, TypeOK, Counted, GrantedByStep, VerifyOrder, Start
  <2>4. PaidByStep'
    BY <1>9 DEF IInv, TypeOK, PaidByStep, Paid, Counted, VerifyOrder, Start
  <2>5. PaidNotDropped'
    BY <1>9 DEF IInv, TypeOK, PaidNotDropped, PaidByStep, VerifyOrder, Start
  <2> QED BY <2>1, <2>2, <2>3, <2>4, <2>5 DEF IInv
<1>10. ASSUME NEW w \in Workers, CancelOrder(w) PROVE IInv'
  <2>1. TypeOK'
    BY <1>10 DEF IInv, TypeOK, CancelOrder, Start
  <2>2. Counted'
    BY <1>10 DEF IInv, TypeOK, Counted, CancelOrder, Start
  <2>3. GrantedByStep'
    BY <1>10 DEF IInv, TypeOK, Counted, GrantedByStep, CancelOrder, Start
  <2>4. PaidByStep'
    BY <1>10 DEF IInv, TypeOK, PaidByStep, Paid, Counted, CancelOrder, Start
  <2>5. PaidNotDropped'
    BY <1>10 DEF IInv, TypeOK, PaidNotDropped, PaidByStep, CancelOrder, Start
  <2> QED BY <2>1, <2>2, <2>3, <2>4, <2>5 DEF IInv
<1>11. ASSUME NEW w \in Workers, ExpireTimedOutOrders(w) PROVE IInv'
  <2>1. TypeOK'
    BY <1>11 DEF IInv, TypeOK, ExpireTimedOutOrders, Start
  <2>2. Counted'
    BY <1>11 DEF IInv, TypeOK, Counted, ExpireTimedOutOrders, Start
  <2>3. GrantedByStep'
    BY <1>11 DEF IInv, TypeOK, Counted, GrantedByStep, ExpireTimedOutOrders, Start
  <2>4. PaidByStep'
    BY <1>11 DEF IInv, TypeOK, PaidByStep, Paid, Counted, ExpireTimedOutOrders, Start
  <2>5. PaidNotDropped'
    BY <1>11 DEF IInv, TypeOK, PaidNotDropped, PaidByStep, ExpireTimedOutOrders, Start
  <2> QED BY <2>1, <2>2, <2>3, <2>4, <2>5 DEF IInv
<1>12. ASSUME NEW w \in Workers, QueryOrder(w) PROVE IInv'
  <2>1. TypeOK'
    BY <1>12 DEF IInv, TypeOK, QueryOrder, NotPaid, Goto, Return
  <2>2. Counted'
    BY <1>12 DEF IInv, TypeOK, Counted, QueryOrder, NotPaid, Goto, Return
  <2>3. GrantedByStep'
    BY <1>12 DEF IInv, TypeOK, Counted, GrantedByStep, QueryOrder, NotPaid, Goto, Return
  <2>4. PaidByStep'
    BY <1>12 DEF IInv, TypeOK, PaidByStep, Paid, Counted, QueryOrder, NotPaid, Goto, Return
  <2>5. PaidNotDropped'
    BY <1>12 DEF IInv, TypeOK, PaidNotDropped, PaidByStep, QueryOrder, NotPaid, Goto, Return
  <2> QED BY <2>1, <2>2, <2>3, <2>4, <2>5 DEF IInv
<1>13. ASSUME NEW w \in Workers, PersistTradeNo(w) PROVE IInv'
  <2>1. TypeOK'
    <3>1. RowTypes'
      BY <1>13 DEF IInv, TypeOK, RowTypes, PersistTradeNo, Update, Goto
    <3>2. WorkerTypes'
      BY <1>13 DEF IInv, TypeOK, WorkerTypes, PersistTradeNo, Update, Goto
    <3> QED BY <1>13, <3>1, <3>2 DEF IInv, TypeOK, RowTypes, WorkerTypes, PersistTradeNo, Update, Goto
  <2>2. Counted'
    BY <1>13 DEF IInv, TypeOK, Counted, PersistTradeNo, Update, Goto
  <2>3. GrantedByStep'
    BY <1>13 DEF IInv, TypeOK, Counted, GrantedByStep, PersistTradeNo, Update, Goto
  <2>4. PaidByStep'
    BY <1>13 DEF IInv, TypeOK, PaidByStep, Paid, Counted, PersistTradeNo, Update, Goto
  <2>5. PaidNotDropped'
    BY <1>13 DEF IInv, TypeOK, PaidNotDropped, PaidByStep, PersistTradeNo, Update, Goto
  <2> QED BY <2>1, <2>2, <2>3, <2>4, <2>5 DEF IInv
<1>14. ASSUME NEW w \in Workers, CancelPayment(w) PROVE IInv'
  <2>1. TypeOK'
    BY <1>14 DEF IInv, TypeOK, CancelPayment, Goto
  <2>2. Counted'
    BY <1>14 DEF IInv, TypeOK, Counted, CancelPayment, Goto
  <2>3. GrantedByStep'
    BY <1>14 DEF IInv, TypeOK, Counted, GrantedByStep, CancelPayment, Goto
  <2>4. PaidByStep'
    BY <1>14 DEF IInv, TypeOK, PaidByStep, Paid, Counted, CancelPayment, Goto
  <2>5. PaidNotDropped'
    BY <1>14 DEF IInv, TypeOK, PaidNotDropped, PaidByStep, CancelPayment, Goto
  <2> QED BY <2>1, <2>2, <2>3, <2>4, <2>5 DEF IInv
<1>15. ASSUME NEW w \in Workers, CancelCas(w) PROVE IInv'
  <2>1. TypeOK'
    <3>1. RowTypes'
      BY <1>15 DEF IInv, TypeOK, RowTypes, CancelCas, Cancellable, Update, Return
    <3>2. WorkerTypes'
      BY <1>15 DEF IInv, TypeOK, WorkerTypes, CancelCas, Cancellable, Update, Return
    <3> QED BY <1>15, <3>1, <3>2 DEF IInv, TypeOK, RowTypes, WorkerTypes, CancelCas, Cancellable, Update, Return
  <2>2. Counted'
    BY <1>15 DEF IInv, TypeOK, Counted, CancelCas, Cancellable, Update, Return
  <2>3. GrantedByStep'
    BY <1>15 DEF IInv, TypeOK, Counted, GrantedByStep, CancelCas, Cancellable, Update, Return
  <2>4. PaidByStep'
    BY <1>15 DEF IInv, TypeOK, PaidByStep, Paid, Counted, CancelCas, Cancellable, Update, Return
  <2>5. PaidNotDropped'
    BY <1>15 DEF IInv, TypeOK, PaidNotDropped, PaidByStep, CancelCas, Cancellable, Update, Return
  <2> QED BY <2>1, <2>2, <2>3, <2>4, <2>5 DEF IInv
<1>16. ASSUME NEW w \in Workers, ConfirmPayment(w) PROVE IInv'
  <2>1. TypeOK'
    <3>1. RowTypes'
      BY <1>16 DEF IInv, TypeOK, RowTypes, ConfirmPayment, Genuine, Confirmable, Update, Goto, Return
    <3>2. WorkerTypes'
      BY <1>16 DEF IInv, TypeOK, WorkerTypes, ConfirmPayment, Genuine, Confirmable, Update, Goto, Return
    <3> QED BY <1>16, <3>1, <3>2 DEF IInv, TypeOK, RowTypes, WorkerTypes, ConfirmPayment, Genuine, Confirmable, Update, Goto, Return
  <2>2. Counted'
    BY <1>16 DEF IInv, TypeOK, Counted, ConfirmPayment, Genuine, Confirmable, Update, Goto, Return
  <2>3. GrantedByStep'
    BY <1>16 DEF IInv, TypeOK, Counted, GrantedByStep, ConfirmPayment, Genuine, Confirmable, Update, Goto, Return
  <2>4. PaidByStep'
    BY <1>16 DEF IInv, TypeOK, PaidByStep, Paid, Counted, ConfirmPayment, Genuine, Confirmable, Update, Goto, Return
  <2>5. PaidNotDropped'
    BY <1>16 DEF IInv, TypeOK, PaidNotDropped, PaidByStep, ConfirmPayment, Genuine, Confirmable, Update, Goto, Return
  <2> QED BY <2>1, <2>2, <2>3, <2>4, <2>5 DEF IInv
<1>17. ASSUME NEW w \in Workers, AlreadyProcessed(w) PROVE IInv'
  <2>1. TypeOK'
    <3>1. RowTypes'
      BY <1>17 DEF IInv, TypeOK, RowTypes, AlreadyProcessed, Goto, Return
    <3>2. WorkerTypes'
      BY <1>17 DEF IInv, TypeOK, WorkerTypes, AlreadyProcessed, Goto, Return
    <3> QED BY <1>17, <3>1, <3>2 DEF IInv, TypeOK, RowTypes, WorkerTypes, AlreadyProcessed, Goto, Return
  <2>2. Counted'
    BY <1>17 DEF IInv, TypeOK, Counted, AlreadyProcessed, Goto, Return
  <2>3. GrantedByStep'
    BY <1>17 DEF IInv, TypeOK, Counted, GrantedByStep, AlreadyProcessed, Goto, Return
  <2>4. PaidByStep'
    BY <1>17 DEF IInv, TypeOK, PaidByStep, Paid, Counted, AlreadyProcessed, Goto, Return
  <2>5. PaidNotDropped'
    BY <1>17 DEF IInv, TypeOK, PaidNotDropped, PaidByStep, AlreadyProcessed, Goto, Return
  <2> QED BY <2>1, <2>2, <2>3, <2>4, <2>5 DEF IInv
<1>18. ASSUME NEW w \in Workers, LoadOrder(w) PROVE IInv'
  <2>1. TypeOK'
    <3>1. RowTypes'
      BY <1>18 DEF IInv, TypeOK, RowTypes, LoadOrder, Goto, Return
    <3>2. WorkerTypes'
      BY <1>18 DEF IInv, TypeOK, WorkerTypes, LoadOrder, Goto, Return
    <3> QED BY <1>18, <3>1, <3>2 DEF IInv, TypeOK, RowTypes, WorkerTypes, LoadOrder, Goto, Return
  <2>2. Counted'
    BY <1>18 DEF IInv, TypeOK, Counted, LoadOrder, Goto, Return
  <2>3. GrantedByStep'
    BY <1>18 DEF IInv, TypeOK, Counted, GrantedByStep, LoadOrder, Goto, Return
  <2>4. PaidByStep'
    BY <1>18 DEF IInv, TypeOK, PaidByStep, Paid, Counted, LoadOrder, Goto, Return
  <2>5. PaidNotDropped'
    BY <1>18 DEF IInv, TypeOK, PaidNotDropped, PaidByStep, LoadOrder, Goto, Return
  <2> QED BY <2>1, <2>2, <2>3, <2>4, <2>5 DEF IInv
<1>19. ASSUME NEW w \in Workers, AcquireLease(w) PROVE IInv'
  <2>1. TypeOK'
    <3>1. RowTypes'
      BY <1>19 DEF IInv, TypeOK, RowTypes, AcquireLease, Acquirable, Update, Goto, Return
    <3>2. WorkerTypes'
      BY <1>19 DEF IInv, TypeOK, WorkerTypes, AcquireLease, Acquirable, Update, Goto, Return
    <3> QED BY <1>19, <3>1, <3>2 DEF IInv, TypeOK, RowTypes, WorkerTypes, AcquireLease, Acquirable, Update, Goto, Return
  <2>2. Counted'
    BY <1>19 DEF IInv, TypeOK, Counted, AcquireLease, Acquirable, Update, Goto, Return
  <2>3. GrantedByStep'
    BY <1>19 DEF IInv, TypeOK, Counted, GrantedByStep, AcquireLease, Acquirable, Update, Goto, Return
  <2>4. PaidByStep'
    BY <1>19 DEF IInv, TypeOK, PaidByStep, Paid, Counted, AcquireLease, Acquirable, Update, Goto, Return
  <2>5. PaidNotDropped'
    BY <1>19 DEF IInv, TypeOK, PaidNotDropped, PaidByStep, AcquireLease, Acquirable, Update, Goto, Return
  <2> QED BY <2>1, <2>2, <2>3, <2>4, <2>5 DEF IInv
<1>20. ASSUME NEW w \in Workers, ReloadLease(w) PROVE IInv'
  <2>1. TypeOK'
    BY <1>20 DEF IInv, TypeOK, ReloadLease, Goto, Return
  <2>2. Counted'
    BY <1>20 DEF IInv, TypeOK, Counted, ReloadLease, Goto, Return
  <2>3. GrantedByStep'
    BY <1>20 DEF IInv, TypeOK, Counted, GrantedByStep, ReloadLease, Goto, Return
  <2>4. PaidByStep'
    BY <1>20 DEF IInv, TypeOK, PaidByStep, Paid, Counted, ReloadLease, Goto, Return
  <2>5. PaidNotDropped'
    BY <1>20 DEF IInv, TypeOK, PaidNotDropped, PaidByStep, ReloadLease, Goto, Return
  <2> QED BY <2>1, <2>2, <2>3, <2>4, <2>5 DEF IInv
<1>21. ASSUME NEW w \in Workers, LookupCode(w) PROVE IInv'
  <2>1. TypeOK'
    BY <1>21 DEF IInv, TypeOK, LookupCode, ResolveRedeemAction, Goto
  <2>2. Counted'
    BY <1>21 DEF IInv, TypeOK, Counted, LookupCode, ResolveRedeemAction, Goto
  <2>3. GrantedByStep'
    BY <1>21 DEF IInv, TypeOK, Counted, GrantedByStep, LookupCode, ResolveRedeemAction, Goto
  <2>4. PaidByStep'
    BY <1>21 DEF IInv, TypeOK, PaidByStep, Paid, Counted, LookupCode, ResolveRedeemAction, Goto
  <2>5. PaidNotDropped'
    BY <1>21 DEF IInv, TypeOK, PaidNotDropped, PaidByStep, LookupCode, ResolveRedeemAction, Goto
  <2> QED BY <2>1, <2>2, <2>3, <2>4, <2>5 DEF IInv
<1>22. ASSUME NEW w \in Workers, CreateCode(w) PROVE IInv'
  <2>1. TypeOK'
    BY <1>22 DEF IInv, TypeOK, CreateCode, Goto
  <2>2. Counted'
    BY <1>22 DEF IInv, TypeOK, Counted, CreateCode, Goto
  <2>3. GrantedByStep'
    BY <1>22 DEF IInv, TypeOK, Counted, GrantedByStep, CreateCode, Goto
  <2>4. PaidByStep'
    BY <1>22 DEF IInv, TypeOK, PaidByStep, Paid, Counted, CreateCode, Goto
  <2>5. PaidNotDropped'
    BY <1>22 DEF IInv, TypeOK, PaidNotDropped, PaidByStep, CreateCode, Goto
  <2> QED BY <2>1, <2>2, <2>3, <2>4, <2>5 DEF IInv
<1>23. ASSUME NEW w \in Workers, Redeem(w) PROVE IInv'
  <2>1. TypeOK'
    BY <1>23 DEF IInv, TypeOK, Redeem, Usable, Grant, Goto, Fault
  <2>2. Counted'
    BY <1>23 DEF IInv, TypeOK, Counted, Redeem, Usable, Grant, Goto, Fault
  <2>3. GrantedByStep'
    BY <1>23 DEF IInv, TypeOK, Counted, GrantedByStep, Redeem, Usable, Grant, Goto, Fault
  <2>4. PaidByStep'
    BY <1>23 DEF IInv, TypeOK, PaidByStep, Paid, Counted, Redeem, Usable, Grant, Goto, Fault
  <2>5. PaidNotDropped'
    BY <1>23 DEF IInv, TypeOK, PaidNotDropped, PaidByStep, Redeem, Usable, Grant, Goto, Fault
  <2> QED BY <2>1, <2>2, <2>3, <2>4, <2>5 DEF IInv
<1>24. ASSUME NEW w \in Workers, AssignSubscription(w) PROVE IInv'
  <2>1. TypeOK'
    BY <1>24 DEF IInv, TypeOK, AssignSubscription, Grant, Goto, Fault
  <2>2. Counted'
    BY <1>24 DEF IInv, TypeOK, Counted, AssignSubscription, Grant, Goto, Fault
  <2>3. GrantedByStep'
    BY <1>24 DEF IInv, TypeOK, Counted, GrantedByStep, AssignSubscription, Grant, Goto, Fault
  <2>4. PaidByStep'
    BY <1>24 DEF IInv, TypeOK, PaidByStep, Paid, Counted, AssignSubscription, Grant, Goto, Fault
  <2>5. PaidNotDropped'
    BY <1>24 DEF IInv, TypeOK, PaidNotDropped, PaidByStep, AssignSubscription, Grant, Goto, Fault
  <2> QED BY <2>1, <2>2, <2>3, <2>4, <2>5 DEF IInv
<1>25. ASSUME NEW w \in Workers, ApplyPostPaymentAccounting(w) PROVE IInv'
  <2>1. TypeOK'
    BY <1>25 DEF IInv, TypeOK, ApplyPostPaymentAccounting, ApplyAffiliateRebateForOrder, Goto
  <2>2. Counted'
    BY <1>25 DEF IInv, TypeOK, Counted, ApplyPostPaymentAccounting, ApplyAffiliateRebateForOrder, Goto
  <2>3. GrantedByStep'
    BY <1>25 DEF IInv, TypeOK, Counted, GrantedByStep, ApplyPostPaymentAccounting, ApplyAffiliateRebateForOrder, Goto
  <2>4. PaidByStep'
    BY <1>25 DEF IInv, TypeOK, PaidByStep, Paid, Counted, ApplyPostPaymentAccounting, ApplyAffiliateRebateForOrder, Goto
  <2>5. PaidNotDropped'
    BY <1>25 DEF IInv, TypeOK, PaidNotDropped, PaidByStep, ApplyPostPaymentAccounting, ApplyAffiliateRebateForOrder, Goto
  <2> QED BY <2>1, <2>2, <2>3, <2>4, <2>5 DEF IInv
<1>26. ASSUME NEW w \in Workers, MarkCompleted(w) PROVE IInv'
  <2>1. TypeOK'
    <3>1. RowTypes'
      BY <1>26 DEF IInv, TypeOK, RowTypes, MarkCompleted, LeaseValid, Update, Goto, Return
    <3>2. WorkerTypes'
      BY <1>26 DEF IInv, TypeOK, WorkerTypes, MarkCompleted, LeaseValid, Update, Goto, Return
    <3> QED BY <1>26, <3>1, <3>2 DEF IInv, TypeOK, RowTypes, WorkerTypes, MarkCompleted, LeaseValid, Update, Goto, Return
  <2>2. Counted'
    BY <1>26 DEF IInv, TypeOK, Counted, MarkCompleted, LeaseValid, Update, Goto, Return
  <2>3. GrantedByStep'
    BY <1>26 DEF IInv, TypeOK, Counted, GrantedByStep, MarkCompleted, LeaseValid, Update, Goto, Return
  <2>4. PaidByStep'
    BY <1>26 DEF IInv, TypeOK, PaidByStep, Paid, Counted, MarkCompleted, LeaseValid, Update, Goto, Return
  <2>5. PaidNotDropped'
    BY <1>26 DEF IInv, TypeOK, PaidNotDropped, PaidByStep, MarkCompleted, LeaseValid, Update, Goto, Return
  <2> QED BY <2>1, <2>2, <2>3, <2>4, <2>5 DEF IInv
<1>27. ASSUME NEW w \in Workers, RecordRechargeLedger(w) PROVE IInv'
  <2>1. TypeOK'
    BY <1>27 DEF IInv, TypeOK, RecordRechargeLedger, Return
  <2>2. Counted'
    BY <1>27 DEF IInv, TypeOK, Counted, RecordRechargeLedger, Return
  <2>3. GrantedByStep'
    BY <1>27 DEF IInv, TypeOK, Counted, GrantedByStep, RecordRechargeLedger, Return
  <2>4. PaidByStep'
    BY <1>27 DEF IInv, TypeOK, PaidByStep, Paid, Counted, RecordRechargeLedger, Return
  <2>5. PaidNotDropped'
    BY <1>27 DEF IInv, TypeOK, PaidNotDropped, PaidByStep, RecordRechargeLedger, Return
  <2> QED BY <2>1, <2>2, <2>3, <2>4, <2>5 DEF IInv
<1>28. ASSUME NEW w \in Workers, MarkFailed(w) PROVE IInv'
  <2>1. TypeOK'
    <3>1. RowTypes'
      BY <1>28 DEF IInv, TypeOK, RowTypes, MarkFailed, Failable, LeaseValid, Update, Return
    <3>2. WorkerTypes'
      BY <1>28 DEF IInv, TypeOK, WorkerTypes, MarkFailed, Failable, LeaseValid, Update, Return
    <3> QED BY <1>28, <3>1, <3>2 DEF IInv, TypeOK, RowTypes, WorkerTypes, MarkFailed, Failable, LeaseValid, Update, Return
  <2>2. Counted'
    BY <1>28 DEF IInv, TypeOK, Counted, MarkFailed, Failable, LeaseValid, Update, Return
  <2>3. GrantedByStep'
    BY <1>28 DEF IInv, TypeOK, Counted, GrantedByStep, MarkFailed, Failable, LeaseValid, Update, Return
  <2>4. PaidByStep'
    BY <1>28 DEF IInv, TypeOK, PaidByStep, Paid, Counted, MarkFailed, Failable, LeaseValid, Update, Return
  <2>5. PaidNotDropped'
    BY <1>28 DEF IInv, TypeOK, PaidNotDropped, PaidByStep, MarkFailed, Failable, LeaseValid, Update, Return
  <2> QED BY <2>1, <2>2, <2>3, <2>4, <2>5 DEF IInv
<1>29. ASSUME NEW w \in Workers, CallFails(w) PROVE IInv'
  <2>1. TypeOK'
    <3>1. RowTypes'
      BY <1>29 DEF IInv, TypeOK, RowTypes, CallFails, Fault, NotPaid, Goto, Return
    <3>2. WorkerTypes'
      BY <1>29 DEF IInv, TypeOK, WorkerTypes, CallFails, Fault, NotPaid, Goto, Return
    <3> QED BY <1>29, <3>1, <3>2 DEF IInv, TypeOK, RowTypes, WorkerTypes, CallFails, Fault, NotPaid, Goto, Return
  <2>2. Counted'
    BY <1>29 DEF IInv, TypeOK, Counted, CallFails, Fault, NotPaid, Goto, Return
  <2>3. GrantedByStep'
    BY <1>29 DEF IInv, TypeOK, Counted, GrantedByStep, CallFails, Fault, NotPaid, Goto, Return
  <2>4. PaidByStep'
    BY <1>29 DEF IInv, TypeOK, PaidByStep, Paid, Counted, CallFails, Fault, NotPaid, Goto, Return
  <2>5. PaidNotDropped'
    BY <1>29 DEF IInv, TypeOK, PaidNotDropped, PaidByStep, CallFails, Fault, NotPaid, Goto, Return
  <2> QED BY <2>1, <2>2, <2>3, <2>4, <2>5 DEF IInv
<1>30. ASSUME NEW w \in Workers, Crash(w) PROVE IInv'
  <2>1. TypeOK'
    BY <1>30 DEF IInv, TypeOK, Crash, Fault, Return
  <2>2. Counted'
    BY <1>30 DEF IInv, TypeOK, Counted, Crash, Fault, Return
  <2>3. GrantedByStep'
    BY <1>30 DEF IInv, TypeOK, Counted, GrantedByStep, Crash, Fault, Return
  <2>4. PaidByStep'
    BY <1>30 DEF IInv, TypeOK, PaidByStep, Paid, Counted, Crash, Fault, Return
  <2>5. PaidNotDropped'
    BY <1>30 DEF IInv, TypeOK, PaidNotDropped, PaidByStep, Crash, Fault, Return
  <2> QED BY <2>1, <2>2, <2>3, <2>4, <2>5 DEF IInv
<1>31. CASE UNCHANGED vars
  BY <1>31 DEF IInv, TypeOK, Counted, GrantedByStep, PaidByStep, Paid, PaidNotDropped, vars
<1> QED BY <1>1, <1>2, <1>3, <1>4, <1>5, <1>6, <1>7, <1>8, <1>9, <1>10, <1>11, <1>12, <1>13, <1>14, <1>15, <1>16, <1>17, <1>18, <1>19, <1>20, <1>21, <1>22, <1>23, <1>24, <1>25, <1>26, <1>27, <1>28, <1>29, <1>30, <1>31 DEF Next, Begin, Step

\* The lease of one claim cannot pass to another worker before its version is
\* read back, provided five minutes do not go by in between.
LEMMA NextClaimHolds ==
    ASSUME ~StallAtReload, TypeOK, ClaimHolds, [Next]_vars
    PROVE  ClaimHolds'
<1> USE DEF ClaimHolds, OrderStatusPending, OrderStatusPaid, OrderStatusRecharging, OrderStatusCompleted, OrderStatusExpired, OrderStatusCancelled, OrderStatusFailed, orderVars, grantVars, outerVars
<1>1. CASE CreatePayment
  BY <1>1 DEF TypeOK, CreatePayment, Fault
<1>2. CASE SavePaymentDetails
  BY <1>2 DEF TypeOK, SavePaymentDetails, Fault, Update
<1>3. CASE FailCreation
  BY <1>3 DEF TypeOK, FailCreation, Update
<1>4. CASE UserPays
  BY <1>4 DEF TypeOK, UserPays
<1>5. CASE Age
  BY <1>5 DEF TypeOK, Age, Fault
<1>6. ASSUME NEW w \in Workers, Webhook(w) PROVE ClaimHolds'
  BY <1>6 DEF TypeOK, Webhook, Start
<1>7. ASSUME NEW w \in Workers, SimulateOrderPaid(w) PROVE ClaimHolds'
  BY <1>7 DEF TypeOK, SimulateOrderPaid, Start
<1>8. ASSUME NEW w \in Workers, RetryFulfillment(w) PROVE ClaimHolds'
  BY <1>8 DEF TypeOK, RetryFulfillment, Start, Retryable
<1>9. ASSUME NEW w \in Workers, VerifyOrder(w) PROVE ClaimHolds'
  BY <1>9 DEF TypeOK, VerifyOrder, Start
<1>10. ASSUME NEW w \in Workers, CancelOrder(w) PROVE ClaimHolds'
  BY <1>10 DEF TypeOK, CancelOrder, Start
<1>11. ASSUME NEW w \in Workers, ExpireTimedOutOrders(w) PROVE ClaimHolds'
  BY <1>11 DEF TypeOK, ExpireTimedOutOrders, Start
<1>12. ASSUME NEW w \in Workers, QueryOrder(w) PROVE ClaimHolds'
  BY <1>12 DEF TypeOK, QueryOrder, NotPaid, Goto, Return
<1>13. ASSUME NEW w \in Workers, PersistTradeNo(w) PROVE ClaimHolds'
  BY <1>13 DEF TypeOK, PersistTradeNo, Update, Goto
<1>14. ASSUME NEW w \in Workers, CancelPayment(w) PROVE ClaimHolds'
  BY <1>14 DEF TypeOK, CancelPayment, Goto
<1>15. ASSUME NEW w \in Workers, CancelCas(w) PROVE ClaimHolds'
  BY <1>15 DEF TypeOK, CancelCas, Cancellable, Update, Return
<1>16. ASSUME NEW w \in Workers, ConfirmPayment(w) PROVE ClaimHolds'
  BY <1>16 DEF TypeOK, ConfirmPayment, Genuine, Confirmable, Update, Goto, Return
<1>17. ASSUME NEW w \in Workers, AlreadyProcessed(w) PROVE ClaimHolds'
  BY <1>17 DEF TypeOK, AlreadyProcessed, Goto, Return
<1>18. ASSUME NEW w \in Workers, LoadOrder(w) PROVE ClaimHolds'
  BY <1>18 DEF TypeOK, LoadOrder, Goto, Return
<1>19. ASSUME NEW w \in Workers, AcquireLease(w) PROVE ClaimHolds'
  BY <1>19 DEF TypeOK, AcquireLease, Acquirable, Update, Goto, Return
<1>20. ASSUME NEW w \in Workers, ReloadLease(w) PROVE ClaimHolds'
  BY <1>20 DEF TypeOK, ReloadLease, Goto, Return
<1>21. ASSUME NEW w \in Workers, LookupCode(w) PROVE ClaimHolds'
  BY <1>21 DEF TypeOK, LookupCode, ResolveRedeemAction, Goto
<1>22. ASSUME NEW w \in Workers, CreateCode(w) PROVE ClaimHolds'
  BY <1>22 DEF TypeOK, CreateCode, Goto
<1>23. ASSUME NEW w \in Workers, Redeem(w) PROVE ClaimHolds'
  BY <1>23 DEF TypeOK, Redeem, Usable, Grant, Goto, Fault
<1>24. ASSUME NEW w \in Workers, AssignSubscription(w) PROVE ClaimHolds'
  BY <1>24 DEF TypeOK, AssignSubscription, Grant, Goto, Fault
<1>25. ASSUME NEW w \in Workers, ApplyPostPaymentAccounting(w) PROVE ClaimHolds'
  BY <1>25 DEF TypeOK, ApplyPostPaymentAccounting, ApplyAffiliateRebateForOrder, Goto
<1>26. ASSUME NEW w \in Workers, MarkCompleted(w) PROVE ClaimHolds'
  BY <1>26 DEF TypeOK, MarkCompleted, LeaseValid, Update, Goto, Return
<1>27. ASSUME NEW w \in Workers, RecordRechargeLedger(w) PROVE ClaimHolds'
  BY <1>27 DEF TypeOK, RecordRechargeLedger, Return
<1>28. ASSUME NEW w \in Workers, MarkFailed(w) PROVE ClaimHolds'
  BY <1>28 DEF TypeOK, MarkFailed, Failable, LeaseValid, Update, Return
<1>29. ASSUME NEW w \in Workers, CallFails(w) PROVE ClaimHolds'
  BY <1>29 DEF TypeOK, CallFails, Fault, NotPaid, Goto, Return
<1>30. ASSUME NEW w \in Workers, Crash(w) PROVE ClaimHolds'
  BY <1>30 DEF TypeOK, Crash, Fault, Return
<1>31. CASE UNCHANGED vars
  BY <1>31 DEF vars
<1> QED
  BY <1>1, <1>2, <1>3, <1>4, <1>5, <1>6, <1>7, <1>8, <1>9, <1>10, <1>11, <1>12, <1>13, <1>14, <1>15, <1>16, <1>17, <1>18, <1>19, <1>20, <1>21, <1>22, <1>23, <1>24, <1>25, <1>26, <1>27, <1>28, <1>29, <1>30, <1>31 DEF Next, Begin, Step

\* IInv is an invariant.
THEOREM Invariance == Spec => []IInv
<1> QED BY InitIInv, NextIInv, PTL DEF Spec

\* The state keeps its types, for every set of workers and every MaxFaults.
THEOREM TypeCorrect == Spec => []TypeOK
<1>1. IInv => TypeOK
  BY DEF IInv
<1> QED BY <1>1, Invariance, PTL

\* No interleaving of webhooks, verifications, retries, takeovers and crashes
\* credits an order or its rebate twice.
THEOREM CreditCorrect == Spec => []CreditedOnce
<1>1. IInv => CreditedOnce
  BY DEF IInv, Counted, CreditedOnce
<1> QED BY <1>1, Invariance, PTL

\* An order that says COMPLETED has been credited and its rebate settled.
THEOREM CompletionCorrect == Spec => []CompletedIsGranted
<1>1. IInv => CompletedIsGranted
  BY DEF IInv, Counted, GrantedByStep, CompletedIsGranted
<1> QED BY <1>1, Invariance, PTL

\* A credit stands for a matching payment at the provider or for an admin's
\* declaration.
THEOREM PaymentBacked == Spec => []NoCreditWithoutPayment
<1>1. IInv => NoCreditWithoutPayment
  BY DEF IInv, Counted, PaidByStep, Paid, NoCreditWithoutPayment
<1> QED BY <1>1, Invariance, PTL

\* A paid order is never dropped by a cancellation or an expiry.
THEOREM PaidKept == Spec => []PaidNotDropped
<1>1. IInv => PaidNotDropped
  BY DEF IInv
<1> QED BY <1>1, Invariance, PTL

\* If reading a claimed lease back never takes five minutes, only the worker
\* that claimed the lease last can write under it.
THEOREM LeaseCorrect == ASSUME ~StallAtReload PROVE Spec => []LeaseFenced
<1>1. Init => ClaimHolds
  BY DEF Init, ClaimHolds
<1>2. IInv /\ ClaimHolds /\ [Next]_vars => ClaimHolds'
  BY NextClaimHolds DEF IInv
<1>3. ClaimHolds => LeaseFenced
  BY DEF ClaimHolds, LeaseFenced
<1> QED BY <1>1, <1>2, <1>3, Invariance, PTL DEF Spec

\* After CreateOrder is over, COMPLETED is final: in particular a worker that
\* lost its lease cannot fail or expire the order.
THEOREM CompletionFinal == Spec => CompletedStable
<1>1. [Next]_vars =>
        [status = OrderStatusCompleted /\ creating \in {"sent", "failed"}
         => status' = OrderStatusCompleted]_vars
  <2> SUFFICES ASSUME [Next]_vars, status = OrderStatusCompleted, creating \in {"sent", "failed"}
               PROVE  status' = OrderStatusCompleted
    OBVIOUS
  <2> USE DEF OrderStatusPending, OrderStatusPaid, OrderStatusRecharging, OrderStatusCompleted, OrderStatusExpired, OrderStatusCancelled, OrderStatusFailed, orderVars, grantVars, outerVars, Update
  <2>1. CASE CreatePayment \/ SavePaymentDetails \/ FailCreation \/ UserPays \/ Age
    BY <2>1 DEF CreatePayment, SavePaymentDetails, FailCreation, UserPays, Age
  <2>2. ASSUME NEW w \in Workers, Begin(w) \/ CallFails(w) \/ Crash(w)
        PROVE  status' = OrderStatusCompleted
    BY <2>2 DEF Begin, Start, Webhook, SimulateOrderPaid, RetryFulfillment, VerifyOrder,
                CancelOrder, ExpireTimedOutOrders, CallFails, Crash
  <2>3. ASSUME NEW w \in Workers, Step(w) PROVE status' = OrderStatusCompleted
    <3>1. CASE \/ QueryOrder(w) \/ PersistTradeNo(w) \/ CancelPayment(w) \/ CancelCas(w)
               \/ ConfirmPayment(w) \/ AlreadyProcessed(w) \/ LoadOrder(w)
      BY <3>1 DEF QueryOrder, PersistTradeNo, CancelPayment, CancelCas, Cancellable,
                  ConfirmPayment, Confirmable, AlreadyProcessed, LoadOrder
    <3>2. CASE AcquireLease(w) \/ ReloadLease(w) \/ MarkCompleted(w) \/ MarkFailed(w)
      BY <3>2 DEF AcquireLease, Acquirable, ReloadLease, MarkCompleted, LeaseValid,
                  MarkFailed, Failable
    <3>3. CASE \/ LookupCode(w) \/ CreateCode(w) \/ Redeem(w) \/ AssignSubscription(w)
               \/ ApplyPostPaymentAccounting(w) \/ RecordRechargeLedger(w)
      BY <3>3 DEF LookupCode, CreateCode, Redeem, AssignSubscription,
                  ApplyPostPaymentAccounting, ApplyAffiliateRebateForOrder, RecordRechargeLedger
    <3> QED BY <2>3, <3>1, <3>2, <3>3 DEF Step
  <2>4. CASE UNCHANGED vars
    BY <2>4 DEF vars
  <2> QED BY <2>1, <2>2, <2>3, <2>4 DEF Next
<1> QED BY <1>1, PTL DEF Spec, CompletedStable

-----------------------------------------------------------------------------
(* The order implements PaidOrder.                                         *)

\* Nothing that PaidOrder speaks of changes.
Silent ==
    /\ Funded' = Funded /\ Closed' = Closed
    /\ credited' = credited /\ claimed' = claimed /\ rebates' = rebates

\* CreateOrder after the insert, the payer and the clock.
LEMMA OuterRefines ==
    ASSUME IInv, CreatePayment \/ SavePaymentDetails \/ FailCreation \/ UserPays \/ Age
    PROVE  Silent \/ Order!Fund \/ Order!Complete
<1> USE DEF Silent, Funded, Closed, orderVars, grantVars, outerVars
<1>1. CASE CreatePayment
  <2>1. upstream = "none" /\ creating = "invoke"
    BY <1>1 DEF CreatePayment, IInv, PaidByStep
  <2>2. upstream' \in {"none", "open"} /\ creating' \in {"save", "fail"}
    BY <1>1, <2>1 DEF CreatePayment
  <2>3. QED
    BY <1>1, <2>1, <2>2 DEF CreatePayment
<1>2. CASE SavePaymentDetails
  <2>1. status' = status /\ creating = "save" /\ creating' \in {"sent", "fail"}
    BY <1>2 DEF SavePaymentDetails, Update
  <2>2. upstream' = upstream /\ simulated' = simulated
    BY <1>2 DEF SavePaymentDetails
  <2>3. credited' = credited /\ claimed' = claimed /\ rebates' = rebates
    BY <1>2 DEF SavePaymentDetails
  <2>4. CASE Closed'
    <3>1. claimed
      BY <2>1, <2>4 DEF IInv, GrantedByStep
    <3>2. QED
      BY <2>2, <2>3, <2>4, <3>1 DEF Order!Complete
  <2>5. CASE ~Closed'
    BY <2>1, <2>2, <2>3, <2>5
  <2>6. QED
    BY <2>4, <2>5
<1>3. CASE FailCreation
  BY <1>3 DEF FailCreation, Update, OrderStatusFailed, OrderStatusCompleted
<1>4. CASE UserPays
  <2>1. upstream = "open" /\ upstream' \in {"paid", "mispaid"} /\ simulated' = simulated
    BY <1>4 DEF UserPays
  <2>2. /\ Closed' = Closed
        /\ credited' = credited /\ claimed' = claimed /\ rebates' = rebates
    BY <1>4 DEF UserPays
  <2>3. CASE upstream' = "paid"
    BY <2>2, <2>3 DEF Order!Fund
  <2>4. CASE upstream' = "mispaid"
    BY <2>1, <2>2, <2>4
  <2>5. QED
    BY <2>1, <2>3, <2>4
<1>5. CASE Age
  BY <1>5 DEF Age
<1>6. QED
  BY <1>1, <1>2, <1>3, <1>4, <1>5

\* What starts a worker, and what stops it.
LEMMA EdgeRefines ==
    ASSUME IInv, NEW w \in Workers, Begin(w) \/ CallFails(w) \/ Crash(w)
    PROVE  Silent \/ Order!Fund
<1> USE DEF Silent, Funded, Closed, orderVars, grantVars, outerVars
<1>1. CASE SimulateOrderPaid(w)
  <2>1. simulated' /\ Closed' = Closed
    BY <1>1 DEF SimulateOrderPaid, Start
  <2>2. credited' = credited /\ claimed' = claimed /\ rebates' = rebates
    BY <1>1 DEF SimulateOrderPaid, Start
  <2>3. QED
    BY <2>1, <2>2 DEF Order!Fund
<1>2. CASE \/ Webhook(w) \/ RetryFulfillment(w) \/ VerifyOrder(w) \/ CancelOrder(w)
           \/ ExpireTimedOutOrders(w)
  BY <1>2 DEF Webhook, RetryFulfillment, VerifyOrder, CancelOrder, ExpireTimedOutOrders, Start
<1>3. CASE CallFails(w) \/ Crash(w)
  <2>1. UNCHANGED <<orderVars, grantVars, outerVars>>
    BY <1>3 DEF CallFails, Crash
  <2>2. QED
    BY <2>1
<1>4. QED
  BY <1>1, <1>2, <1>3 DEF Begin

\* Before the grant nothing happens to the order; an order that is complete is
\* not touched.
LEMMA ConfirmingRefines ==
    ASSUME IInv, NEW w \in Workers,
           \/ QueryOrder(w) \/ PersistTradeNo(w) \/ CancelPayment(w) \/ CancelCas(w)
           \/ ConfirmPayment(w) \/ AlreadyProcessed(w) \/ LoadOrder(w)
           \/ AcquireLease(w) \/ ReloadLease(w) \/ LookupCode(w) \/ CreateCode(w)
           \/ RecordRechargeLedger(w) \/ MarkFailed(w)
    PROVE  Silent
<1> USE DEF orderVars, grantVars, outerVars
<1>1. credited' = credited /\ claimed' = claimed /\ rebates' = rebates
  BY DEF QueryOrder, PersistTradeNo, CancelPayment, CancelCas, ConfirmPayment, AlreadyProcessed,
     LoadOrder, AcquireLease, ReloadLease, LookupCode, CreateCode, RecordRechargeLedger, MarkFailed
<1>2. simulated' = simulated /\ creating' = creating
  BY DEF QueryOrder, PersistTradeNo, CancelPayment, CancelCas, ConfirmPayment, AlreadyProcessed,
     LoadOrder, AcquireLease, ReloadLease, LookupCode, CreateCode, RecordRechargeLedger, MarkFailed
<1>3. upstream' = upstream \/ (upstream = "open" /\ upstream' = "closed")
  BY DEF QueryOrder, PersistTradeNo, CancelPayment, CancelCas, ConfirmPayment, AlreadyProcessed,
     LoadOrder, AcquireLease, ReloadLease, LookupCode, CreateCode, RecordRechargeLedger, MarkFailed
<1>4. status' = status \/ (status # OrderStatusCompleted /\ status' # OrderStatusCompleted)
  BY DEF QueryOrder, PersistTradeNo, CancelPayment, CancelCas, Cancellable, ConfirmPayment,
     Confirmable, AlreadyProcessed, LoadOrder, AcquireLease, Acquirable, ReloadLease, LookupCode,
     CreateCode, RecordRechargeLedger, MarkFailed, Failable, LeaseValid, Update,
     OrderStatusPending, OrderStatusPaid, OrderStatusRecharging, OrderStatusCompleted,
     OrderStatusExpired, OrderStatusCancelled, OrderStatusFailed
<1>5. Funded' = Funded /\ Closed' = Closed
  BY <1>2, <1>3, <1>4 DEF Funded, Closed
<1>6. QED
  BY <1>1, <1>5 DEF Silent

\* The grant, the accounting and the completion.
LEMMA GrantingRefines ==
    ASSUME IInv, NEW w \in Workers,
           Redeem(w) \/ AssignSubscription(w) \/ ApplyPostPaymentAccounting(w) \/ MarkCompleted(w)
    PROVE  Silent \/ Order!Credit \/ Order!SettleRebate \/ Order!Complete
<1> USE DEF orderVars, grantVars, outerVars
<1>0. UNCHANGED outerVars
  BY DEF Redeem, AssignSubscription, ApplyPostPaymentAccounting, ApplyAffiliateRebateForOrder, MarkCompleted
<1>1. Funded' = Funded
  BY <1>0 DEF Funded
<1>2. creating' = creating
  BY <1>0
<1>3. CASE Redeem(w) \/ AssignSubscription(w)
  <2>1. Funded
    BY <1>3 DEF Redeem, AssignSubscription, IInv, PaidByStep, Paid, Funded, Granting
  <2>2. claimed' = claimed /\ rebates' = rebates /\ Closed' = Closed
    BY <1>2, <1>3 DEF Redeem, AssignSubscription, Closed
  <2>3. \/ credited' = credited
        \/ code # "used" /\ credited' = credited + 1
    BY <1>3 DEF Redeem, AssignSubscription, Usable, Grant
  <2>4. CASE credited' = credited
    BY <1>1, <2>2, <2>4 DEF Silent
  <2>5. CASE code # "used" /\ credited' = credited + 1
    <3>1. credited = 0 /\ credited' = 1
      BY <2>5 DEF IInv, Counted
    <3>2. QED
      BY <1>1, <2>1, <2>2, <3>1 DEF Order!Credit
  <2>6. QED
    BY <2>3, <2>4, <2>5
<1>4. CASE ApplyPostPaymentAccounting(w)
  <2>1. credited = 1
    BY <1>4 DEF ApplyPostPaymentAccounting, ApplyAffiliateRebateForOrder, IInv, GrantedByStep, Counted
  <2>2. credited' = credited /\ Closed' = Closed /\ claimed' = TRUE
    BY <1>2, <1>4 DEF ApplyPostPaymentAccounting, ApplyAffiliateRebateForOrder, Closed
  <2>3. CASE claimed
    <3>1. claimed = TRUE /\ rebates' = rebates
      BY <1>4, <2>3 DEF ApplyPostPaymentAccounting, ApplyAffiliateRebateForOrder, IInv, TypeOK
    <3>2. QED
      BY <1>1, <2>2, <3>1 DEF Silent
  <2>4. CASE ~claimed
    <3>1. rebates' \in {0, 1}
      BY <1>4, <2>4 DEF ApplyPostPaymentAccounting, ApplyAffiliateRebateForOrder, IInv, Counted
    <3>2. QED
      BY <1>1, <2>1, <2>2, <2>4, <3>1 DEF Order!SettleRebate
  <2>5. QED
    BY <2>3, <2>4
<1>5. CASE MarkCompleted(w)
  <2>1. credited' = credited /\ claimed' = claimed /\ rebates' = rebates
    BY <1>5 DEF MarkCompleted
  <2>2. claimed /\ status' \in {status, OrderStatusCompleted}
    BY <1>5 DEF MarkCompleted, Update, IInv, GrantedByStep
  <2>3. CASE Closed'
    BY <1>1, <2>1, <2>2, <2>3 DEF Order!Complete, Closed
  <2>4. CASE ~Closed'
    BY <1>1, <1>2, <2>1, <2>2, <2>4 DEF Silent, Closed
  <2>5. QED
    BY <2>3, <2>4
<1>6. QED
  BY <1>3, <1>4, <1>5

\* Every worker, fault and restart leaves the order on the path of PaidOrder:
\* funded, credited once, the rebate decided once, complete for good.
THEOREM OrderFulfilled == Spec => FulfilsOrder
<1>1. Init => Order!Init
  BY DEF Init, Order!Init, Funded, Closed
<1>2. IInv /\ [Next]_vars => [Order!Next]_<<Funded, credited, claimed, rebates, Closed>>
  <2> SUFFICES ASSUME IInv, [Next]_vars
               PROVE  Order!Next \/ Silent
    BY DEF Silent
  <2>1. CASE UNCHANGED vars
    BY <2>1 DEF vars, orderVars, grantVars, outerVars, Silent, Funded, Closed
  <2>2. CASE Next
    BY <2>2, OuterRefines, EdgeRefines, ConfirmingRefines, GrantingRefines
       DEF Next, Step, Order!Next
  <2>3. QED
    BY <2>1, <2>2
<1>3. QED
  BY <1>1, <1>2, Invariance, PTL DEF Spec, FulfilsOrder, Order!Spec, Order!paidOrderVars
=============================================================================
